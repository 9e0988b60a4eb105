-------------------------- MODULE ConnectionProofs ---------------------------
(***************************************************************************)
(* The invariant of PeerConnections is inductive, for any number of servers,  *)
(* streams, descriptors and faults.                                          *)
(***************************************************************************)
EXTENDS ConnectionLemmas

-----------------------------------------------------------------------------
(* The pieces on the wire *)

PieceWire == [Streams -> [Servers -> Seq(Piece)]]

(* Every handshake in w is in v. *)
NoNewHandshake(v, w) ==
  \A i \in 1 .. Len(w) : w[i].part = "handshake" => \E j \in 1 .. Len(v) : w[i] = v[j]

LEMMA WireStep ==
  ASSUME wire \in PieceWire, HandshakesInv, NEW k \in Streams, NEW p \in Servers,
         NEW w \in Seq(Piece), NoNewHandshake(wire[k][p], w),
         wire' = [wire EXCEPT ![k][p] = w], stream' = stream
  PROVE  wire' \in PieceWire /\ HandshakesInv'
<1>1. wire' \in PieceWire
  BY DEF PieceWire
<1>2. \A j \in Streams, q \in Servers : wire'[j][q] = IF j = k /\ q = p THEN w ELSE wire[j][q]
  BY DEF PieceWire
<1>3. HandshakesInv'
  <2>. SUFFICES ASSUME NEW j \in Streams, NEW q \in Servers, NEW i \in 1 .. Len(wire'[j][q]),
                       wire'[j][q][i].part = "handshake"
                PROVE  j \in DOMAIN stream /\ stream[j].to = q /\ stream[j].from = wire'[j][q][i].number
    BY DEF HandshakesInv
  <2>1. PICK m \in 1 .. Len(wire[j][q]) : wire'[j][q][i] = wire[j][q][m]
    BY <1>2 DEF NoNewHandshake
  <2>. QED BY <2>1 DEF HandshakesInv
<1>. QED BY <1>1, <1>3

(* What a read leaves, what a break leaves, and nothing. *)
LEMMA SuffixOf ==
  ASSUME NEW v \in Seq(Piece), NEW n \in 1 .. Len(v)
  PROVE  SubSeq(v, n + 1, Len(v)) \in Seq(Piece) /\ NoNewHandshake(v, SubSeq(v, n + 1, Len(v)))
BY DEF NoNewHandshake

LEMMA PrefixOf ==
  ASSUME NEW v \in Seq(Piece), NEW n \in 0 .. Len(v)
  PROVE  SubSeq(v, 1, n) \in Seq(Piece) /\ NoNewHandshake(v, SubSeq(v, 1, n))
BY DEF NoNewHandshake

LEMMA NothingOf ==
  ASSUME NEW v
  PROVE  << >> \in Seq(Piece) /\ NoNewHandshake(v, << >>)
BY DEF NoNewHandshake

(* A message that is written has no handshake in it. *)
LEMMA MessagePieces ==
  ASSUME NEW n \in Nat, NEW kind \in MessageKinds
  PROVE  /\ serialize(n, kind) \in Seq(Piece)
         /\ \A i \in 1 .. Len(serialize(n, kind)) : serialize(n, kind)[i].part # "handshake"
<1>1. Header(n, kind) \in Piece /\ Header(n, kind).part # "handshake"
  BY DEF Header, Piece
<1>2. Payload(n) \in Piece /\ Payload(n).part # "handshake"
  BY DEF Payload, Piece, MessageKinds
<1>3. CASE kind = "bare"
  <2>1. serialize(n, kind) = <<Header(n, kind)>>
    BY <1>3 DEF serialize
  <2>. QED BY <1>1, <2>1
<1>4. CASE kind # "bare"
  <2>1. serialize(n, kind) = <<Header(n, kind), Payload(n)>>
    BY <1>4 DEF serialize
  <2>. QED BY <1>1, <1>2, <2>1
<1>. QED BY <1>3, <1>4

LEMMA WrittenAfter ==
  ASSUME NEW v \in Seq(Piece), NEW w \in Seq(Piece),
         \A i \in 1 .. Len(w) : w[i].part # "handshake"
  PROVE  v \o w \in Seq(Piece) /\ NoNewHandshake(v, v \o w)
BY DEF NoNewHandshake

LEMMA FirstPiece ==
  ASSUME NEW v \in Seq(Piece), Len(v) > 1, \A i \in 1 .. Len(v) : v[i].part # "handshake"
  PROVE  /\ SubSeq(v, 1, 1) \in Seq(Piece)
         /\ \A i \in 1 .. Len(SubSeq(v, 1, 1)) : SubSeq(v, 1, 1)[i].part # "handshake"
<1>1. 1 \in 1 .. Len(v)
  OBVIOUS
<1>2. v[1] \in Piece /\ v[1].part # "handshake"
  BY <1>1
<1>3. Len(SubSeq(v, 1, 1)) = 1 /\ SubSeq(v, 1, 1)[1] = v[1]
  BY <1>1
<1>4. SubSeq(v, 1, 1) \in Seq(Piece)
  BY <1>1, PrefixOf
<1>. QED BY <1>2, <1>3, <1>4

LEMMA ElementOf ==
  ASSUME NEW S, NEW v \in Seq(S), NEW k \in DOMAIN v
  PROVE  v[k] \in S
OBVIOUS

LEMMA StreamType ==
  ASSUME ConnectionsInv, NEW k \in DOMAIN stream
  PROVE  stream[k] \in [from : Servers \cup {Client}, to : Servers]
BY ElementOf DEF ConnectionsInv, StreamsInv

-----------------------------------------------------------------------------
(* Steps of one server *)

LEMMA Typed ==
  ASSUME ConnectionsInv, NEW p \in Servers
  PROVE  \E B : server[p] \in ServerType(B)
BY TypeOfServer DEF ConnectionsInv

(* A server with a connection, an attempt or a timer runs. *)
LEMMA Runs ==
  ASSUME ConnectionsInv, NEW p \in Servers,
         \/ \E k \in Streams : \/ server[p].ends[k].reading \/ server[p].ends[k].failed
                               \/ server[p].ends[k].fd # NoFd
         \/ \E q \in Servers : \/ server[p].connecting[q] # NoFd \/ server[p].timers[q] > 0
                               \/ server[p].peers_by_id_[q].connection # Null
  PROVE  p \in up /\ ServerInv(server[p], p)
<1>1. server[p] # InitialServer
  BY InitialServerFacts
<1>. QED BY <1>1 DEF ConnectionsInv

(* One server changes and keeps its part of the invariant. *)
LEMMA ServerStep ==
  ASSUME ConnectionsInv, NEW p \in Servers, NEW B, NEW t \in ServerType(B),
         server' = [server EXCEPT ![p] = t],
         \A q \in Servers \ {p} : q \in up' <=> q \in up,
         IF p \in up' THEN ServerInv(t, p) ELSE t = InitialServer
  PROVE  /\ server' = [q \in Servers |-> server'[q]]
         /\ \A q \in Servers : IsServer(server'[q])
         /\ \A q \in Servers : IF q \in up' THEN ServerInv(server'[q], q) ELSE server'[q] = InitialServer
         /\ server'[p] = t /\ \A q \in Servers \ {p} : server'[q] = server[q]
<1>1. server'[p] = t /\ \A q \in Servers \ {p} : server'[q] = server[q]
  BY DEF ConnectionsInv
<1>2. IsServer(t)
  BY ServerOfType
<1>3. server' = [q \in Servers |-> server'[q]]
  BY DEF ConnectionsInv
<1>4. \A q \in Servers : IsServer(server'[q])
  BY <1>1, <1>2 DEF ConnectionsInv
<1>5. \A q \in Servers : IF q \in up' THEN ServerInv(server'[q], q) ELSE server'[q] = InitialServer
  BY <1>1 DEF ConnectionsInv
<1>. QED BY <1>1, <1>3, <1>4, <1>5

(* The new connections of peers are streams between the two that p has opened. *)
PeersFollow(s, t, p) ==
  \A q \in Servers, k \in Streams :
    t.peers_by_id_[q].connection = k =>
      \/ s.peers_by_id_[q].connection = k
      \/ ~ Unopened(p, k) /\ stream[k].from = q /\ stream[k].to = p

EndsFollow(s, t) ==
  \A k \in Streams : s.ends[k].fd = NoFd /\ ~ s.ends[k].reading =>
    t.ends[k].fd = NoFd /\ ~ t.ends[k].reading

(* A callback that opens no end. *)
LEMMA CallbackInv ==
  ASSUME ConnectionsInv, NEW p \in up, NEW B, NEW t \in ServerType(B),
         server' = [server EXCEPT ![p] = t], ServerInv(t, p),
         EndsFollow(server[p], t), PeersFollow(server[p], t, p),
         up' = up, stream' = stream, backlog' = backlog,
         wire' \in PieceWire, HandshakesInv',
         sent' \in [Servers -> [Servers -> Seq(Seq(Piece))]]
  PROVE  ConnectionsInv'
<1>0. p \in Servers
  BY DEF ConnectionsInv, StreamsInv
<1>1. /\ server' = [q \in Servers |-> server'[q]]
      /\ \A q \in Servers : IsServer(server'[q])
      /\ \A q \in Servers : IF q \in up' THEN ServerInv(server'[q], q) ELSE server'[q] = InitialServer
      /\ server'[p] = t /\ \A q \in Servers \ {p} : server'[q] = server[q]
  BY <1>0, ServerStep
<1>2. StreamsInv'
  BY DEF ConnectionsInv, StreamsInv, PieceWire
<1>3. \A q \in Servers, k \in Streams : Unopened(q, k)' <=> Unopened(q, k)
  BY DEF Unopened
<1>4. EndsInv'
  <2>. SUFFICES ASSUME NEW q \in Servers, NEW k \in Streams, Unopened(q, k)'
                PROVE  server'[q].ends[k].fd = NoFd /\ ~ server'[q].ends[k].reading
    BY DEF EndsInv
  <2>1. server[q].ends[k].fd = NoFd /\ ~ server[q].ends[k].reading
    BY <1>3 DEF ConnectionsInv, EndsInv
  <2>2. CASE q = p
    BY <1>1, <2>1, <2>2 DEF EndsFollow
  <2>3. CASE q # p
    BY <1>1, <2>1, <2>3
  <2>. QED BY <2>2, <2>3
<1>5. PeersInv'
  <2>. SUFFICES ASSUME NEW r \in Servers, NEW q \in Servers, NEW k \in Streams,
                       server'[r].peers_by_id_[q].connection = k
                PROVE  /\ ~ Unopened(r, k)'
                       /\ \/ stream'[k].from = r /\ stream'[k].to = q
                          \/ stream'[k].from = q /\ stream'[k].to = r
    BY DEF PeersInv
  <2>1. \/ server[r].peers_by_id_[q].connection = k
        \/ r = p /\ ~ Unopened(p, k) /\ stream[k].from = q /\ stream[k].to = p
    <3>1. CASE r = p
      BY <1>1, <3>1 DEF PeersFollow
    <3>2. CASE r # p
      BY <1>1, <3>2
    <3>. QED BY <3>1, <3>2
  <2>2. /\ ~ Unopened(r, k)
        /\ \/ stream[k].from = r /\ stream[k].to = q
           \/ stream[k].from = q /\ stream[k].to = r
    <3>1. CASE server[r].peers_by_id_[q].connection = k
      BY <3>1 DEF ConnectionsInv, PeersInv
    <3>2. CASE r = p /\ ~ Unopened(p, k) /\ stream[k].from = q /\ stream[k].to = p
      BY <3>2
    <3>. QED BY <2>1, <3>1, <3>2
  <2>. QED BY <1>3, <2>2
<1>. QED BY <1>1, <1>2, <1>4, <1>5 DEF ConnectionsInv

(* The same, when what is on the wire stays or one server's part of it gets shorter. *)
LEMMA QuietInv ==
  ASSUME ConnectionsInv, NEW p \in up, NEW B, NEW t \in ServerType(B),
         server' = [server EXCEPT ![p] = t], ServerInv(t, p), Follows(server[p], t),
         UNCHANGED <<up, stream, backlog, sent>>,
         \/ wire' = wire
         \/ \E k \in Streams, w \in Seq(Piece) :
              NoNewHandshake(wire[k][p], w) /\ wire' = [wire EXCEPT ![k][p] = w]
  PROVE  ConnectionsInv'
<1>0. /\ p \in Servers /\ wire \in PieceWire /\ HandshakesInv
      /\ sent \in [Servers -> [Servers -> Seq(Seq(Piece))]]
  BY DEF ConnectionsInv, StreamsInv, PieceWire
<1>1. wire' \in PieceWire /\ HandshakesInv'
  <2>1. CASE wire' = wire
    BY <1>0, <2>1 DEF HandshakesInv
  <2>2. CASE \E k \in Streams, w \in Seq(Piece) :
               NoNewHandshake(wire[k][p], w) /\ wire' = [wire EXCEPT ![k][p] = w]
    BY <1>0, <2>2, WireStep
  <2>. QED BY <2>1, <2>2
<1>2. EndsFollow(server[p], t) /\ PeersFollow(server[p], t, p)
  BY DEF Follows, EndsFollow, PeersFollow
<1>. QED BY <1>0, <1>1, <1>2, CallbackInv

LEMMA ConnectFailsStep ==
  ASSUME ConnectionsInv, NEW p \in Servers, NEW q \in Servers, ConnectFails(p, q)
  PROVE  ConnectionsInv'
<1>1. PICK B : server[p] \in ServerType(B)
  BY Typed
<1>. DEFINE t == schedule_reconnect([server[p] EXCEPT !.peers_by_id_[q].state = "DISCONNECTED",
                                                      !.connecting[q] = NoFd], q)
<1>2. server[p].connecting[q] # NoFd /\ server' = [server EXCEPT ![p] = t]
  BY DEF ConnectFails
<1>3. p \in up /\ ServerInv(server[p], p)
  BY <1>2, Runs
<1>4. t \in ServerType(B) /\ ServerInv(t, p) /\ Follows(server[p], t)
  BY <1>1, <1>2, <1>3, ConnectFailsInv
<1>. HIDE DEF t
<1>5. UNCHANGED <<up, stream, backlog, sent>> /\ wire' = wire
  BY DEF ConnectFails
<1>. QED BY <1>2, <1>3, <1>4, <1>5, QuietInv, ZenonT(40)

LEMMA ReconnectStep ==
  ASSUME ConnectionsInv, NEW p \in Servers, NEW q \in Servers, Reconnect(p, q)
  PROVE  ConnectionsInv'
<1>1. PICK B : server[p] \in ServerType(B)
  BY Typed
<1>. DEFINE t == attempt_connection([server[p] EXCEPT !.timers[q] = @ - 1], q)
<1>2. server[p].timers[q] > 0 /\ server' = [server EXCEPT ![p] = t]
  BY DEF Reconnect
<1>3. p \in up /\ ServerInv(server[p], p)
  BY <1>2, Runs
<1>4. t \in ServerType(B) /\ ServerInv(t, p) /\ Follows(server[p], t)
  BY <1>1, <1>2, <1>3, ReconnectInv
<1>. HIDE DEF t
<1>5. UNCHANGED <<up, stream, backlog, sent>> /\ wire' = wire
  BY DEF Reconnect
<1>. QED BY <1>2, <1>3, <1>4, <1>5, QuietInv

LEMMA ReadEndsStep ==
  ASSUME ConnectionsInv, NEW p \in Servers, NEW k \in Streams, ReadEnds(p, k)
  PROVE  ConnectionsInv'
<1>1. PICK B : server[p] \in ServerType(B)
  BY Typed
<1>. DEFINE s == server[p]
            t == StopReading(remove_connection(EraseBuffer(s, s.ends[k].fd), p, k), k)
<1>2. server[p].ends[k].reading /\ server' = [server EXCEPT ![p] = t]
  BY DEF ReadEnds, StopReading
<1>3. p \in up /\ ServerInv(server[p], p)
  BY <1>2, Runs
<1>4. t \in ServerType(B \cup {Null}) /\ ServerInv(t, p) /\ Follows(server[p], t)
  BY <1>1, <1>3, ReadEndsInv, SMTT(30)
<1>. HIDE DEF t
<1>5. /\ UNCHANGED <<up, stream, backlog, sent>> /\ wire' = [wire EXCEPT ![k][p] = << >>]
      /\ << >> \in Seq(Piece) /\ NoNewHandshake(wire[k][p], << >>)
  BY NothingOf DEF ReadEnds
<1>. QED BY <1>2, <1>3, <1>4, <1>5, QuietInv

LEMMA WriteFailsStep ==
  ASSUME ConnectionsInv, NEW p \in Servers, NEW k \in Streams, WriteFails(p, k)
  PROVE  ConnectionsInv'
<1>1. PICK B : server[p] \in ServerType(B)
  BY Typed
<1>. DEFINE u == remove_connection(server[p], p, k)
            t == SetFailed(u, k, FALSE)
<1>2. server[p].ends[k].failed /\ server' = [server EXCEPT ![p] = t]
  BY DEF WriteFails, SetFailed
<1>3. p \in up /\ ServerInv(server[p], p)
  BY <1>2, Runs
<1>4. u \in ServerType(B) /\ ServerInv(u, p) /\ Follows(server[p], u)
  BY <1>1, <1>3, RemoveInv
<1>. HIDE DEF u
<1>5. t \in ServerType(B) /\ ServerInv(t, p) /\ Follows(u, t)
  BY <1>4, FailedInv
<1>. HIDE DEF t
<1>6. Follows(server[p], t)
  BY <1>4, <1>5 DEF Follows
<1>7. UNCHANGED <<up, stream, backlog, sent>> /\ wire' = wire
  BY DEF WriteFails
<1>. QED BY <1>2, <1>3, <1>5, <1>6, <1>7, QuietInv

LEMMA DestroyStep ==
  ASSUME ConnectionsInv, NEW p \in Servers, NEW k \in Streams, Destroy(p, k)
  PROVE  ConnectionsInv'
<1>1. PICK B : server[p] \in ServerType(B)
  BY Typed
<1>. DEFINE t == SetEnd(server[p], k, NoConnection)
<1>2. /\ server[p].ends[k].fd # NoFd /\ ~ Referenced(server[p], k)
      /\ server' = [server EXCEPT ![p] = t]
  BY DEF Destroy, SetEnd
<1>3. p \in up /\ ServerInv(server[p], p)
  BY <1>2, Runs
<1>4. t \in ServerType(B) /\ ServerInv(t, p) /\ Follows(server[p], t)
  BY <1>1, <1>2, <1>3, DestroyInv
<1>. HIDE DEF t
<1>5. /\ UNCHANGED <<up, stream, backlog, sent>> /\ wire' = [wire EXCEPT ![k][p] = << >>]
      /\ << >> \in Seq(Piece) /\ NoNewHandshake(wire[k][p], << >>)
  BY NothingOf DEF Destroy
<1>. QED BY <1>2, <1>3, <1>4, <1>5, QuietInv

LEMMA ReadMessagesStep ==
  ASSUME ConnectionsInv, NEW p \in Servers, NEW k \in Streams, ReadMessages(p, k)
  PROVE  ConnectionsInv'
<1>1. PICK B : server[p] \in ServerType(B)
  BY Typed
<1>2. server[p].ends[k].reading /\ server[p].ends[k].fd \in Fds
  BY DEF ReadMessages, CanRead
<1>3. p \in up /\ ServerInv(server[p], p)
  BY <1>2, Runs, SMTT(30)
<1>. DEFINE s == Identify(server[p], k, "CLIENT")
<1>4. PICK n, result :
        /\ n \in 1 .. Len(wire[k][p])
        /\ server' = [server EXCEPT ![p] = StoreBuffer(s, k, result)]
        /\ wire' = [wire EXCEPT ![k][p] = IF result.closed THEN << >>
                                          ELSE SubSeq(wire[k][p], n + 1, Len(wire[k][p]))]
  BY DEF ReadMessages
<1>5. /\ s \in ServerType(B) /\ ServerInv(s, p) /\ OnlyEnd(server[p], s, k)
      /\ s.ends[k].fd = server[p].ends[k].fd /\ s.ends[k].reading = server[p].ends[k].reading
      /\ s.ends[k].state_ # "UNIDENTIFIED"
  BY <1>1, <1>3, IdentifyInv
<1>. HIDE DEF s
<1>6. Follows(server[p], s)
  BY <1>5, EndFollows
<1>. DEFINE t == StoreBuffer(s, k, result)
            w == IF result.closed THEN << >> ELSE SubSeq(wire[k][p], n + 1, Len(wire[k][p]))
<1>7. /\ t \in ServerType(B \cup {Null}) \/ t \in ServerType(B \cup {result.buffer})
      /\ ServerInv(t, p) /\ Follows(s, t)
  BY <1>2, <1>5, StoreInv
<1>8. wire[k][p] \in Seq(Piece)
  BY DEF ConnectionsInv, StreamsInv
<1>9. w \in Seq(Piece) /\ NoNewHandshake(wire[k][p], w)
  BY <1>4, <1>8, SuffixOf, NothingOf
<1>. HIDE DEF t, w
<1>10. server' = [server EXCEPT ![p] = t] /\ wire' = [wire EXCEPT ![k][p] = w]
  BY <1>4 DEF t, w
<1>11. Follows(server[p], t)
  BY <1>6, <1>7 DEF Follows
<1>12. UNCHANGED <<up, stream, backlog, sent>>
  BY DEF ReadMessages
<1>. QED BY <1>3, <1>7, <1>9, <1>10, <1>11, <1>12, QuietInv

LEMMA ReadHandshakeStep ==
  ASSUME ConnectionsInv, NEW p \in Servers, NEW k \in Streams, ReadHandshake(p, k)
  PROVE  ConnectionsInv'
<1>1. PICK B : server[p] \in ServerType(B)
  BY Typed
<1>2. server[p].ends[k].reading /\ server[p].ends[k].fd \in Fds
  BY DEF ReadHandshake, CanRead
<1>3. p \in up /\ ServerInv(server[p], p)
  BY <1>2, Runs
<1>. DEFINE s == Identify(server[p], k, "PEER")
            v == wire[k][p]
<1>4. PICK n \in 1 .. Len(v) :
        /\ IsHandshake(server[p], k, SubSeq(v, 1, n))
        /\ \/ /\ server' = [server EXCEPT ![p] = register_identified_peer(s, Head(SubSeq(v, 1, n)).number, k)]
              /\ wire' = [wire EXCEPT ![k][p] = SubSeq(v, n + 1, Len(v))]
           \/ /\ server' = [server EXCEPT ![p] = close_socket(s, k)]
              /\ wire' = [wire EXCEPT ![k][p] = << >>]
  BY DEF ReadHandshake
<1>5. /\ s \in ServerType(B) /\ ServerInv(s, p) /\ OnlyEnd(server[p], s, k)
      /\ s.ends[k].fd = server[p].ends[k].fd /\ s.ends[k].reading = server[p].ends[k].reading
      /\ s.connection_buffers_ = server[p].connection_buffers_
  BY <1>1, <1>3, IdentifyInv
<1>. HIDE DEF s
<1>6. Follows(server[p], s)
  BY <1>5, EndFollows
<1>7. v \in Seq(Piece)
  BY DEF ConnectionsInv, StreamsInv
<1>8. Head(SubSeq(v, 1, n)) = v[1] /\ v[1].part = "handshake" /\ server[p].ends[k].state_ = "UNIDENTIFIED"
  BY <1>4, <1>7 DEF IsHandshake
<1>9. UNCHANGED <<up, stream, backlog, sent>>
  BY DEF ReadHandshake
<1>10. ASSUME server' = [server EXCEPT ![p] = close_socket(s, k)],
              wire' = [wire EXCEPT ![k][p] = << >>]
       PROVE  ConnectionsInv'
  <2>. DEFINE t == close_socket(s, k)
  <2>1. s.ends[k].fd # NoFd /\ s.connection_buffers_[s.ends[k].fd] = Null
    BY <1>2, <1>3, <1>5, <1>8, BufferedReads, ConstantFacts
  <2>2. t \in ServerType(B) /\ ServerInv(t, p) /\ Follows(s, t)
    BY <1>5, <2>1, CloseInv
  <2>. HIDE DEF t
  <2>3. Follows(server[p], t)
    BY <1>6, <2>2 DEF Follows
  <2>4. server' = [server EXCEPT ![p] = t]
    BY <1>10 DEF t
  <2>5. << >> \in Seq(Piece) /\ NoNewHandshake(wire[k][p], << >>)
    BY NothingOf
  <2>. QED BY <1>3, <1>9, <1>10, <2>2, <2>3, <2>4, <2>5, QuietInv
<1>11. ASSUME server' = [server EXCEPT ![p] = register_identified_peer(s, Head(SubSeq(v, 1, n)).number, k)],
              wire' = [wire EXCEPT ![k][p] = SubSeq(v, n + 1, Len(v))]
       PROVE  ConnectionsInv'
  <2>. DEFINE q == v[1].number
              t == register_identified_peer(s, q, k)
              w == SubSeq(v, n + 1, Len(v))
  <2>1. k \in DOMAIN stream /\ stream[k].to = p /\ stream[k].from = q
    BY <1>7, <1>8 DEF ConnectionsInv, HandshakesInv
  <2>2. q \in Nat
    <3>1. v[1] \in Piece
      BY <1>7
    <3>. QED BY <3>1 DEF Piece
  <2>3. stream[k] \in [from : Servers \cup {Client}, to : Servers]
    BY <2>1, StreamType
  <2>4. q # Client
    BY <2>2, ConnectionsAssumption
  <2>5. q \in Servers
    BY <2>1, <2>3, <2>4
  <2>6. q > p
    BY <2>1, <2>4 DEF ConnectionsInv, StreamsInv
  <2>. HIDE DEF q
  <2>7. ~ (q < p) /\ q # p
    <3>1. p \in Nat
      BY ConstantFacts
    <3>. QED BY <2>2, <2>6, <3>1
  <2>8. ~ Unopened(p, k)
    BY <1>2 DEF ConnectionsInv, EndsInv
  <2>9. \A r \in Servers : s.peers_by_id_[r].connection = k => r = q
    <3>. SUFFICES ASSUME NEW r \in Servers, s.peers_by_id_[r].connection = k PROVE r = q
      OBVIOUS
    <3>1. server[p].peers_by_id_[r].connection = k
      BY <1>5 DEF OnlyEnd
    <3>2. stream[k].from = p \/ stream[k].from = r
      BY <3>1 DEF ConnectionsInv, PeersInv
    <3>. QED BY <2>1, <2>7, <3>2
  <2>10. server' = [server EXCEPT ![p] = t]
    BY <1>8, <1>11 DEF q
  <2>11. w \in Seq(Piece) /\ NoNewHandshake(v, w) /\ wire' = [wire EXCEPT ![k][p] = w]
    BY <1>7, <1>11, SuffixOf
  <2>. HIDE DEF w, v
  <2>12. t \in ServerType(B) /\ Registered(s, t, q, k)
    BY <1>2, <1>5, <2>5, RegisteredFields
  <2>. HIDE DEF t
  <2>13. ServerInv(t, p)
    <3>1. s.ends[k].fd \in Fds /\ s.ends[k].reading
      BY <1>2, <1>5
    <3>2. ServerInv(s, p)
      BY <1>5
    <3>. QED BY <2>5, <2>7, <2>9, <2>12, <3>1, <3>2, RegisteredInv
  <2>14. EndsFollow(server[p], t)
    BY <1>6, <2>12 DEF Follows, EndsFollow, Registered
  <2>15. PeersFollow(server[p], t, p)
    BY <1>6, <2>1, <2>8, <2>12 DEF Follows, PeersFollow, Registered
  <2>16. wire' \in PieceWire /\ HandshakesInv'
    BY <1>9, <2>11, WireStep DEF ConnectionsInv, StreamsInv, PieceWire, v
  <2>17. sent' \in [Servers -> [Servers -> Seq(Seq(Piece))]]
    BY <1>9 DEF ConnectionsInv, StreamsInv
  <2>. QED BY <1>3, <1>9, <2>10, <2>12, <2>13, <2>14, <2>15, <2>16, <2>17, CallbackInv
<1>. QED BY <1>4, <1>10, <1>11

LEMMA SendStep ==
  ASSUME ConnectionsInv, NEW p \in Servers, NEW q \in Servers, NEW kind \in Kinds,
         send_to_peer(p, q, kind)
  PROVE  ConnectionsInv'
<1>1. PICK B : server[p] \in ServerType(B)
  BY Typed
<1>. DEFINE k == server[p].peers_by_id_[q].connection
            n == Len(sent[p][q]) + 1
            pieces == serialize(n, kind)
<1>2. k \in Streams /\ k # Null
  <2>1. k # Null
    BY DEF send_to_peer
  <2>. QED BY <1>1, <2>1, SMTT(30) DEF ServerType, PeerType
<1>3. p \in up /\ ServerInv(server[p], p)
  BY <1>2, Runs
<1>4. /\ wire \in PieceWire /\ wire[k][q] \in Seq(Piece) /\ HandshakesInv
      /\ sent \in [Servers -> [Servers -> Seq(Seq(Piece))]]
  BY <1>2 DEF ConnectionsInv, StreamsInv, PieceWire
<1>5. n \in Nat
  BY <1>4
<1>6. /\ pieces \in Seq(Piece)
      /\ \A i \in 1 .. Len(pieces) : pieces[i].part # "handshake"
  <2>1. kind \in MessageKinds
    BY ConnectionsAssumption
  <2>. QED BY <1>5, <2>1, MessagePieces, SMTT(30)
<1>7. UNCHANGED <<up, stream, backlog>> /\ sent' = [sent EXCEPT ![p][q] = Append(@, pieces)]
  BY ZenonT(40) DEF send_to_peer
<1>8. \/ server' = server /\ wire' = [wire EXCEPT ![k][q] = IF RemoteClosed(p, k) THEN @ ELSE @ \o pieces]
      \/ /\ Len(pieces) > 1 /\ server' = server
         /\ wire' = [wire EXCEPT ![k][q] = IF RemoteClosed(p, k) THEN @ ELSE @ \o SubSeq(pieces, 1, 1)]
      \/ server' = [server EXCEPT ![p].ends[k].failed = TRUE] /\ wire' = wire
  BY DEF send_to_peer
<1>. HIDE DEF pieces, n, k
<1>9. sent' \in [Servers -> [Servers -> Seq(Seq(Piece))]]
  BY <1>4, <1>6, <1>7
<1>10. ASSUME NEW some \in Seq(Piece), \A i \in 1 .. Len(some) : some[i].part # "handshake",
              server' = server,
              wire' = [wire EXCEPT ![k][q] = IF RemoteClosed(p, k) THEN @ ELSE @ \o some]
       PROVE  ConnectionsInv'
  <2>. DEFINE w == IF RemoteClosed(p, k) THEN wire[k][q] ELSE wire[k][q] \o some
  <2>1. w \in Seq(Piece) /\ NoNewHandshake(wire[k][q], w)
    <3>1. NoNewHandshake(wire[k][q], wire[k][q])
      BY DEF NoNewHandshake
    <3>2. wire[k][q] \o some \in Seq(Piece) /\ NoNewHandshake(wire[k][q], wire[k][q] \o some)
      BY <1>4, <1>10, WrittenAfter
    <3>. QED BY <1>4, <3>1, <3>2
  <2>2. wire' = [wire EXCEPT ![k][q] = w]
    BY <1>10
  <2>. HIDE DEF w
  <2>3. wire' \in PieceWire /\ HandshakesInv'
    BY <1>2, <1>4, <1>7, <2>1, <2>2, WireStep
  <2>4. server' = [server EXCEPT ![p] = server[p]]
    BY <1>10 DEF ConnectionsInv
  <2>5. EndsFollow(server[p], server[p]) /\ PeersFollow(server[p], server[p], p)
    BY DEF EndsFollow, PeersFollow
  <2>. QED BY <1>1, <1>3, <1>7, <1>9, <2>3, <2>4, <2>5, CallbackInv
<1>11. ASSUME server' = [server EXCEPT ![p].ends[k].failed = TRUE], wire' = wire
       PROVE  ConnectionsInv'
  <2>. DEFINE t == SetFailed(server[p], k, TRUE)
  <2>1. server' = [server EXCEPT ![p] = t]
    BY <1>11 DEF SetFailed
  <2>2. t \in ServerType(B) /\ ServerInv(t, p) /\ Follows(server[p], t)
    BY <1>1, <1>2, <1>3, FailedInv
  <2>. HIDE DEF t
  <2>3. EndsFollow(server[p], t) /\ PeersFollow(server[p], t, p)
    BY <2>2 DEF Follows, EndsFollow, PeersFollow
  <2>4. wire' \in PieceWire /\ HandshakesInv'
    BY <1>4, <1>7, <1>11 DEF HandshakesInv
  <2>. QED BY <1>3, <1>7, <1>9, <2>1, <2>2, <2>3, <2>4, CallbackInv
<1>12. CASE /\ Len(pieces) > 1 /\ server' = server
            /\ wire' = [wire EXCEPT ![k][q] = IF RemoteClosed(p, k) THEN @ ELSE @ \o SubSeq(pieces, 1, 1)]
  <2>. DEFINE some == SubSeq(pieces, 1, 1)
  <2>1. some \in Seq(Piece) /\ \A i \in 1 .. Len(some) : some[i].part # "handshake"
    BY <1>6, <1>12, FirstPiece
  <2>. QED BY <1>10, <1>12, <2>1
<1>. QED BY <1>6, <1>8, <1>10, <1>11, <1>12

-----------------------------------------------------------------------------
(* Streams are made and accepted *)

LEMMA MakeStreamInv ==
  ASSUME ConnectionsInv, NEW from \in Servers \cup {Client}, NEW to \in up,
         from = Client \/ from > to,
         NEW pieces \in Seq(Piece),
         \A i \in 1 .. Len(pieces) : pieces[i].part = "handshake" => pieces[i].number = from,
         MakeStream(from, to, pieces), up' = up, sent' = sent
  PROVE  /\ StreamsInv' /\ HandshakesInv'
         /\ Len(stream) + 1 \in Streams /\ Len(stream) + 1 \notin DOMAIN stream
         /\ stream'[Len(stream) + 1] = [from |-> from, to |-> to]
         /\ \A k \in DOMAIN stream : stream'[k] = stream[k]
         /\ \A p \in Servers, k \in Streams : Unopened(p, k)' <=>
              Unopened(p, k) /\ (k = Len(stream) + 1 => p = to)
<1>. DEFINE n == Len(stream) + 1
            S == [from : Servers \cup {Client}, to : Servers]
            m == [from |-> from, to |-> to]
<1>1. stream \in Seq(S) /\ wire \in PieceWire /\ DOMAIN stream \subseteq Streams /\ up \subseteq Servers
  BY DEF ConnectionsInv, StreamsInv, PieceWire
<1>2. m \in S
  BY <1>1
<1>3. m.from = from /\ m.to = to
  OBVIOUS
<1>4. /\ n \in Streams /\ stream' = Append(stream, m) /\ backlog' = backlog \cup {n}
      /\ wire' = [wire EXCEPT ![n][to] = pieces]
  BY DEF MakeStream
<1>. HIDE DEF S, m
<1>5. /\ stream' \in Seq(S) /\ DOMAIN stream' = DOMAIN stream \cup {n} /\ n \notin DOMAIN stream
      /\ stream'[n] = m /\ \A k \in DOMAIN stream : stream'[k] = stream[k]
  BY <1>1, <1>2, <1>4
<1>. HIDE DEF n
<1>6. wire' \in PieceWire
  BY <1>1, <1>4 DEF PieceWire
<1>7. \A k \in Streams, p \in Servers : wire'[k][p] = IF k = n /\ p = to THEN pieces ELSE wire[k][p]
  BY <1>1, <1>4 DEF PieceWire
<1>8. backlog \subseteq DOMAIN stream
  BY DEF ConnectionsInv, StreamsInv
<1>9. StreamsInv'
  <2>1. \A k \in DOMAIN stream' : stream'[k].from = Client \/ stream'[k].from > stream'[k].to
    BY <1>3, <1>5 DEF ConnectionsInv, StreamsInv
  <2>2. backlog' \subseteq DOMAIN stream' /\ \A k \in backlog' : stream'[k].to \in up'
    BY <1>3, <1>4, <1>5, <1>8 DEF ConnectionsInv, StreamsInv
  <2>3. sent' \in [Servers -> [Servers -> Seq(Seq(Piece))]]
    BY DEF ConnectionsInv, StreamsInv
  <2>. QED BY <1>1, <1>4, <1>5, <1>6, <2>1, <2>2, <2>3 DEF StreamsInv, PieceWire, S
<1>10. HandshakesInv'
  <2>. SUFFICES ASSUME NEW k \in Streams, NEW p \in Servers, NEW i \in 1 .. Len(wire'[k][p]),
                       wire'[k][p][i].part = "handshake"
                PROVE  /\ k \in DOMAIN stream' /\ stream'[k].to = p
                       /\ stream'[k].from = wire'[k][p][i].number
    BY DEF HandshakesInv
  <2>1. CASE k = n /\ p = to
    BY <1>3, <1>5, <1>7, <2>1
  <2>2. CASE ~ (k = n /\ p = to)
    <3>1. k \in DOMAIN stream /\ stream[k].to = p /\ stream[k].from = wire[k][p][i].number
      BY <1>7, <2>2 DEF ConnectionsInv, HandshakesInv
    <3>. QED BY <1>5, <1>7, <2>2, <3>1
  <2>. QED BY <2>1, <2>2
<1>11. \A p \in Servers, k \in Streams : Unopened(p, k)' <=> Unopened(p, k) /\ (k = n => p = to)
  BY <1>3, <1>4, <1>5, <1>8 DEF Unopened
<1>. QED BY <1>4, <1>5, <1>9, <1>10, <1>11 DEF n, m

LEMMA ClientConnectsStep ==
  ASSUME ConnectionsInv, NEW p \in Servers, ClientConnects(p)
  PROVE  ConnectionsInv'
<1>1. /\ p \in up /\ MakeStream(Client, p, << >>)
      /\ up' = up /\ sent' = sent /\ server' = server
  BY DEF ClientConnects
<1>. DEFINE n == Len(stream) + 1
<1>2. /\ StreamsInv' /\ HandshakesInv' /\ n \in Streams /\ n \notin DOMAIN stream
      /\ \A k \in DOMAIN stream : stream'[k] = stream[k]
      /\ \A q \in Servers, k \in Streams : Unopened(q, k)' <=> Unopened(q, k) /\ (k = n => q = p)
  <2>. DEFINE w == << >>
  <2>1. w \in Seq(Piece) /\ \A i \in 1 .. Len(w) : w[i].part = "handshake" => w[i].number = Client
    OBVIOUS
  <2>. HIDE DEF w
  <2>2. MakeStream(Client, p, w)
    BY <1>1 DEF w
  <2>. QED BY <1>1, <2>1, <2>2, MakeStreamInv
<1>. HIDE DEF n
<1>3. EndsInv'
  BY <1>1, <1>2 DEF ConnectionsInv, EndsInv
<1>4. PeersInv'
  <2>. SUFFICES ASSUME NEW r \in Servers, NEW q \in Servers, NEW k \in Streams,
                       server'[r].peers_by_id_[q].connection = k
                PROVE  /\ ~ Unopened(r, k)'
                       /\ \/ stream'[k].from = r /\ stream'[k].to = q
                          \/ stream'[k].from = q /\ stream'[k].to = r
    BY DEF PeersInv
  <2>1. /\ ~ Unopened(r, k)
        /\ \/ stream[k].from = r /\ stream[k].to = q
           \/ stream[k].from = q /\ stream[k].to = r
    BY <1>1 DEF ConnectionsInv, PeersInv
  <2>2. k \in DOMAIN stream
    BY <2>1 DEF Unopened
  <2>. QED BY <1>2, <2>1, <2>2
<1>. QED BY <1>1, <1>2, <1>3, <1>4 DEF ConnectionsInv

LEMMA ConnectSucceedsStep ==
  ASSUME ConnectionsInv, NEW p \in Servers, NEW q \in Servers, ConnectSucceeds(p, q)
  PROVE  ConnectionsInv'
<1>1. PICK B : server[p] \in ServerType(B)
  BY Typed
<1>. DEFINE k == Len(stream) + 1
            sock == server[p].connecting[q]
            u == Reached(server[p], q, k, sock)
            t == AddConnection(u, k, sock)
<1>2. /\ sock # NoFd /\ q \in up /\ MakeStream(p, q, <<Handshake(p)>>)
      /\ server' = [server EXCEPT ![p] = t] /\ up' = up /\ sent' = sent
  BY DEF ConnectSucceeds, Reached
<1>3. p \in up /\ ServerInv(server[p], p)
  BY <1>2, Runs
<1>4. sock \in Fds
  BY <1>1, <1>2 DEF ServerType
<1>5. k \in Streams /\ k \notin DOMAIN stream
  BY <1>2 DEF MakeStream, ConnectionsInv, StreamsInv
<1>6. Unopened(p, k)
  BY <1>5 DEF Unopened
<1>7. server[p].ends[k].fd = NoFd
  BY <1>5, <1>6 DEF ConnectionsInv, EndsInv
<1>8. \A r \in Servers : server[p].peers_by_id_[r].connection # k
  BY <1>5, <1>6, SMTT(30) DEF ConnectionsInv, PeersInv
<1>9. /\ u \in ServerType(B) /\ u.ends = server[p].ends
      /\ u.peers_by_id_[q].connection = k /\ u.socket_to_peer_id_[sock] = q
      /\ \A r \in Servers : r # q => u.peers_by_id_[r] = server[p].peers_by_id_[r]
  BY <1>1, <1>4, <1>5, ReachedFields, SMTT(30)
<1>10. /\ ServerInv(u, p) /\ q < p
       /\ \A j \in Streams : u.ends[j].fd # sock
       /\ \A r \in Servers : u.connecting[r] # sock
  BY <1>1, <1>3, <1>4, <1>5, <1>7, ReachedInv
<1>11. /\ Handshake(p) \in Piece /\ Handshake(p).number = p
  BY ConstantFacts DEF Handshake, Piece, MessageKinds
<1>12. /\ StreamsInv' /\ HandshakesInv' /\ stream'[k] = [from |-> p, to |-> q]
       /\ \A j \in DOMAIN stream : stream'[j] = stream[j]
       /\ \A r \in Servers, j \in Streams : Unopened(r, j)' <=> Unopened(r, j) /\ (j = k => r = q)
  <2>. DEFINE w == <<Handshake(p)>>
  <2>1. w \in Seq(Piece) /\ \A i \in 1 .. Len(w) : w[i].part = "handshake" => w[i].number = p
    BY <1>11
  <2>2. p > q
    BY <1>10, ConstantFacts
  <2>. HIDE DEF w
  <2>3. MakeStream(p, q, w)
    BY <1>2 DEF w
  <2>. QED BY <1>2, <2>1, <2>2, <2>3, MakeStreamInv
<1>. HIDE DEF k, sock, u
<1>13. /\ t \in ServerType(B) /\ t.peers_by_id_ = u.peers_by_id_
       /\ \A j \in Streams : j # k => t.ends[j] = u.ends[j]
  BY <1>4, <1>5, <1>9, AddFields, SMTT(30)
<1>14. ServerInv(t, p)
  <2>1. \A r \in Servers : u.peers_by_id_[r].connection = k => u.socket_to_peer_id_[sock] = r
    BY <1>8, <1>9
  <2>2. u.ends[k].fd = NoFd
    BY <1>7, <1>9
  <2>. QED BY <1>4, <1>5, <1>9, <1>10, <2>1, <2>2, AddInv, SMTT(30)
<1>. HIDE DEF t
<1>15. /\ server' = [r \in Servers |-> server'[r]]
       /\ \A r \in Servers : IsServer(server'[r])
       /\ \A r \in Servers : IF r \in up' THEN ServerInv(server'[r], r) ELSE server'[r] = InitialServer
       /\ server'[p] = t /\ \A r \in Servers \ {p} : server'[r] = server[r]
  BY <1>2, <1>3, <1>13, <1>14, ServerStep
<1>16. EndsInv'
  <2>. SUFFICES ASSUME NEW r \in Servers, NEW j \in Streams, Unopened(r, j)'
                PROVE  server'[r].ends[j].fd = NoFd /\ ~ server'[r].ends[j].reading
    BY DEF EndsInv
  <2>1. Unopened(r, j) /\ (j = k => r = q)
    BY <1>12
  <2>2. server[r].ends[j].fd = NoFd /\ ~ server[r].ends[j].reading
    BY <2>1 DEF ConnectionsInv, EndsInv
  <2>3. CASE r = p
    <3>1. j # k
      BY <1>10, <2>1, <2>3, ConstantFacts
    <3>. QED BY <1>9, <1>13, <1>15, <2>2, <2>3, <3>1
  <2>4. CASE r # p
    BY <1>15, <2>2, <2>4
  <2>. QED BY <2>3, <2>4
<1>17. PeersInv'
  <2>. SUFFICES ASSUME NEW r \in Servers, NEW v \in Servers, NEW j \in Streams,
                       server'[r].peers_by_id_[v].connection = j
                PROVE  /\ ~ Unopened(r, j)'
                       /\ \/ stream'[j].from = r /\ stream'[j].to = v
                          \/ stream'[j].from = v /\ stream'[j].to = r
    BY DEF PeersInv
  <2>1. CASE r = p /\ v = q
    <3>1. j = k
      BY <1>9, <1>13, <1>15, <2>1
    <3>2. stream'[k].from = p /\ stream'[k].to = q
      BY <1>12
    <3>. QED BY <1>10, <1>12, <2>1, <3>1, <3>2, ConstantFacts
  <2>2. CASE ~ (r = p /\ v = q)
    <3>1. server[r].peers_by_id_[v].connection = j
      BY <1>9, <1>13, <1>15, <2>2
    <3>2. /\ ~ Unopened(r, j)
          /\ \/ stream[j].from = r /\ stream[j].to = v
             \/ stream[j].from = v /\ stream[j].to = r
      BY <3>1 DEF ConnectionsInv, PeersInv
    <3>3. j \in DOMAIN stream
      BY <3>2 DEF Unopened
    <3>. QED BY <1>12, <3>2, <3>3
  <2>. QED BY <2>1, <2>2
<1>. QED BY <1>12, <1>15, <1>16, <1>17 DEF ConnectionsInv

LEMMA AcceptStep ==
  ASSUME ConnectionsInv, NEW q \in Servers, NEW k \in Streams, Accept(q, k)
  PROVE  ConnectionsInv'
<1>1. PICK B : server[q] \in ServerType(B)
  BY Typed
<1>. DEFINE fd == NewFd(server[q])
            t == AddConnection(server[q], k, fd)
<1>2. /\ k \in backlog /\ stream[k].to = q /\ FreeFds(server[q]) # {}
      /\ server' = [server EXCEPT ![q] = t] /\ backlog' = backlog \ {k}
      /\ UNCHANGED <<up, stream, wire, sent>>
  BY DEF Accept
<1>3. q \in up /\ ServerInv(server[q], q)
  BY <1>2 DEF ConnectionsInv, StreamsInv
<1>4. Unopened(q, k)
  BY <1>2 DEF Unopened
<1>5. server[q].ends[k].fd = NoFd
  BY <1>4 DEF ConnectionsInv, EndsInv
<1>6. \A r \in Servers : server[q].peers_by_id_[r].connection # k
  BY <1>4 DEF ConnectionsInv, PeersInv
<1>7. /\ fd \in Fds
      /\ \A j \in Streams : server[q].ends[j].fd # fd
      /\ \A r \in Servers : server[q].connecting[r] # fd
  BY <1>1, <1>2, NewFdIsFree
<1>. HIDE DEF fd
<1>8. /\ t \in ServerType(B) /\ t.peers_by_id_ = server[q].peers_by_id_
      /\ \A j \in Streams : j # k => t.ends[j] = server[q].ends[j]
  BY <1>1, <1>7, AddFields
<1>9. ServerInv(t, q)
  BY <1>1, <1>3, <1>5, <1>6, <1>7, AddInv, SMTT(30)
<1>. HIDE DEF t
<1>10. /\ server' = [r \in Servers |-> server'[r]]
       /\ \A r \in Servers : IsServer(server'[r])
       /\ \A r \in Servers : IF r \in up' THEN ServerInv(server'[r], r) ELSE server'[r] = InitialServer
       /\ server'[q] = t /\ \A r \in Servers \ {q} : server'[r] = server[r]
  BY <1>2, <1>3, <1>8, <1>9, ServerStep
<1>11. \A r \in Servers, j \in Streams : Unopened(r, j)' <=> Unopened(r, j) /\ ~ (j = k /\ r = q)
  <2>1. k \in DOMAIN stream
    BY <1>2 DEF ConnectionsInv, StreamsInv
  <2>. QED BY <1>2, <2>1 DEF Unopened
<1>12. StreamsInv'
  BY <1>2 DEF ConnectionsInv, StreamsInv
<1>13. HandshakesInv'
  BY <1>2 DEF ConnectionsInv, HandshakesInv
<1>14. EndsInv'
  <2>. SUFFICES ASSUME NEW r \in Servers, NEW j \in Streams, Unopened(r, j)'
                PROVE  server'[r].ends[j].fd = NoFd /\ ~ server'[r].ends[j].reading
    BY DEF EndsInv
  <2>1. Unopened(r, j) /\ ~ (j = k /\ r = q)
    BY <1>11
  <2>2. server[r].ends[j].fd = NoFd /\ ~ server[r].ends[j].reading
    BY <2>1 DEF ConnectionsInv, EndsInv
  <2>. QED BY <1>8, <1>10, <2>1, <2>2
<1>15. PeersInv'
  <2>. SUFFICES ASSUME NEW r \in Servers, NEW v \in Servers, NEW j \in Streams,
                       server'[r].peers_by_id_[v].connection = j
                PROVE  /\ ~ Unopened(r, j)'
                       /\ \/ stream'[j].from = r /\ stream'[j].to = v
                          \/ stream'[j].from = v /\ stream'[j].to = r
    BY DEF PeersInv
  <2>1. server[r].peers_by_id_[v].connection = j
    BY <1>8, <1>10
  <2>2. /\ ~ Unopened(r, j)
        /\ \/ stream[j].from = r /\ stream[j].to = v
           \/ stream[j].from = v /\ stream[j].to = r
    BY <2>1 DEF ConnectionsInv, PeersInv
  <2>. QED BY <1>2, <1>11, <2>2
<1>. QED BY <1>10, <1>12, <1>13, <1>14, <1>15 DEF ConnectionsInv

-----------------------------------------------------------------------------
(* The environment *)

LEMMA BreakStep ==
  ASSUME ConnectionsInv, NEW k \in Streams, Break(k)
  PROVE  ConnectionsInv'
<1>. DEFINE a == stream[k].from
            b == stream[k].to
<1>1. PICK m \in 0 .. Len(wire[k][a]), n \in 0 .. Len(wire[k][b]) :
        wire' = [wire EXCEPT ![k][a] = SubSeq(@, 1, m), ![k][b] = SubSeq(@, 1, n)]
  BY DEF Break
<1>2. UNCHANGED <<server, up, stream, backlog, sent>> /\ k \in DOMAIN stream /\ a # Client
  BY DEF Break
<1>3. a \in Servers /\ b \in Servers /\ a # b
  <2>1. a \in Servers /\ b \in Servers
    BY <1>2, StreamType
  <2>2. a > b
    BY <1>2 DEF ConnectionsInv, StreamsInv
  <2>. HIDE DEF a, b
  <2>3. a \in Nat /\ b \in Nat
    BY <2>1, ConstantFacts
  <2>. QED BY <2>1, <2>2, <2>3
<1>. HIDE DEF a, b
<1>4. wire \in PieceWire /\ wire[k][a] \in Seq(Piece) /\ wire[k][b] \in Seq(Piece) /\ HandshakesInv
  BY <1>3 DEF ConnectionsInv, StreamsInv, PieceWire
<1>. DEFINE v == SubSeq(wire[k][a], 1, m)
            w == SubSeq(wire[k][b], 1, n)
<1>5. /\ v \in Seq(Piece) /\ NoNewHandshake(wire[k][a], v)
      /\ w \in Seq(Piece) /\ NoNewHandshake(wire[k][b], w)
  BY <1>4, PrefixOf
<1>6. \A j \in Streams, q \in Servers :
        wire'[j][q] = IF j = k /\ q = a THEN v ELSE IF j = k /\ q = b THEN w ELSE wire[j][q]
  BY <1>1, <1>3, <1>4 DEF PieceWire
<1>7. wire' \in PieceWire
  <2>1. wire' = [wire EXCEPT ![k] = [wire[k] EXCEPT ![a] = v, ![b] = w]]
    BY <1>1, <1>3, <1>4 DEF PieceWire
  <2>. HIDE DEF v, w
  <2>. QED BY <1>3, <1>4, <1>5, <2>1 DEF PieceWire
<1>. HIDE DEF v, w
<1>8. HandshakesInv'
  <2>. SUFFICES ASSUME NEW j \in Streams, NEW q \in Servers, NEW i \in 1 .. Len(wire'[j][q]),
                       wire'[j][q][i].part = "handshake"
                PROVE  j \in DOMAIN stream /\ stream[j].to = q /\ stream[j].from = wire'[j][q][i].number
    BY <1>2 DEF HandshakesInv
  <2>1. PICK l \in 1 .. Len(wire[j][q]) : wire'[j][q][i] = wire[j][q][l]
    <3>1. CASE j = k /\ q = a
      BY <1>5, <1>6, <3>1, SMTT(30) DEF NoNewHandshake
    <3>2. CASE j = k /\ q = b
      BY <1>3, <1>5, <1>6, <3>2 DEF NoNewHandshake
    <3>3. CASE j # k \/ (q # a /\ q # b)
      BY <1>6, <3>3
    <3>. QED BY <3>1, <3>2, <3>3
  <2>. QED BY <1>4, <2>1 DEF HandshakesInv
<1>9. StreamsInv'
  BY <1>2, <1>7 DEF ConnectionsInv, StreamsInv, PieceWire
<1>10. EndsInv' /\ PeersInv'
  BY <1>2 DEF ConnectionsInv, EndsInv, PeersInv, Unopened
<1>. QED BY <1>2, <1>8, <1>9, <1>10, SMTT(30) DEF ConnectionsInv

LEMMA StutterInv ==
  ASSUME ConnectionsInv, UNCHANGED <<server, up, stream, wire, backlog, sent>>
  PROVE  ConnectionsInv'
BY DEF ConnectionsInv, StreamsInv, HandshakesInv, EndsInv, PeersInv, Unopened

LEMMA CrashStep ==
  ASSUME ConnectionsInv, NEW p \in Servers, Crash(p)
  PROVE  ConnectionsInv'
<1>1. /\ up' = up \ {p} /\ server' = [server EXCEPT ![p] = InitialServer]
      /\ backlog' = backlog \ {k \in backlog : stream[k].to = p}
      /\ wire' = [k \in Streams |-> [wire[k] EXCEPT ![p] = << >>]]
      /\ stream' = stream /\ sent' = sent
  BY DEF Crash
<1>2. InitialServer \in ServerType({Null})
  BY InitialServerFacts
<1>3. /\ server' = [r \in Servers |-> server'[r]]
      /\ \A r \in Servers : IsServer(server'[r])
      /\ \A r \in Servers : IF r \in up' THEN ServerInv(server'[r], r) ELSE server'[r] = InitialServer
      /\ server'[p] = InitialServer /\ \A r \in Servers \ {p} : server'[r] = server[r]
  <2>1. \A r \in Servers \ {p} : r \in up' <=> r \in up
    BY <1>1
  <2>2. p \notin up'
    BY <1>1
  <2>. QED BY <1>1, <1>2, <2>1, <2>2, ServerStep
<1>4. wire \in PieceWire
  BY DEF ConnectionsInv, StreamsInv, PieceWire
<1>5. wire' \in PieceWire /\ \A k \in Streams, q \in Servers : wire'[k][q] = IF q = p THEN << >> ELSE wire[k][q]
  BY <1>1, <1>4 DEF PieceWire
<1>6. HandshakesInv'
  <2>. SUFFICES ASSUME NEW j \in Streams, NEW q \in Servers, NEW i \in 1 .. Len(wire'[j][q]),
                       wire'[j][q][i].part = "handshake"
                PROVE  j \in DOMAIN stream /\ stream[j].to = q /\ stream[j].from = wire'[j][q][i].number
    BY <1>1 DEF HandshakesInv
  <2>1. q # p
    BY <1>5
  <2>. QED BY <1>5, <2>1 DEF ConnectionsInv, HandshakesInv
<1>7. StreamsInv'
  BY <1>1, <1>5 DEF ConnectionsInv, StreamsInv, PieceWire
<1>8. \A r \in Servers, k \in Streams : Unopened(r, k)' => Unopened(r, k)
  BY <1>1 DEF Unopened
<1>9. EndsInv'
  <2>. SUFFICES ASSUME NEW r \in Servers, NEW k \in Streams, Unopened(r, k)'
                PROVE  server'[r].ends[k].fd = NoFd /\ ~ server'[r].ends[k].reading
    BY DEF EndsInv
  <2>1. CASE r = p
    BY <1>3, <2>1, InitialServerFacts
  <2>2. CASE r # p
    BY <1>3, <1>8, <2>2 DEF ConnectionsInv, EndsInv
  <2>. QED BY <2>1, <2>2
<1>10. PeersInv'
  <2>. SUFFICES ASSUME NEW r \in Servers, NEW q \in Servers, NEW k \in Streams,
                       server'[r].peers_by_id_[q].connection = k
                PROVE  /\ ~ Unopened(r, k)'
                       /\ \/ stream'[k].from = r /\ stream'[k].to = q
                          \/ stream'[k].from = q /\ stream'[k].to = r
    BY DEF PeersInv
  <2>1. r # p
    BY <1>3, InitialServerFacts, ConstantFacts
  <2>2. server[r].peers_by_id_[q].connection = k
    BY <1>3, <2>1
  <2>3. /\ ~ Unopened(r, k)
        /\ \/ stream[k].from = r /\ stream[k].to = q
           \/ stream[k].from = q /\ stream[k].to = r
    BY <2>2 DEF ConnectionsInv, PeersInv
  <2>. QED BY <1>1, <1>8, <2>3
<1>. QED BY <1>3, <1>6, <1>7, <1>9, <1>10 DEF ConnectionsInv

LEMMA RestartStep ==
  ASSUME ConnectionsInv, NEW p \in Servers, Restart(p)
  PROVE  ConnectionsInv'
<1>. DEFINE t == connect_to_peers(InitialServer, p)
<1>1. /\ up' = up \cup {p} /\ server' = [server EXCEPT ![p] = t]
      /\ UNCHANGED <<stream, wire, backlog, sent>>
  BY DEF Restart
<1>2. /\ t \in ServerType({Null}) /\ ServerInv(t, p)
      /\ \A k \in Streams : t.ends[k].fd = NoFd /\ ~ t.ends[k].reading
      /\ \A q \in Servers : t.peers_by_id_[q].connection = Null
  BY StartInv
<1>. HIDE DEF t
<1>3. /\ server' = [r \in Servers |-> server'[r]]
      /\ \A r \in Servers : IsServer(server'[r])
      /\ \A r \in Servers : IF r \in up' THEN ServerInv(server'[r], r) ELSE server'[r] = InitialServer
      /\ server'[p] = t /\ \A r \in Servers \ {p} : server'[r] = server[r]
  <2>1. \A r \in Servers \ {p} : r \in up' <=> r \in up
    BY <1>1
  <2>2. p \in up'
    BY <1>1
  <2>. QED BY <1>1, <1>2, <2>1, <2>2, ServerStep
<1>4. StreamsInv' /\ HandshakesInv'
  <2>1. HandshakesInv'
    BY <1>1 DEF ConnectionsInv, HandshakesInv
  <2>2. up' \subseteq Servers /\ up \subseteq up'
    BY <1>1 DEF ConnectionsInv, StreamsInv
  <2>3. StreamsInv'
    BY <1>1, <2>2 DEF ConnectionsInv, StreamsInv
  <2>. QED BY <2>1, <2>3
<1>5. \A r \in Servers, k \in Streams : Unopened(r, k)' <=> Unopened(r, k)
  BY <1>1 DEF Unopened
<1>6. EndsInv'
  <2>. SUFFICES ASSUME NEW r \in Servers, NEW k \in Streams, Unopened(r, k)'
                PROVE  server'[r].ends[k].fd = NoFd /\ ~ server'[r].ends[k].reading
    BY DEF EndsInv
  <2>1. CASE r = p
    BY <1>2, <1>3, <2>1
  <2>2. CASE r # p
    BY <1>3, <1>5, <2>2 DEF ConnectionsInv, EndsInv
  <2>. QED BY <2>1, <2>2
<1>7. PeersInv'
  <2>. SUFFICES ASSUME NEW r \in Servers, NEW q \in Servers, NEW k \in Streams,
                       server'[r].peers_by_id_[q].connection = k
                PROVE  /\ ~ Unopened(r, k)'
                       /\ \/ stream'[k].from = r /\ stream'[k].to = q
                          \/ stream'[k].from = q /\ stream'[k].to = r
    BY DEF PeersInv
  <2>1. r # p
    BY <1>2, <1>3, ConstantFacts
  <2>2. server[r].peers_by_id_[q].connection = k
    BY <1>3, <2>1
  <2>3. /\ ~ Unopened(r, k)
        /\ \/ stream[k].from = r /\ stream[k].to = q
           \/ stream[k].from = q /\ stream[k].to = r
    BY <2>2 DEF ConnectionsInv, PeersInv
  <2>. QED BY <1>1, <1>5, <2>3
<1>. QED BY <1>3, <1>4, <1>6, <1>7 DEF ConnectionsInv

LEMMA InitialInv == Init => ConnectionsInv
<1>. SUFFICES ASSUME Init PROVE ConnectionsInv
  OBVIOUS
<1>1. /\ server = [p \in Servers |-> server[p]]
      /\ \A p \in Servers : server[p] = connect_to_peers(InitialServer, p)
      /\ up = Servers /\ stream = << >> /\ backlog = {}
  BY DEF Init
<1>2. \A p \in Servers :
        /\ IsServer(server[p]) /\ ServerInv(server[p], p)
        /\ \A k \in Streams : server[p].ends[k].fd = NoFd /\ ~ server[p].ends[k].reading
        /\ \A q \in Servers : server[p].peers_by_id_[q].connection = Null
  BY <1>1, StartInv, ServerOfType
<1>3. \A k \in Streams, p \in Servers : wire[k][p] = << >>
  BY DEF Init
<1>4. wire \in [Streams -> [Servers -> Seq(Piece)]] /\ sent \in [Servers -> [Servers -> Seq(Seq(Piece))]]
  BY DEF Init
<1>5. StreamsInv
  BY <1>1, <1>4 DEF StreamsInv
<1>6. HandshakesInv
  BY <1>3 DEF HandshakesInv
<1>7. EndsInv /\ PeersInv
  BY <1>2, ConstantFacts DEF EndsInv, PeersInv
<1>. QED BY <1>1, <1>2, <1>5, <1>6, <1>7 DEF ConnectionsInv

LEMMA StepInv == ConnectionsInv /\ [Next]_vars => ConnectionsInv'
<1>. SUFFICES ASSUME ConnectionsInv, [Next]_vars PROVE ConnectionsInv'
  OBVIOUS
<1>1. ASSUME NEW p \in Servers, NEW q \in Servers, PeerCallback(p, q) PROVE ConnectionsInv'
  BY <1>1, ConnectSucceedsStep, ConnectFailsStep, ReconnectStep DEF PeerCallback
<1>2. ASSUME NEW p \in Servers, NEW k \in Streams, StreamCallback(p, k) PROVE ConnectionsInv'
  BY <1>2, AcceptStep, ReadHandshakeStep, ReadMessagesStep, ReadEndsStep, WriteFailsStep, DestroyStep
     DEF StreamCallback
<1>3. ASSUME NEW p \in Servers, NEW q \in Servers, NEW kind \in Kinds, send_to_peer(p, q, kind)
      PROVE  ConnectionsInv'
  BY <1>3, SendStep
<1>4. ASSUME NEW p \in Servers, ClientConnects(p) \/ Crash(p) \/ Restart(p) PROVE ConnectionsInv'
  BY <1>4, ClientConnectsStep, CrashStep, RestartStep
<1>5. ASSUME NEW k \in Streams, Break(k) PROVE ConnectionsInv'
  BY <1>5, BreakStep
<1>6. ASSUME NEW k \in Streams, ClientLeaves(k) PROVE ConnectionsInv'
  <2>1. UNCHANGED <<server, up, stream, wire, backlog, sent>>
    BY <1>6 DEF ClientLeaves
  <2>. QED BY <2>1, StutterInv
<1>7. CASE UNCHANGED vars
  <2>1. UNCHANGED <<server, up, stream, wire, backlog, sent>>
    BY <1>7 DEF vars
  <2>. QED BY <2>1, StutterInv
<1>. QED BY <1>1, <1>2, <1>3, <1>4, <1>5, <1>6, <1>7 DEF Next

(* What the servers' TcpServer, ReplicaManager and ProtocolHandler keep by descriptor   *)
(* and by peer agrees, with the streams too, in every state of every cluster: no order  *)
(* of callbacks, faults and reused descriptors breaks it.                              *)
THEOREM ConnectionsStayConsistent == Spec => []ConnectionsInv
BY InitialInv, StepInv, PTL DEF Spec

(* ProtocolHandler never adds bytes to a buffer that another connection has left: its    *)
(* on_disconnect and the protocol errors of handle_raw_data erase the buffer in time.    *)
THEOREM BuffersAreFresh == Spec => []FreshBuffer
<1>1. ConnectionsInv => FreshBuffer
  <2>. SUFFICES ASSUME ConnectionsInv, NEW p \in Servers, NEW fd \in Fds,
                       server[p].connection_buffers_[fd] # Null
                PROVE  \E k \in Streams : server[p].ends[k].fd = fd /\ server[p].ends[k].reading
    BY DEF FreshBuffer
  <2>1. server[p] # InitialServer
    BY InitialServerFacts
  <2>2. ServerInv(server[p], p)
    BY <2>1 DEF ConnectionsInv
  <2>. QED BY <2>2 DEF ServerInv, OwnBuffers
<1>. QED BY <1>1, ConnectionsStayConsistent, PTL

(* ReplicaManager has exactly one way under way to reconnect to a peer with a lower id   *)
(* that it has lost, and none while it is connected, however many reads and writes fail. *)
THEOREM OneAttemptAtATime == Spec => []OneAttempt
<1>1. ConnectionsInv => OneAttempt
  <2>. SUFFICES ASSUME ConnectionsInv, NEW p \in up, NEW q \in Servers, q < p
                PROVE  LET s == server[p]
                       IN  CASE s.peers_by_id_[q].state = "DISCONNECTED" -> s.timers[q] = 1 /\ s.connecting[q] = NoFd
                             [] s.peers_by_id_[q].state = "CONNECTING" -> s.timers[q] = 0 /\ s.connecting[q] # NoFd
                             [] s.peers_by_id_[q].state = "CONNECTED" -> s.timers[q] = 0 /\ s.connecting[q] = NoFd
    BY DEF OneAttempt
  <2>1. p \in Servers
    BY DEF ConnectionsInv, StreamsInv
  <2>2. PICK B : server[p] \in ServerType(B)
    BY <2>1, Typed
  <2>3. server[p].peers_by_id_[q].state \in {"DISCONNECTED", "CONNECTING", "CONNECTED"}
    BY <2>2 DEF ServerType, PeerType
  <2>4. OneWayToConnect(server[p], p)
    BY <2>1, SMTT(30) DEF ConnectionsInv, ServerInv
  <2>. QED BY <2>3, <2>4, ConstantFacts DEF OneWayToConnect
<1>. QED BY <1>1, ConnectionsStayConsistent, PTL

(* A server that sends to a peer over an open connection reads from it, and finds the    *)
(* peer by its descriptor when it ends: on_disconnect of ReplicaManager cannot miss it.   *)
THEOREM EndsAreNoticed == Spec => []EndIsNoticed
<1>1. ConnectionsInv => EndIsNoticed
  <2>. SUFFICES ASSUME ConnectionsInv, NEW p \in Servers, NEW q \in Servers,
                       server[p].peers_by_id_[q].connection # Null,
                       server[p].ends[server[p].peers_by_id_[q].connection].fd \in Fds
                PROVE  LET k == server[p].peers_by_id_[q].connection
                       IN  /\ server[p].socket_to_peer_id_[server[p].ends[k].fd] = q
                           /\ server[p].ends[k].reading
    BY DEF EndIsNoticed
  <2>1. PICK B : server[p] \in ServerType(B)
    BY Typed
  <2>2. server[p].peers_by_id_[q].connection \in Streams
    BY <2>1 DEF ServerType, PeerType
  <2>3. ServerInv(server[p], p)
    BY Runs
  <2>. QED BY <2>2, <2>3, ZenonT(40) DEF ServerInv, PeersAreMapped
<1>. QED BY <1>1, ConnectionsStayConsistent, PTL
=============================================================================
