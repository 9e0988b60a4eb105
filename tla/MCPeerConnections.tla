------------------------- MODULE MCPeerConnections -------------------------
(* Small instances of PeerConnections. *)
EXTENDS ConnectionInvariant, SequencesExt

(* connect_to_peers is attempt_connection for one peer after the other. *)
ASSUME ConnectsInTurn ==
  \A p \in Servers :
    connect_to_peers(InitialServer, p)
      = FoldLeft(attempt_connection, InitialServer, [i \in 1 .. p |-> i - 1])

Channel == INSTANCE PeerChannel

(* The messages ProtocolHandler hands over are messages that were sent, complete,  *)
(* once and in order, across short reads, short writes, a handshake that shares a  *)
(* read with a message, closed and reopened connections and reused descriptors.    *)
ImplementsChannel == Channel!Spec
=============================================================================
