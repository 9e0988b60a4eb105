---------------------------- MODULE ReplicaTypes ----------------------------
(***************************************************************************)
(* The data of one replica and of the messages replicas exchange:          *)
(* replica_state.hpp, replica_types.hpp, common/vsr_message.hpp and the    *)
(* payload structures of serialization, view_change_messages and           *)
(* recovery_messages.  Keys, values and identifiers are opaque; a payload   *)
(* is the value it encodes.                                                *)
(***************************************************************************)
EXTENDS Integers, Sequences, FiniteSetsExt

CONSTANTS
  ClusterSize,      \* cluster_config_.size()
  ClientIds,        \* values of header.client other than the zero one
  ClientProcesses,  \* running client programs, each one connection per replica
  Keys, Values,     \* what the key-value store holds
  NoClient,         \* the zero header.client of a message between replicas
  Closed            \* a connection whose socket is gone, or a null pointer

ASSUME ClusterSizeAssumption == ClusterSize \in Nat \ {0}

Replicas == 0 .. ClusterSize - 1

fault_tolerance_f_ == (ClusterSize - 1) \div 2

(* f + 1, the size every quorum test of the code compares with. *)
Quorum == fault_tolerance_f_ + 1

ASSUME ConnectionAssumption ==
  /\ ClientProcesses \cap Replicas = {}
  /\ Closed \notin ClientProcesses \cup Replicas
  /\ NoClient \notin ClientIds

(* The other end of the TCP connection a message came in on. *)
Connection == Replicas \cup ClientProcesses \cup {Closed}

Operation == [op_type : {"set"}, key : Keys, value : Values]
               \cup [op_type : {"get"}, key : Keys]

NoOperation == [op_type |-> "reserved"]

(* A reply's payload: nothing yet, the answer to a set, or what a get read. *)
Result == {"", "SET", "NOT_FOUND"} \cup Values

LogEntry == [view : Nat, operation : Operation, client_id : ClientIds,
             request_num : Nat, prepare_ok_acks : SUBSET Replicas]

ClientTableEntry == [request_number : Nat, executed : BOOLEAN, result : Result]

Command == {"ping", "request", "prepare", "prepare_ok", "commit",
            "start_view_change", "do_view_change", "start_view",
            "recovery", "recovery_response"}

(* A vsr_message: the header's fields and the union of the payloads. *)
Message ==
  {m \in [command_ : Command, view : Nat, op : Nat, commit : Nat,
          replica : Replicas, client : ClientIds \cup {NoClient},
          request : Nat, operation_ : Operation \cup {NoOperation},
          last_normal_view : Nat, log : Seq(LogEntry), nonce : Nat] :
     m.command_ \in {"request", "prepare"} =>
       m.client \in ClientIds /\ m.operation_ \in Operation}

(* header{}: every field of a fresh message is zero. *)
Blank(command) ==
  [command_ |-> command, view |-> 0, op |-> 0, commit |-> 0, replica |-> 0,
   client |-> NoClient, request |-> 0, operation_ |-> NoOperation,
   last_normal_view |-> 0, log |-> << >>, nonce |-> 0]

(* Replicas never send requests or pings, and only clients do. *)
FromClient(m) == m.command_ \in {"request", "ping"}

PeerMessage == {m \in Message : ~ FromClient(m)}

InboundMessage ==
  {i \in [connection : Connection, message : Message] :
     IF FromClient(i.message)
     THEN i.connection \in ClientProcesses /\ i.message.client \in ClientIds
     ELSE i.connection \in Replicas \cup {Closed}}

Status == {"NORMAL", "VIEW_CHANGE", "RECOVERY"}

ReplicaState ==
  [status_ : Status, view_ : Nat, op_ : Nat, commit_ : Nat,
   last_executed_op_ : Nat, log_ : Seq(LogEntry),
   client_table_ : [ClientIds -> ClientTableEntry],
   state_machine_ : [Keys -> Values \cup {"NOT_FOUND"}],
   recovery_nonce_ : Nat, recovery_responses_ : Seq(Message),
   last_normal_view_ : Nat, start_view_change_received_ : SUBSET Replicas,
   do_view_change_received_ : Seq(Message),
   client_connections_ : [ClientIds -> ClientProcesses \cup {Closed}]]

EmptyClientTable ==
  [c \in ClientIds |-> [request_number |-> 0, executed |-> FALSE, result |-> ""]]

(* A process starts NORMAL in view 0 with an empty log, a reboot included. *)
FreshState ==
  [status_ |-> "NORMAL", view_ |-> 0, op_ |-> 0, commit_ |-> 0,
   last_executed_op_ |-> 0, log_ |-> << >>, client_table_ |-> EmptyClientTable,
   state_machine_ |-> [k \in Keys |-> "NOT_FOUND"],
   recovery_nonce_ |-> 0, recovery_responses_ |-> << >>,
   last_normal_view_ |-> 0, start_view_change_received_ |-> {},
   do_view_change_received_ |-> << >>,
   client_connections_ |-> [c \in ClientIds |-> Closed]]

(* What a client program is sent: replies and pongs, by the connection used. *)
Reply == [to : ClientProcesses, client : ClientIds, request : Nat,
          result : Result \cup {"PONG"}]

(* The log as write_log_to_buffer ships it: prepare_ok_acks stay behind. *)
Serialized(log) == [n \in DOMAIN log |-> [log[n] EXCEPT !.prepare_ok_acks = {}]]

get_primary_id(s) == s.view_ % (2 * fault_tolerance_f_ + 1)

is_primary(r, s) == r = get_primary_id(s)

get_primary_id_for_view(view) == view % ClusterSize
=============================================================================
