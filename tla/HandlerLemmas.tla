--------------------------- MODULE HandlerLemmas ----------------------------
(***************************************************************************)
(* What the functions of ReplicaHandlers return, for clusters of any size: *)
(* lemmas on the log and on execution, and one lemma per handler that says  *)
(* its effect is good.                                                     *)
(***************************************************************************)
EXTENDS GoodStates, NumberLemmas

(* What an operation holds. *)
LEMMA OperationFields ==
  ASSUME NEW o \in Operation
  PROVE  o.key \in Keys /\ (o.op_type = "set" => o.value \in Values)
BY DEF Operation

(* Shipping a log keeps its entries and its length. *)
LEMMA SerializedLog ==
  ASSUME NEW log \in Seq(LogEntry)
  PROVE  Serialized(log) \in Seq(LogEntry) /\ Len(Serialized(log)) = Len(log)
<1>1. ASSUME NEW n \in 1 .. Len(log)
      PROVE  [log[n] EXCEPT !.prepare_ok_acks = {}] \in LogEntry
  <2>1. log[n] \in LogEntry
    OBVIOUS
  <2>. QED BY <2>1 DEF LogEntry
<1>2. Serialized(log) = [n \in 1 .. Len(log) |-> [log[n] EXCEPT !.prepare_ok_acks = {}]]
  BY DEF Serialized
<1>3. Serialized(log) \in [1 .. Len(log) -> LogEntry]
  BY <1>1, <1>2
<1>. QED BY <1>3, SeqOf

(* Inserting at op number Len(log) + 1 makes the log one longer. *)
LEMMA PutEntryLog ==
  ASSUME NEW log \in Seq(LogEntry), NEW e \in LogEntry
  PROVE  /\ PutEntry(log, Len(log) + 1, e) \in Seq(LogEntry)
         /\ Len(PutEntry(log, Len(log) + 1, e)) = Len(log) + 1
<1>. DEFINE n == Len(log) + 1
<1>1. DOMAIN log \cup {n} = 1 .. n
  OBVIOUS
<1>2. \A i \in 1 .. n : (IF i = n THEN e ELSE log[i]) \in LogEntry
  OBVIOUS
<1>3. PutEntry(log, n, e) \in [1 .. n -> LogEntry]
  BY <1>1, <1>2 DEF PutEntry
<1>. QED BY <1>3, SeqOf

-----------------------------------------------------------------------------
(* Execution *)

(* What a handler leaves and sends is good; what it executes for the first    *)
(* time is in its log; its view does not go back, and only a recovery takes   *)
(* its count of executed operations back.                                     *)
GoodEffect(s, e) ==
  /\ e.state \in GoodState
  /\ e.out \in [Replicas -> Seq(GoodPeerMessage)]
  /\ e.replies \subseteq Reply
  /\ s.last_executed_op_ + 1 .. e.state.last_executed_op_ \subseteq DOMAIN e.state.log_
  /\ e.state.view_ >= s.view_
  /\ e.state.last_executed_op_ < s.last_executed_op_ => s.status_ = "RECOVERY"

(* The op numbers the loop of execute_commited_ops visits are in the log. *)
LEMMA VisitedInLog ==
  ASSUME NEW s \in ReplicaState
  PROVE  /\ Visited(s) \subseteq Nat
         /\ Visited(s) \subseteq DOMAIN s.log_
         /\ \A n \in Visited(s) : n <= s.commit_
         /\ Executed(s) \subseteq Visited(s)
<1>1. s.last_executed_op_ \in Nat /\ s.commit_ \in Nat
  BY DEF ReplicaState
<1>2. ASSUME NEW n \in Visited(s)
      PROVE  n \in Nat /\ n \in DOMAIN s.log_ /\ n <= s.commit_
  <2>1. /\ n \in s.last_executed_op_ + 1 .. s.commit_
        /\ s.last_executed_op_ + 1 .. n \subseteq DOMAIN s.log_
    BY DEF Visited
  <2>2. n \in s.last_executed_op_ + 1 .. n
    BY <1>1, <2>1
  <2>. QED BY <1>1, <2>1, <2>2
<1>. QED BY <1>2 DEF Executed

(* A visited entry is a log entry. *)
LEMMA VisitedEntry ==
  ASSUME NEW s \in ReplicaState, NEW n \in Visited(s)
  PROVE  s.log_[n] \in LogEntry
<1>1. s.log_ \in Seq(LogEntry)
  BY DEF ReplicaState
<1>2. n \in DOMAIN s.log_
  BY VisitedInLog
<1>. QED BY <1>1, <1>2

(* What a key holds in the course of the loop is a value or nothing. *)
LEMMA ValueBeforeType ==
  ASSUME NEW s \in ReplicaState, NEW key \in Keys, NEW n
  PROVE  ValueBefore(s, key, n) \in Values \cup {"NOT_FOUND"}
<1>. DEFINE sets == {i \in Executed(s) : /\ i < n
                                         /\ s.log_[i].operation.op_type = "set"
                                         /\ s.log_[i].operation.key = key}
<1>1. CASE sets = {}
  BY <1>1 DEF ValueBefore, ReplicaState
<1>2. CASE sets # {}
  <2>1. sets \subseteq Visited(s)
    BY VisitedInLog
  <2>2. sets \subseteq Nat /\ s.commit_ \in Nat /\ \A i \in sets : i <= s.commit_
    BY <2>1, VisitedInLog DEF ReplicaState
  <2>3. Max(sets) \in sets
    <3>. HIDE DEF sets
    <3>. QED BY <1>2, <2>2, MaxIn
  <2>4. /\ s.log_[Max(sets)] \in LogEntry
        /\ s.log_[Max(sets)].operation.op_type = "set"
    BY <2>1, <2>3, VisitedEntry
  <2>5. s.log_[Max(sets)].operation \in Operation
    BY <2>4 DEF LogEntry
  <2>6. s.log_[Max(sets)].operation.value \in Values
    BY <2>4, <2>5, OperationFields
  <2>. QED BY <1>2, <2>6 DEF ValueBefore
<1>. QED BY <1>1, <1>2

(* The result of a visited operation. *)
LEMMA ResultOfType ==
  ASSUME NEW s \in ReplicaState, NEW n \in Visited(s)
  PROVE  ResultOf(s, n) \in Result
<1>1. s.log_[n].operation.key \in Keys
  <2>1. s.log_[n].operation \in Operation
    BY VisitedEntry DEF LogEntry
  <2>. QED BY <2>1, OperationFields
<1>2. ValueBefore(s, s.log_[n].operation.key, n) \in Values \cup {"NOT_FOUND"}
  BY <1>1, ValueBeforeType
<1>. QED BY <1>2 DEF ResultOf, Result

(* The client table stays a client table. *)
LEMMA ExecutedTableType ==
  ASSUME NEW s \in ReplicaState
  PROVE  ExecutedTable(s) \in [ClientIds -> ClientTableEntry]
<1>. SUFFICES ASSUME NEW c \in ClientIds
              PROVE  LET mine == {n \in Executed(s) : s.log_[n].client_id = c}
                     IN  (IF mine = {} THEN s.client_table_[c]
                          ELSE ExecutedEntry(s, Max(mine))) \in ClientTableEntry
  BY DEF ExecutedTable
<1>. DEFINE mine == {n \in Executed(s) : s.log_[n].client_id = c}
<1>1. s.client_table_[c] \in ClientTableEntry
  BY DEF ReplicaState
<1>2. CASE mine # {}
  <2>1. /\ mine \subseteq Visited(s) /\ mine \subseteq Nat
        /\ s.commit_ \in Nat /\ \A i \in mine : i <= s.commit_
    BY VisitedInLog DEF ReplicaState
  <2>2. Max(mine) \in mine
    <3>. HIDE DEF mine
    <3>. QED BY <1>2, <2>1, MaxIn
  <2>3. Max(mine) \in Visited(s)
    BY <2>1, <2>2
  <2>4. s.log_[Max(mine)].request_num \in Nat
    BY <2>3, VisitedEntry DEF LogEntry
  <2>5. ResultOf(s, Max(mine)) \in Result
    BY <2>3, ResultOfType
  <2>6. ExecutedEntry(s, Max(mine)) \in ClientTableEntry
    BY <2>4, <2>5 DEF ExecutedEntry, ClientTableEntry
  <2>. QED BY <1>2, <2>6
<1>. QED BY <1>1, <1>2

(* The replies of an execution go to connected clients. *)
LEMMA ExecutionRepliesType ==
  ASSUME NEW r \in Replicas, NEW s \in ReplicaState
  PROVE  ExecutionReplies(r, s) \subseteq Reply
<1>. SUFFICES ASSUME NEW n \in Executed(s),
                     s.client_connections_[s.log_[n].client_id] # Closed
              PROVE  [to |-> s.client_connections_[s.log_[n].client_id],
                      client |-> s.log_[n].client_id,
                      request |-> s.log_[n].request_num,
                      result |-> ResultOf(s, n)] \in Reply
  BY DEF ExecutionReplies
<1>1. n \in Visited(s)
  BY VisitedInLog
<1>2. s.log_[n].client_id \in ClientIds /\ s.log_[n].request_num \in Nat
  BY <1>1, VisitedEntry DEF LogEntry
<1>3. s.client_connections_[s.log_[n].client_id] \in ClientProcesses
  BY <1>2 DEF ReplicaState
<1>4. ResultOf(s, n) \in Result
  BY <1>1, ResultOfType
<1>. QED BY <1>2, <1>3, <1>4 DEF Reply

(* execute_commited_ops keeps a replica's state good and executes only what   *)
(* is in its log.                                                             *)
LEMMA ExecuteGood ==
  ASSUME NEW r \in Replicas, NEW s \in GoodState,
         NEW out \in [Replicas -> Seq(GoodPeerMessage)]
  PROVE  GoodEffect(s, Execute(r, s, out))
<1>. DEFINE e == execute_commited_ops(s)
            last == Max({s.last_executed_op_} \cup Visited(s))
            store == [k \in Keys |-> ValueBefore(s, k, s.commit_ + 1)]
<1>1. s \in ReplicaState
  BY DEF GoodState
<1>2. s.last_executed_op_ \in Nat /\ s.commit_ \in Nat /\ s.view_ \in Nat
  BY <1>1 DEF ReplicaState
<1>3. /\ last \in Nat
      /\ last >= s.last_executed_op_
      /\ last \in {s.last_executed_op_} \cup Visited(s)
  BY <1>1, <1>2, VisitedInLog, MaxWith
<1>4. s.last_executed_op_ + 1 .. last \subseteq DOMAIN s.log_
  <2>1. CASE last = s.last_executed_op_
    BY <1>2, <2>1
  <2>2. CASE last \in Visited(s)
    BY <2>2 DEF Visited
  <2>. QED BY <1>3, <2>1, <2>2
<1>5. ExecutedTable(s) \in [ClientIds -> ClientTableEntry]
  BY <1>1, ExecutedTableType
<1>6. store \in [Keys -> Values \cup {"NOT_FOUND"}]
  BY <1>1, ValueBeforeType
<1>7. e = [s EXCEPT !.last_executed_op_ = last, !.client_table_ = ExecutedTable(s),
                    !.state_machine_ = store]
  BY DEF execute_commited_ops
<1>. HIDE DEF last, store, e
<1>8. e \in ReplicaState
  BY <1>1, <1>3, <1>5, <1>6, <1>7 DEF ReplicaState
<1>9. /\ e.op_ = s.op_ /\ e.log_ = s.log_ /\ e.view_ = s.view_
      /\ e.status_ = s.status_ /\ e.last_executed_op_ = last
      /\ e.do_view_change_received_ = s.do_view_change_received_
      /\ e.recovery_responses_ = s.recovery_responses_
  BY <1>1, <1>7 DEF ReplicaState
<1>10. e \in GoodState
  BY <1>8, <1>9 DEF GoodState
<1>11. ExecutionReplies(r, s) \subseteq Reply
  BY <1>1, ExecutionRepliesType
<1>12. /\ Execute(r, s, out).state = e
       /\ Execute(r, s, out).out = out
       /\ Execute(r, s, out).replies = ExecutionReplies(r, s)
  BY DEF Execute, Effect, e
<1>. QED BY <1>2, <1>3, <1>4, <1>9, <1>10, <1>11, <1>12 DEF GoodEffect

(* An effect that starts from a state that has not moved back is good. *)
LEMMA GoodEffectFrom ==
  ASSUME NEW s \in GoodState, NEW t \in GoodState, NEW e, GoodEffect(t, e),
         t.view_ >= s.view_, t.last_executed_op_ = s.last_executed_op_,
         t.status_ = s.status_ \/ t.status_ # "RECOVERY"
  PROVE  GoodEffect(s, e)
<1>1. s.view_ \in Nat /\ t.view_ \in Nat /\ e.state.view_ \in Nat
  BY DEF GoodState, ReplicaState, GoodEffect
<1>. QED BY <1>1 DEF GoodEffect

(* A state that changes nothing but its messages is a good effect. *)
LEMMA EffectGood ==
  ASSUME NEW s \in GoodState, NEW t \in GoodState,
         NEW out \in [Replicas -> Seq(GoodPeerMessage)], NEW replies \in SUBSET Reply,
         t.view_ >= s.view_, t.last_executed_op_ = s.last_executed_op_
  PROVE  GoodEffect(s, Effect(t, out, replies))
<1>1. s.last_executed_op_ \in Nat
  BY DEF GoodState, ReplicaState
<1>2. s.last_executed_op_ + 1 .. s.last_executed_op_ = {}
  BY <1>1
<1>. QED BY <1>1, <1>2 DEF GoodEffect, Effect

(* The ways to send messages. *)
LEMMA SendsType ==
  ASSUME NEW m \in GoodPeerMessage, NEW peer, NEW messages \in Seq(GoodPeerMessage)
  PROVE  /\ NoSends \in [Replicas -> Seq(GoodPeerMessage)]
         /\ broadcast_to_peers(m) \in [Replicas -> Seq(GoodPeerMessage)]
         /\ SendAll(peer, messages) \in [Replicas -> Seq(GoodPeerMessage)]
         /\ send_to_peer(peer, m) \in [Replicas -> Seq(GoodPeerMessage)]
<1>1. << >> \in Seq(GoodPeerMessage) /\ <<m>> \in Seq(GoodPeerMessage)
  OBVIOUS
<1>. QED BY <1>1 DEF NoSends, broadcast_to_peers, SendAll, send_to_peer

(* A handler that sends nothing. *)
LEMMA NoSendsType == NoSends \in [Replicas -> Seq(GoodPeerMessage)]
<1>1. << >> \in Seq(GoodPeerMessage)
  OBVIOUS
<1>. QED BY <1>1 DEF NoSends

(* Raising the commit number and executing is good. *)
LEMMA CatchUpGood ==
  ASSUME NEW r \in Replicas, NEW s \in GoodState, NEW commit \in Nat,
         NEW out \in [Replicas -> Seq(GoodPeerMessage)]
  PROVE  GoodEffect(s, CatchUp(r, s, commit, out))
<1>. DEFINE t == [s EXCEPT !.commit_ = commit]
<1>1. t \in ReplicaState
  BY DEF GoodState, ReplicaState
<1>2. /\ t.op_ = s.op_ /\ t.log_ = s.log_ /\ t.view_ = s.view_
      /\ t.status_ = s.status_ /\ t.last_executed_op_ = s.last_executed_op_
      /\ t.do_view_change_received_ = s.do_view_change_received_
      /\ t.recovery_responses_ = s.recovery_responses_
  BY DEF GoodState, ReplicaState
<1>. HIDE DEF t
<1>3. t \in GoodState
  BY <1>1, <1>2 DEF GoodState
<1>4. GoodEffect(s, Execute(r, t, out))
  <2>1. GoodEffect(t, Execute(r, t, out))
    BY <1>3, ExecuteGood
  <2>2. s.view_ \in Nat
    BY DEF GoodState, ReplicaState
  <2>. QED BY <1>2, <1>3, <2>1, <2>2, GoodEffectFrom
<1>5. GoodEffect(s, Effect(s, out, {}))
  <2>1. s.view_ \in Nat
    BY DEF GoodState, ReplicaState
  <2>. QED BY <2>1, EffectGood
<1>. QED BY <1>4, <1>5 DEF CatchUp, t

-----------------------------------------------------------------------------
(* Messages *)

(* The fields of a good state that messages copy. *)
LEMMA StateFields ==
  ASSUME NEW s \in GoodState
  PROVE  /\ s \in ReplicaState
         /\ s.view_ \in Nat /\ s.op_ \in Nat /\ s.commit_ \in Nat
         /\ s.last_normal_view_ \in Nat /\ s.last_executed_op_ \in Nat
         /\ s.recovery_nonce_ \in Nat
         /\ s.log_ \in Seq(LogEntry) /\ s.op_ = Len(s.log_)
         /\ s.client_table_ \in [ClientIds -> ClientTableEntry]
         /\ s.client_connections_ \in [ClientIds -> ClientProcesses \cup {Closed}]
         /\ s.do_view_change_received_ \in
              Seq({m \in Matching : m.command_ = "do_view_change"})
         /\ s.recovery_responses_ \in
              Seq({m \in Matching : m.command_ = "recovery_response" /\ m.view >= s.view_})
         /\ s.start_view_change_received_ \in SUBSET Replicas
BY DEF GoodState, ReplicaState

(* The fields of a message that handlers read. *)
LEMMA MessageFields ==
  ASSUME NEW m \in Message
  PROVE  /\ m.command_ \in Command /\ m.view \in Nat /\ m.op \in Nat
         /\ m.commit \in Nat /\ m.replica \in Replicas /\ m.request \in Nat
         /\ m.last_normal_view \in Nat /\ m.log \in Seq(LogEntry) /\ m.nonce \in Nat
         /\ m.command_ \in {"request", "prepare"} =>
              m.client \in ClientIds /\ m.operation_ \in Operation
BY DEF Message

(* Messages without a log. *)
LEMMA ReplicaZero == 0 \in Replicas
BY ClusterSizeAssumption DEF Replicas

(* What handle_prepare answers. *)
LEMMA PrepareOkMessageGood ==
  ASSUME NEW r \in Replicas, NEW s \in GoodState, NEW op \in Nat
  PROVE  PrepareOkMessage(r, s, op) \in GoodPeerMessage
<1>1. << >> \in Seq(LogEntry)
  OBVIOUS
<1>. QED BY <1>1, StateFields DEF PrepareOkMessage, Blank, GoodPeerMessage, PeerMessage,
            FromClient, Matching, CarriesLog, Message, Command

(* What the heartbeat and send_commit_message_if_needed broadcast. *)
LEMMA CommitMessageGood ==
  ASSUME NEW s \in GoodState
  PROVE  CommitMessage(s) \in GoodPeerMessage
<1>1. << >> \in Seq(LogEntry)
  OBVIOUS
<1>. QED BY <1>1, StateFields, ReplicaZero DEF CommitMessage, Blank, GoodPeerMessage,
            PeerMessage, FromClient, Matching, CarriesLog, Message, Command

(* What handle_request broadcasts. *)
LEMMA PrepareMessageGood ==
  ASSUME NEW r \in Replicas, NEW s \in GoodState, NEW m \in Message,
         m.command_ = "request"
  PROVE  PrepareMessage(r, s, m) \in GoodPeerMessage
<1>1. << >> \in Seq(LogEntry)
  OBVIOUS
<1>2. m.client \in ClientIds /\ m.operation_ \in Operation /\ m.request \in Nat
  BY MessageFields
<1>. QED BY <1>1, <1>2, StateFields DEF PrepareMessage, Blank, GoodPeerMessage,
            PeerMessage, FromClient, Matching, CarriesLog, Message, Command

(* Messages that carry the sender's log carry its length in the header. *)
LEMMA DoViewChangeMessageGood ==
  ASSUME NEW r \in Replicas, NEW s \in GoodState
  PROVE  /\ DoViewChangeMessage(r, s) \in GoodPeerMessage
         /\ DoViewChangeMessage(r, s).command_ = "do_view_change"
<1>1. Serialized(s.log_) \in Seq(LogEntry) /\ Len(Serialized(s.log_)) = s.op_
  BY StateFields, SerializedLog
<1>. QED BY <1>1, StateFields DEF DoViewChangeMessage, Blank, GoodPeerMessage,
            PeerMessage, FromClient, Matching, CarriesLog, Message, Command

(* What the new primary broadcasts: its op_ and its whole log. *)
LEMMA StartViewMessageGood ==
  ASSUME NEW r \in Replicas, NEW s \in GoodState
  PROVE  StartViewMessage(r, s) \in GoodPeerMessage
<1>1. Serialized(s.log_) \in Seq(LogEntry) /\ Len(Serialized(s.log_)) = s.op_
  BY StateFields, SerializedLog
<1>. QED BY <1>1, StateFields DEF StartViewMessage, Blank, GoodPeerMessage,
            PeerMessage, FromClient, Matching, CarriesLog, Message, Command

-----------------------------------------------------------------------------
(* Normal operation *)

(* Fields of a good inbound message. *)
LEMMA InboundFields ==
  ASSUME NEW inbound \in GoodInbound
  PROVE  /\ inbound.message \in Message /\ inbound.message \in Matching
         /\ FromClient(inbound.message) =>
              inbound.connection \in ClientProcesses /\ inbound.message.client \in ClientIds
BY DEF GoodInbound, InboundMessage

(* handle_ping changes nothing and answers with a pong. *)
LEMMA handle_ping_Good ==
  ASSUME NEW r \in Replicas, NEW s \in GoodState, NEW inbound \in GoodInbound,
         inbound.message.command_ = "ping"
  PROVE  GoodEffect(s, handle_ping(r, s, inbound))
<1>. DEFINE pong == [to |-> inbound.connection, client |-> inbound.message.client,
                     request |-> inbound.message.request, result |-> "PONG"]
<1>1. pong \in Reply
  BY InboundFields, MessageFields DEF FromClient, Reply
<1>2. s.view_ \in Nat
  BY StateFields
<1>3. GoodEffect(s, Effect(s, NoSends, {pong}))
  <2>. HIDE DEF pong
  <2>. QED BY <1>1, <1>2, NoSendsType, EffectGood
<1>. QED BY <1>3 DEF handle_ping

(* A new entry at the end of the log, with op_ raised to its number. *)
LEMMA AppendOpGood ==
  ASSUME NEW s \in GoodState, NEW m \in Message, m.command_ \in {"request", "prepare"},
         NEW acks \in SUBSET Replicas
  PROVE  /\ AppendOp(s, m, acks) \in GoodState
         /\ AppendOp(s, m, acks).view_ = s.view_
         /\ AppendOp(s, m, acks).status_ = s.status_
         /\ AppendOp(s, m, acks).last_executed_op_ = s.last_executed_op_
<1>. DEFINE t == AppendOp(s, m, acks)
            log == PutEntry(s.log_, s.op_ + 1, NewEntry(s, m, acks))
            table == [s.client_table_ EXCEPT ![m.client] = PendingEntry(m)]
<1>1. NewEntry(s, m, acks) \in LogEntry
  BY StateFields, MessageFields DEF NewEntry, LogEntry
<1>2. log \in Seq(LogEntry) /\ Len(log) = s.op_ + 1
  <2>1. s.log_ \in Seq(LogEntry) /\ s.op_ = Len(s.log_)
    BY StateFields
  <2>. QED BY <1>1, <2>1, PutEntryLog
<1>3. PendingEntry(m) \in ClientTableEntry
  BY MessageFields DEF PendingEntry, ClientTableEntry, Result
<1>4. table \in [ClientIds -> ClientTableEntry]
  BY <1>3, StateFields
<1>5. t = [s EXCEPT !.op_ = s.op_ + 1, !.log_ = log, !.client_table_ = table]
  BY StateFields DEF AppendOp, ReplicaState
<1>. HIDE DEF t, log, table
<1>6. t \in ReplicaState
  <2>1. s \in ReplicaState /\ s.op_ \in Nat
    BY StateFields
  <2>2. s.op_ + 1 \in Nat
    BY <2>1
  <2>. QED BY <1>2, <1>4, <1>5, <2>1, <2>2 DEF ReplicaState
<1>7. /\ t.op_ = s.op_ + 1 /\ t.log_ = log /\ t.view_ = s.view_
      /\ t.status_ = s.status_ /\ t.last_executed_op_ = s.last_executed_op_
      /\ t.do_view_change_received_ = s.do_view_change_received_
      /\ t.recovery_responses_ = s.recovery_responses_
  BY <1>5, StateFields DEF ReplicaState
<1>8. t \in GoodState
  BY <1>2, <1>6, <1>7 DEF GoodState
<1>. QED BY <1>7, <1>8 DEF t

(* handle_request appends at op_ + 1, or answers from the client table. *)
LEMMA handle_request_Good ==
  ASSUME NEW r \in Replicas, NEW s \in GoodState, NEW inbound \in GoodInbound,
         inbound.message.command_ = "request"
  PROVE  GoodEffect(s, handle_request(r, s, inbound))
<1>. DEFINE m == inbound.message
            entry == s.client_table_[m.client]
            a == AppendOp(s, m, {r})
            t == [a EXCEPT !.client_connections_[m.client] = inbound.connection]
            cached == [to |-> inbound.connection, client |-> m.client,
                       request |-> m.request, result |-> entry.result]
<1>1. /\ m \in Message /\ m.client \in ClientIds /\ m.request \in Nat
      /\ inbound.connection \in ClientProcesses
  BY InboundFields, MessageFields DEF FromClient
<1>2. a \in GoodState /\ a.view_ = s.view_ /\ a.last_executed_op_ = s.last_executed_op_
  BY <1>1, AppendOpGood
<1>3. entry \in ClientTableEntry
  BY <1>1, StateFields
<1>4. cached \in Reply
  BY <1>1, <1>3 DEF Reply, ClientTableEntry
<1>. HIDE DEF m, entry, a
<1>5. t \in ReplicaState
  BY <1>1, <1>2, StateFields DEF ReplicaState
<1>6. /\ t.op_ = a.op_ /\ t.log_ = a.log_ /\ t.view_ = a.view_
      /\ t.status_ = a.status_ /\ t.last_executed_op_ = a.last_executed_op_
      /\ t.do_view_change_received_ = a.do_view_change_received_
      /\ t.recovery_responses_ = a.recovery_responses_
  BY <1>2, StateFields DEF ReplicaState
<1>. HIDE DEF t
<1>7. t \in GoodState
  BY <1>2, <1>5, <1>6 DEF GoodState
<1>8. PrepareMessage(r, t, m) \in GoodPeerMessage
  BY <1>1, <1>7, PrepareMessageGood DEF m
<1>9. broadcast_to_peers(PrepareMessage(r, t, m)) \in [Replicas -> Seq(GoodPeerMessage)]
  <2>1. << >> \in Seq(GoodPeerMessage)
    OBVIOUS
  <2>. QED BY <1>8, <2>1, SendsType
<1>10. s.view_ \in Nat
  BY StateFields
<1>11. GoodEffect(s, Effect(t, broadcast_to_peers(PrepareMessage(r, t, m)), {}))
  BY <1>2, <1>6, <1>7, <1>9, <1>10, EffectGood
<1>12. GoodEffect(s, Effect(s, NoSends, {})) /\ GoodEffect(s, Effect(s, NoSends, {cached}))
  <2>. HIDE DEF cached
  <2>. QED BY <1>4, <1>10, NoSendsType, EffectGood
<1>. QED BY <1>11, <1>12 DEF handle_request, m, entry, a, t

(* handle_prepare appends at op_ + 1, then executes up to the commit number. *)
LEMMA handle_prepare_Good ==
  ASSUME NEW r \in Replicas, NEW s \in GoodState, NEW inbound \in GoodInbound,
         inbound.message.command_ = "prepare"
  PROVE  GoodEffect(s, handle_prepare(r, s, inbound))
<1>. DEFINE m == inbound.message
            t == AppendOp(s, m, {})
            out == send_to_peer(inbound.connection, PrepareOkMessage(r, t, t.op_))
<1>1. m \in Message /\ m.commit \in Nat
  BY InboundFields, MessageFields
<1>2. /\ t \in GoodState /\ t.view_ = s.view_ /\ t.status_ = s.status_
      /\ t.last_executed_op_ = s.last_executed_op_
  BY <1>1, AppendOpGood
<1>3. PrepareOkMessage(r, t, t.op_) \in GoodPeerMessage
  BY <1>2, StateFields, PrepareOkMessageGood
<1>4. out \in [Replicas -> Seq(GoodPeerMessage)]
  <2>1. << >> \in Seq(GoodPeerMessage)
    OBVIOUS
  <2>. QED BY <1>3, <2>1, SendsType
<1>5. GoodEffect(t, CatchUp(r, t, m.commit, out))
  BY <1>1, <1>2, <1>4, CatchUpGood
<1>6. GoodEffect(s, CatchUp(r, t, m.commit, out))
  <2>1. s.view_ \in Nat
    BY StateFields
  <2>. HIDE DEF t, out
  <2>. QED BY <1>2, <1>5, <2>1, GoodEffectFrom
<1>. QED BY <1>6 DEF handle_prepare

(* An acknowledgement changes nothing else in the log. *)
LEMMA handle_prepare_ok_Good ==
  ASSUME NEW r \in Replicas, NEW s \in GoodState, NEW inbound \in GoodInbound
  PROVE  GoodEffect(s, handle_prepare_ok(r, s, inbound))
<1>. DEFINE m == inbound.message
            acked == s.log_[m.op].prepare_ok_acks \cup {m.replica}
            entry == [s.log_[m.op] EXCEPT !.prepare_ok_acks = acked]
            log == [s.log_ EXCEPT ![m.op] = entry]
            t == [s EXCEPT !.log_ = log]
            u == [t EXCEPT !.commit_ = Max({t.commit_} \cup Committable(t))]
<1>1. /\ s \in ReplicaState /\ s.view_ \in Nat /\ s.log_ \in Seq(LogEntry)
      /\ s.op_ = Len(s.log_) /\ s.commit_ \in Nat
  BY StateFields
<1>2. GoodEffect(s, Effect(s, NoSends, {}))
  BY <1>1, NoSendsType, EffectGood
<1>3. CASE m.op \notin DOMAIN s.log_
  BY <1>2, <1>3 DEF handle_prepare_ok
<1>4. CASE m.op \in DOMAIN s.log_
  <2>1. m.replica \in Replicas
    BY InboundFields, MessageFields
  <2>2. s.log_[m.op] \in LogEntry
    BY <1>1, <1>4
  <2>3. entry \in LogEntry
    BY <2>1, <2>2 DEF LogEntry
  <2>4. log \in Seq(LogEntry) /\ Len(log) = Len(s.log_)
    <3>. HIDE DEF entry
    <3>. QED BY <1>1, <1>4, <2>3
  <2>5. t = [s EXCEPT !.log_[m.op].prepare_ok_acks = @ \cup {m.replica}]
    BY <1>1, <1>4, <2>2 DEF ReplicaState, LogEntry
  <2>. HIDE DEF log
  <2>6. t \in ReplicaState
    BY <1>1, <2>4 DEF ReplicaState
  <2>7. /\ t.op_ = s.op_ /\ t.log_ = log /\ t.view_ = s.view_ /\ t.commit_ = s.commit_
        /\ t.status_ = s.status_ /\ t.last_executed_op_ = s.last_executed_op_
        /\ t.do_view_change_received_ = s.do_view_change_received_
        /\ t.recovery_responses_ = s.recovery_responses_
    BY <1>1 DEF ReplicaState
  <2>. HIDE DEF t
  <2>8. t \in GoodState
    BY <1>1, <2>4, <2>6, <2>7 DEF GoodState
  <2>9. /\ Committable(t) \subseteq Nat
        /\ \A n \in Committable(t) : n <= Len(log)
        /\ Len(log) \in Nat
    BY <1>1, <2>4, <2>7 DEF Committable
  <2>10. Max({t.commit_} \cup Committable(t)) \in Nat
    BY <1>1, <2>7, <2>9, MaxWith
  <2>11. u \in ReplicaState
    BY <2>6, <2>10 DEF ReplicaState
  <2>12. /\ u.op_ = t.op_ /\ u.log_ = t.log_ /\ u.view_ = t.view_
         /\ u.status_ = t.status_ /\ u.last_executed_op_ = t.last_executed_op_
         /\ u.do_view_change_received_ = t.do_view_change_received_
         /\ u.recovery_responses_ = t.recovery_responses_
    BY <2>6 DEF ReplicaState
  <2>13. u \in GoodState
    <3>. HIDE DEF u
    <3>. QED BY <2>8, <2>11, <2>12 DEF GoodState
  <2>14. GoodEffect(u, Execute(r, u, NoSends))
    BY <2>13, NoSendsType, ExecuteGood
  <2>15. GoodEffect(s, Execute(r, u, NoSends))
    <3>. HIDE DEF u
    <3>. QED BY <1>1, <2>7, <2>12, <2>13, <2>14, GoodEffectFrom
  <2>16. GoodEffect(s, Effect(t, NoSends, {}))
    <3>1. t.view_ >= s.view_ /\ t.last_executed_op_ = s.last_executed_op_
      BY <1>1, <2>7
    <3>. HIDE DEF u, entry
    <3>. QED BY <2>8, <3>1, NoSendsType, EffectGood
  <2>17. GoodEffect(s, advance_primary_commit_number(r, t))
    BY <2>15, <2>16 DEF advance_primary_commit_number
  <2>. QED BY <1>4, <2>5, <2>17 DEF handle_prepare_ok
<1>. QED BY <1>3, <1>4

(* handle_commit executes what its log has of the commit number. *)
LEMMA handle_commit_Good ==
  ASSUME NEW r \in Replicas, NEW s \in GoodState, NEW inbound \in GoodInbound
  PROVE  GoodEffect(s, handle_commit(r, s, inbound))
<1>1. inbound.message.commit \in Nat
  BY InboundFields, MessageFields
<1>. QED BY <1>1, NoSendsType, CatchUpGood DEF handle_commit

-----------------------------------------------------------------------------
(* View change *)

(* enter_new_view leaves the log and what was executed alone. *)
LEMMA enter_new_view_Good ==
  ASSUME NEW r \in Replicas, NEW s \in GoodState, s.status_ = "NORMAL",
         NEW v \in Nat, v >= s.view_
  PROVE  /\ enter_new_view(r, s, v) \in GoodState
         /\ enter_new_view(r, s, v).view_ = v
         /\ enter_new_view(r, s, v).last_executed_op_ = s.last_executed_op_
<1>. DEFINE t == enter_new_view(r, s, v)
<1>1. << >> \in Seq(Message)
  OBVIOUS
<1>2. s \in ReplicaState
  BY StateFields
<1>3. t \in ReplicaState
  BY <1>1, <1>2 DEF enter_new_view, ReplicaState, Status
<1>4. /\ t.op_ = s.op_ /\ t.log_ = s.log_ /\ t.view_ = v
      /\ t.last_executed_op_ = s.last_executed_op_
      /\ t.do_view_change_received_ = << >>
      /\ t.recovery_responses_ = s.recovery_responses_
  BY <1>2 DEF enter_new_view, ReplicaState
<1>5. s.recovery_responses_ = << >>
  BY DEF GoodState
<1>. HIDE DEF t
<1>6. t.op_ = Len(t.log_)
  BY <1>4, StateFields
<1>7. /\ << >> \in Seq({m \in Matching : m.command_ = "do_view_change"})
      /\ << >> \in Seq({m \in Matching :
                         m.command_ = "recovery_response" /\ m.view >= t.view_})
  OBVIOUS
<1>8. t \in GoodState
  BY <1>3, <1>4, <1>5, <1>6, <1>7 DEF GoodState
<1>. QED BY <1>4, <1>8 DEF t

(* Only a NORMAL replica initiates a view change. *)
LEMMA initiate_view_change_Good ==
  ASSUME NEW r \in Replicas, NEW s \in GoodState, s.status_ = "NORMAL"
  PROVE  GoodEffect(s, initiate_view_change(r, s))
<1>. DEFINE t == enter_new_view(r, s, s.view_ + 1)
            m == [Blank("start_view_change") EXCEPT !.view = t.view_, !.replica = r]
<1>1. s.view_ \in Nat
  BY StateFields
<1>2. /\ t \in GoodState /\ t.view_ = s.view_ + 1
      /\ t.last_executed_op_ = s.last_executed_op_
  <2>1. s.view_ + 1 \in Nat /\ s.view_ + 1 >= s.view_
    BY <1>1
  <2>. QED BY <2>1, enter_new_view_Good
<1>. HIDE DEF t
<1>3. m \in GoodPeerMessage
  <2>1. << >> \in Seq(LogEntry) /\ t.view_ \in Nat
    BY <1>1, <1>2
  <2>. QED BY <2>1 DEF Blank, GoodPeerMessage, PeerMessage, FromClient, Matching,
                       CarriesLog, Message, Command
<1>. HIDE DEF m
<1>4. broadcast_to_peers(m) \in [Replicas -> Seq(GoodPeerMessage)]
  <2>1. << >> \in Seq(GoodPeerMessage)
    OBVIOUS
  <2>. QED BY <1>3, <2>1, SendsType
<1>5. GoodEffect(s, Effect(t, broadcast_to_peers(m), {}))
  BY <1>1, <1>2, <1>4, EffectGood
<1>. QED BY <1>5 DEF initiate_view_change, t, m

(* A vote that no other beats exists, so the search finds one. *)
LEMMA BestVoteIn ==
  ASSUME NEW S, NEW votes \in Seq(S), votes # << >>,
         \A m \in S : m.last_normal_view \in Nat /\ m.op \in Nat
  PROVE  BestVote(votes) \in S
<1>. DEFINE n == Len(votes)
            v == [i \in 1 .. n |-> votes[i].last_normal_view]
            o == [i \in 1 .. n |-> votes[i].op]
            Beats(a, b) == \/ a.last_normal_view > b.last_normal_view
                           \/ a.last_normal_view = b.last_normal_view /\ a.op > b.op
            best == {i \in DOMAIN votes :
                       \A j \in DOMAIN votes : ~ Beats(votes[j], votes[i])}
<1>1. /\ n \in Nat \ {0} /\ DOMAIN votes = 1 .. n
      /\ \A i \in 1 .. n : votes[i] \in S
  OBVIOUS
<1>2. v \in [1 .. n -> Nat] /\ o \in [1 .. n -> Nat]
  BY <1>1
<1>3. \A i \in 1 .. n : v[i] = votes[i].last_normal_view /\ o[i] = votes[i].op
  BY <1>1
<1>. HIDE DEF n, v, o
<1>4. PICK i \in 1 .. n : \A j \in 1 .. n :
        ~ (v[j] > v[i] \/ (v[j] = v[i] /\ o[j] > o[i]))
  BY <1>1, <1>2, LexicographicMax
<1>5. i \in best
  BY <1>1, <1>3, <1>4
<1>6. Min(best) \in best
  <2>1. best \subseteq DOMAIN votes
    OBVIOUS
  <2>. HIDE DEF best
  <2>2. best \subseteq Nat
    BY <1>1, <2>1
  <2>. QED BY <1>5, <2>2, MinIn
<1>7. votes[Min(best)] \in S
  BY <1>1, <1>6
<1>. QED BY <1>7 DEF BestVote

(* The new primary's state after the quorum of votes. *)
LEMMA AdoptVotesGood ==
  ASSUME NEW s \in GoodState, s.status_ = "VIEW_CHANGE",
         NEW votes \in Seq({m \in Matching : m.command_ = "do_view_change"}), votes # << >>
  PROVE  /\ AdoptVotes(s, votes) \in GoodState
         /\ AdoptVotes(s, votes).view_ = s.view_
         /\ AdoptVotes(s, votes).status_ = "NORMAL"
         /\ AdoptVotes(s, votes).last_executed_op_ = s.last_executed_op_
<1>. DEFINE S == {m \in Matching : m.command_ = "do_view_change"}
            t == AdoptVotes(s, votes)
            best == BestVote(votes)
            commits == {votes[i].commit : i \in DOMAIN votes}
            c == [i \in 1 .. Len(votes) |-> votes[i].commit]
<1>1. \A m \in S : /\ m.last_normal_view \in Nat /\ m.op \in Nat /\ m.commit \in Nat
                  /\ m.log \in Seq(LogEntry) /\ m.op = Len(m.log)
  BY MessageFields DEF Matching, CarriesLog
<1>. HIDE DEF S
<1>2. best \in S
  BY <1>1, BestVoteIn DEF S
<1>3. best.op \in Nat /\ best.log \in Seq(LogEntry) /\ best.op = Len(best.log)
  BY <1>1, <1>2
<1>4. \A i \in 1 .. Len(votes) : votes[i] \in S
  BY DEF S
<1>5. c \in [1 .. Len(votes) -> Nat]
  BY <1>1, <1>4
<1>6. Len(votes) \in Nat /\ DOMAIN votes = 1 .. Len(votes)
  OBVIOUS
<1>7. PICK b \in Nat : \A i \in 1 .. Len(votes) : c[i] <= b
  <2>. HIDE DEF c
  <2>. QED BY <1>5, <1>6, Bounded
<1>8. commits \subseteq Nat /\ \A x \in commits : x <= b
  BY <1>1, <1>4, <1>6, <1>7
<1>9. s \in ReplicaState /\ s.commit_ \in Nat
  BY StateFields
<1>10. Max({s.commit_} \cup commits) \in Nat
  <2>. HIDE DEF commits
  <2>. QED BY <1>8, <1>9, MaxWith
<1>11. << >> \in Seq(Message)
  OBVIOUS
<1>12. t = [s EXCEPT !.do_view_change_received_ = << >>, !.log_ = best.log,
                    !.op_ = best.op, !.commit_ = Max({s.commit_} \cup commits),
                    !.status_ = "NORMAL"]
  BY <1>9 DEF AdoptVotes, ReplicaState
<1>. HIDE DEF t, best, commits
<1>13. t \in ReplicaState
  BY <1>3, <1>9, <1>10, <1>11, <1>12 DEF ReplicaState, Status
<1>14. /\ t.op_ = best.op /\ t.log_ = best.log /\ t.view_ = s.view_
       /\ t.status_ = "NORMAL" /\ t.last_executed_op_ = s.last_executed_op_
       /\ t.do_view_change_received_ = << >>
       /\ t.recovery_responses_ = s.recovery_responses_
  BY <1>9, <1>12 DEF ReplicaState
<1>15. s.recovery_responses_ = << >>
  BY DEF GoodState
<1>16. /\ << >> \in Seq({m \in Matching : m.command_ = "do_view_change"})
       /\ << >> \in Seq({m \in Matching :
                          m.command_ = "recovery_response" /\ m.view >= t.view_})
  OBVIOUS
<1>17. t \in GoodState
  BY <1>3, <1>13, <1>14, <1>15, <1>16 DEF GoodState
<1>. QED BY <1>14, <1>17 DEF t

(* handle_do_view_change stores the vote, and with enough adopts the best log. *)
LEMMA handle_do_view_change_Good ==
  ASSUME NEW r \in Replicas, NEW s \in GoodState, s.status_ = "VIEW_CHANGE",
         NEW m \in Matching, m.command_ = "do_view_change"
  PROVE  GoodEffect(s, handle_do_view_change(r, s, m))
<1>. DEFINE S == {x \in Matching : x.command_ = "do_view_change"}
            votes == Append(s.do_view_change_received_, m)
            adopted == AdoptVotes(s, votes)
            out == broadcast_to_peers(StartViewMessage(r, adopted))
            waiting == [s EXCEPT !.do_view_change_received_ = votes]
<1>1. /\ s \in ReplicaState /\ s.view_ \in Nat
      /\ s.do_view_change_received_ \in Seq(S)
  BY StateFields
<1>2. m \in S
  OBVIOUS
<1>3. S \subseteq Message
  BY DEF Matching
<1>4. votes \in Seq(S) /\ votes # << >> /\ votes \in Seq(Message)
  <2>. HIDE DEF S
  <2>. QED BY <1>1, <1>2, <1>3
<1>5. GoodEffect(s, Execute(r, adopted, out))
  <2>1. /\ adopted \in GoodState /\ adopted.view_ = s.view_
        /\ adopted.status_ = "NORMAL"
        /\ adopted.last_executed_op_ = s.last_executed_op_
    <3>. HIDE DEF votes
    <3>. QED BY <1>4, AdoptVotesGood
  <2>. HIDE DEF adopted
  <2>2. StartViewMessage(r, adopted) \in GoodPeerMessage
    BY <2>1, StartViewMessageGood
  <2>3. out \in [Replicas -> Seq(GoodPeerMessage)]
    <3>1. << >> \in Seq(GoodPeerMessage)
      OBVIOUS
    <3>. QED BY <2>2, <3>1, SendsType
  <2>. HIDE DEF out
  <2>4. GoodEffect(adopted, Execute(r, adopted, out))
    BY <2>1, <2>3, ExecuteGood
  <2>5. adopted.view_ >= s.view_
    BY <1>1, <2>1
  <2>. QED BY <2>1, <2>4, <2>5, GoodEffectFrom
<1>6. GoodEffect(s, Effect(waiting, NoSends, {}))
  <2>. HIDE DEF S, votes
  <2>1. waiting \in ReplicaState
    BY <1>1, <1>4 DEF ReplicaState
  <2>2. /\ waiting.op_ = s.op_ /\ waiting.log_ = s.log_ /\ waiting.view_ = s.view_
        /\ waiting.status_ = s.status_
        /\ waiting.last_executed_op_ = s.last_executed_op_
        /\ waiting.do_view_change_received_ = votes
        /\ waiting.recovery_responses_ = s.recovery_responses_
    BY <1>1 DEF ReplicaState
  <2>. HIDE DEF waiting
  <2>3. waiting \in GoodState
    BY <1>4, <2>1, <2>2 DEF GoodState, S
  <2>4. waiting.view_ >= s.view_
    BY <1>1, <2>2
  <2>. QED BY <2>2, <2>3, <2>4, NoSendsType, EffectGood
<1>. QED BY <1>5, <1>6 DEF handle_do_view_change

(* The vote goes to the new primary, or is counted at once by itself. *)
LEMMA handle_start_view_change_Good ==
  ASSUME NEW r \in Replicas, NEW s \in GoodState, s.status_ = "VIEW_CHANGE",
         NEW inbound \in GoodInbound
  PROVE  GoodEffect(s, handle_start_view_change(r, s, inbound))
<1>. DEFINE Set(received) == [s EXCEPT !.start_view_change_received_ = received]
            received == s.start_view_change_received_ \cup {inbound.message.replica}
            voted == ClearStartViewChanges(s)
            vote == DoViewChangeMessage(r, voted)
            new_primary == get_primary_id_for_view(s.view_)
<1>1. s \in ReplicaState /\ s.view_ \in Nat
  BY StateFields
<1>2. ASSUME NEW R \in SUBSET Replicas
      PROVE  /\ Set(R) \in GoodState /\ Set(R).view_ = s.view_
             /\ Set(R).status_ = s.status_
             /\ Set(R).last_executed_op_ = s.last_executed_op_
  <2>1. Set(R) \in ReplicaState
    BY <1>1 DEF ReplicaState
  <2>2. /\ Set(R).op_ = s.op_ /\ Set(R).log_ = s.log_ /\ Set(R).view_ = s.view_
        /\ Set(R).status_ = s.status_
        /\ Set(R).last_executed_op_ = s.last_executed_op_
        /\ Set(R).do_view_change_received_ = s.do_view_change_received_
        /\ Set(R).recovery_responses_ = s.recovery_responses_
    BY <1>1 DEF ReplicaState
  <2>. HIDE DEF Set
  <2>. QED BY <2>1, <2>2 DEF GoodState
<1>3. received \in SUBSET Replicas
  BY StateFields, InboundFields, MessageFields
<1>4. voted = Set({})
  BY DEF ClearStartViewChanges
<1>5. /\ voted \in GoodState /\ voted.view_ = s.view_ /\ voted.status_ = s.status_
      /\ voted.last_executed_op_ = s.last_executed_op_
  <2>. HIDE DEF Set, voted
  <2>. QED BY <1>2, <1>4
<1>6. GoodEffect(s, Effect(Set(received), NoSends, {}))
  <2>. HIDE DEF Set, received
  <2>1. Set(received).view_ >= s.view_
    BY <1>1, <1>2, <1>3
  <2>. QED BY <1>2, <1>3, <2>1, NoSendsType, EffectGood
<1>. HIDE DEF voted
<1>7. vote \in GoodPeerMessage /\ vote.command_ = "do_view_change"
  BY <1>5, DoViewChangeMessageGood
<1>. HIDE DEF vote
<1>8. voted.view_ >= s.view_
  BY <1>1, <1>5
<1>9. GoodEffect(s, handle_do_view_change(r, voted, vote))
  <2>1. vote \in Matching
    BY <1>7 DEF GoodPeerMessage
  <2>2. GoodEffect(voted, handle_do_view_change(r, voted, vote))
    BY <1>5, <1>7, <2>1, handle_do_view_change_Good
  <2>. QED BY <1>5, <1>8, <2>2, GoodEffectFrom
<1>10. GoodEffect(s, Effect(voted, send_to_peer(new_primary, vote), {}))
  <2>1. << >> \in Seq(GoodPeerMessage)
    OBVIOUS
  <2>2. send_to_peer(new_primary, vote) \in [Replicas -> Seq(GoodPeerMessage)]
    BY <1>7, <2>1, SendsType
  <2>. HIDE DEF new_primary
  <2>. QED BY <1>5, <1>8, <2>2, EffectGood
<1>. QED BY <1>6, <1>9, <1>10 DEF handle_start_view_change, voted, vote

(* Noting an adopted log's requests leaves a client table. *)
LEMMA NoteRequestsType ==
  ASSUME NEW table \in [ClientIds -> ClientTableEntry], NEW log \in Seq(LogEntry)
  PROVE  NoteRequests(table, log) \in [ClientIds -> ClientTableEntry]
<1>. DEFINE f == [n \in 1 .. Len(log) |-> log[n].request_num]
<1>1. f \in [1 .. Len(log) -> Nat] /\ Len(log) \in Nat
  <2>1. ASSUME NEW n \in 1 .. Len(log) PROVE log[n].request_num \in Nat
    <3>1. log[n] \in LogEntry
      OBVIOUS
    <3>. QED BY <3>1 DEF LogEntry
  <2>. QED BY <2>1
<1>2. PICK b \in Nat : \A i \in 1 .. Len(log) : f[i] <= b
  <2>. HIDE DEF f
  <2>. QED BY <1>1, Bounded
<1>3. ASSUME NEW c \in ClientIds
      PROVE  LET requests == {log[n].request_num :
                                n \in {i \in DOMAIN log : log[i].client_id = c}}
                 newest == Max({0} \cup requests)
             IN  (IF newest > table[c].request_number
                  THEN [table[c] EXCEPT !.request_number = newest, !.executed = FALSE]
                  ELSE table[c]) \in ClientTableEntry
  <2>. DEFINE requests == {log[n].request_num :
                             n \in {i \in DOMAIN log : log[i].client_id = c}}
              newest == Max({0} \cup requests)
  <2>1. \A n \in DOMAIN log : log[n].request_num = f[n] /\ f[n] \in Nat /\ f[n] <= b
    BY <1>1, <1>2
  <2>2. requests \subseteq Nat /\ \A x \in requests : x <= b
    BY <2>1
  <2>3. newest \in Nat
    <3>. HIDE DEF requests
    <3>. QED BY <2>2, MaxWith
  <2>. HIDE DEF newest
  <2>4. table[c] \in ClientTableEntry
    OBVIOUS
  <2>5. [table[c] EXCEPT !.request_number = newest, !.executed = FALSE] \in ClientTableEntry
    BY <2>3, <2>4 DEF ClientTableEntry
  <2>. QED BY <2>4, <2>5 DEF newest
<1>. QED BY <1>3 DEF NoteRequests

(* A backup's state after it adopts the new primary's log. *)
LEMMA AdoptStartViewGood ==
  ASSUME NEW s \in GoodState, s.status_ = "VIEW_CHANGE",
         NEW m \in Matching, m.command_ = "start_view", m.view = s.view_
  PROVE  /\ AdoptStartView(s, m) \in GoodState
         /\ AdoptStartView(s, m).view_ = s.view_
         /\ AdoptStartView(s, m).status_ = "NORMAL"
         /\ AdoptStartView(s, m).last_executed_op_ = s.last_executed_op_
<1>. DEFINE t == AdoptStartView(s, m)
            table == NoteRequests(s.client_table_, m.log)
<1>1. /\ s \in ReplicaState /\ s.client_table_ \in [ClientIds -> ClientTableEntry]
  BY StateFields
<1>2. /\ m.view \in Nat /\ m.op \in Nat /\ m.commit \in Nat
      /\ m.log \in Seq(LogEntry) /\ m.op = Len(m.log)
  BY MessageFields DEF Matching, CarriesLog
<1>3. table \in [ClientIds -> ClientTableEntry]
  BY <1>1, <1>2, NoteRequestsType
<1>4. t = [s EXCEPT !.view_ = m.view, !.op_ = m.op, !.commit_ = m.commit,
                    !.log_ = m.log, !.status_ = "NORMAL", !.client_table_ = table]
  BY <1>1 DEF AdoptStartView, ReplicaState
<1>. HIDE DEF t, table
<1>5. t \in ReplicaState
  BY <1>1, <1>2, <1>3, <1>4 DEF ReplicaState, Status
<1>6. /\ t.op_ = m.op /\ t.log_ = m.log /\ t.view_ = s.view_ /\ t.status_ = "NORMAL"
      /\ t.last_executed_op_ = s.last_executed_op_
      /\ t.do_view_change_received_ = s.do_view_change_received_
      /\ t.recovery_responses_ = s.recovery_responses_
  BY <1>1, <1>4 DEF ReplicaState
<1>7. /\ s.recovery_responses_ = << >>
      /\ s.do_view_change_received_ \in
           Seq({x \in Matching : x.command_ = "do_view_change"})
  BY DEF GoodState
<1>8. << >> \in Seq({x \in Matching :
                      x.command_ = "recovery_response" /\ x.view >= t.view_})
  OBVIOUS
<1>9. t \in GoodState
  BY <1>2, <1>5, <1>6, <1>7, <1>8 DEF GoodState
<1>. QED BY <1>6, <1>9 DEF t

(* handle_start_view adopts the new primary's log. *)
LEMMA handle_start_view_Good ==
  ASSUME NEW r \in Replicas, NEW s \in GoodState, s.status_ = "VIEW_CHANGE",
         NEW inbound \in GoodInbound, inbound.message.command_ = "start_view",
         inbound.message.view = s.view_
  PROVE  GoodEffect(s, handle_start_view(r, s, inbound))
<1>. DEFINE m == inbound.message
            adopted == AdoptStartView(s, m)
            oks == RetroactivePrepareOks(r, adopted, m.commit)
            out == SendAll(get_primary_id(adopted), oks)
<1>1. m \in Matching /\ m.commit \in Nat
  BY InboundFields, MessageFields
<1>2. /\ adopted \in GoodState /\ adopted.view_ = s.view_
      /\ adopted.status_ = "NORMAL"
      /\ adopted.last_executed_op_ = s.last_executed_op_
  BY <1>1, AdoptStartViewGood
<1>. HIDE DEF adopted, m
<1>3. oks \in Seq(GoodPeerMessage)
  <2>. DEFINE k == Max({0, adopted.op_ - m.commit})
  <2>1. adopted.op_ \in Nat
    BY <1>2, StateFields
  <2>2. k \in Nat
    BY <1>1, <2>1, MaxZero
  <2>3. ASSUME NEW i \in 1 .. k
        PROVE  PrepareOkMessage(r, adopted, m.commit + i) \in GoodPeerMessage
    <3>1. m.commit + i \in Nat
      BY <1>1, <2>2
    <3>. QED BY <1>2, <3>1, PrepareOkMessageGood
  <2>4. oks = [i \in 1 .. k |-> PrepareOkMessage(r, adopted, m.commit + i)]
    BY DEF RetroactivePrepareOks
  <2>. HIDE DEF k, oks
  <2>5. oks \in [1 .. k -> GoodPeerMessage]
    BY <2>3, <2>4
  <2>. QED BY <2>2, <2>5, SeqOf
<1>. HIDE DEF oks
<1>4. out \in [Replicas -> Seq(GoodPeerMessage)]
  <2>1. << >> \in Seq(GoodPeerMessage)
    OBVIOUS
  <2>. QED BY <1>3, <2>1 DEF SendAll
<1>. HIDE DEF out
<1>5. GoodEffect(adopted, Execute(r, adopted, out))
  BY <1>2, <1>4, ExecuteGood
<1>6. adopted.view_ >= s.view_
  <2>1. s.view_ \in Nat
    BY StateFields
  <2>. QED BY <1>2, <2>1
<1>7. GoodEffect(s, Execute(r, adopted, out))
  BY <1>2, <1>5, <1>6, GoodEffectFrom
<1>. QED BY <1>7 DEF handle_start_view, m, adopted, oks, out

-----------------------------------------------------------------------------
(* Recovery *)

(* initiate_recovery keeps everything but the status and the responses. *)
LEMMA initiate_recovery_Good ==
  ASSUME NEW r \in Replicas, NEW s \in GoodState, NEW nonce \in Nat
  PROVE  GoodEffect(s, initiate_recovery(r, s, nonce))
<1>. DEFINE t == [s EXCEPT !.status_ = "RECOVERY", !.recovery_nonce_ = nonce,
                           !.recovery_responses_ = << >>]
            m == [Blank("recovery") EXCEPT !.replica = r, !.nonce = nonce]
<1>1. s \in ReplicaState /\ s.view_ \in Nat
  BY StateFields
<1>2. /\ << >> \in Seq(Message) /\ << >> \in Seq(LogEntry)
      /\ << >> \in Seq(GoodPeerMessage)
      /\ << >> \in Seq({x \in Matching :
                         x.command_ = "recovery_response" /\ x.view >= s.view_})
  OBVIOUS
<1>3. t \in ReplicaState
  BY <1>1, <1>2 DEF ReplicaState, Status
<1>4. /\ t.op_ = s.op_ /\ t.log_ = s.log_ /\ t.view_ = s.view_
      /\ t.status_ = "RECOVERY" /\ t.last_executed_op_ = s.last_executed_op_
      /\ t.do_view_change_received_ = s.do_view_change_received_
      /\ t.recovery_responses_ = << >>
  BY <1>1 DEF ReplicaState
<1>5. m \in GoodPeerMessage
  BY <1>2 DEF Blank, GoodPeerMessage, PeerMessage, FromClient, Matching, CarriesLog,
              Message, Command
<1>. HIDE DEF t, m
<1>6. t \in GoodState
  BY <1>2, <1>3, <1>4 DEF GoodState
<1>7. broadcast_to_peers(m) \in [Replicas -> Seq(GoodPeerMessage)]
  BY <1>2, <1>5, SendsType
<1>8. t.view_ >= s.view_
  BY <1>1, <1>4
<1>9. GoodEffect(s, Effect(t, broadcast_to_peers(m), {}))
  BY <1>4, <1>6, <1>7, <1>8, EffectGood
<1>. QED BY <1>9 DEF initiate_recovery, t, m

(* handle_recovery_request answers with op_ and the whole log. *)
LEMMA handle_recovery_request_Good ==
  ASSUME NEW r \in Replicas, NEW s \in GoodState, NEW inbound \in GoodInbound
  PROVE  GoodEffect(s, handle_recovery_request(r, s, inbound))
<1>. DEFINE response ==
              [Blank("recovery_response") EXCEPT !.replica = r, !.view = s.view_,
                 !.op = s.op_, !.commit = s.commit_, !.nonce = inbound.message.nonce,
                 !.log = Serialized(s.log_)]
            out == send_to_peer(inbound.message.replica, response)
<1>1. Serialized(s.log_) \in Seq(LogEntry) /\ Len(Serialized(s.log_)) = s.op_
  BY StateFields, SerializedLog
<1>2. s.view_ \in Nat /\ s.op_ \in Nat /\ s.commit_ \in Nat
  BY StateFields
<1>3. inbound.message.nonce \in Nat
  BY InboundFields, MessageFields
<1>4. response \in GoodPeerMessage
  BY <1>1, <1>2, <1>3 DEF Blank, GoodPeerMessage, PeerMessage, FromClient, Matching,
                          CarriesLog, Message, Command
<1>. HIDE DEF response
<1>5. out \in [Replicas -> Seq(GoodPeerMessage)]
  <2>1. << >> \in Seq(GoodPeerMessage)
    OBVIOUS
  <2>. QED BY <1>4, <2>1, SendsType
<1>. HIDE DEF out
<1>6. GoodEffect(s, Effect(s, out, {}))
  BY <1>2, <1>5, EffectGood
<1>. QED BY <1>6 DEF handle_recovery_request, response, out

(* A response that no other beats exists. *)
LEMMA BestResponseIn ==
  ASSUME NEW S, NEW responses \in Seq(S), responses # << >>,
         \A m \in S : m.view \in Nat /\ m.op \in Nat
  PROVE  BestResponse(responses) \in S
<1>. DEFINE n == Len(responses)
            v == [i \in 1 .. n |-> responses[i].view]
            o == [i \in 1 .. n |-> responses[i].op]
            Beats(a, b) == a.view > b.view \/ (a.view = b.view /\ a.op > b.op)
            best == {i \in DOMAIN responses :
                       \A j \in DOMAIN responses : ~ Beats(responses[j], responses[i])}
<1>1. /\ n \in Nat \ {0} /\ DOMAIN responses = 1 .. n
      /\ \A i \in 1 .. n : responses[i] \in S
  OBVIOUS
<1>2. v \in [1 .. n -> Nat] /\ o \in [1 .. n -> Nat]
  BY <1>1
<1>3. \A i \in 1 .. n : v[i] = responses[i].view /\ o[i] = responses[i].op
  BY <1>1
<1>. HIDE DEF n, v, o
<1>4. PICK i \in 1 .. n : \A j \in 1 .. n :
        ~ (v[j] > v[i] \/ (v[j] = v[i] /\ o[j] > o[i]))
  BY <1>1, <1>2, LexicographicMax
<1>5. i \in best
  BY <1>1, <1>3, <1>4
<1>6. Min(best) \in best
  <2>1. best \subseteq DOMAIN responses
    OBVIOUS
  <2>. HIDE DEF best
  <2>2. best \subseteq Nat
    BY <1>1, <2>1
  <2>. QED BY <1>5, <2>2, MinIn
<1>7. responses[Min(best)] \in S
  BY <1>1, <1>6
<1>. QED BY <1>7 DEF BestResponse

(* A recovered replica's state: the best response's view is no earlier than   *)
(* the replica's, since earlier ones were discarded as stale.                 *)
LEMMA AdoptResponseGood ==
  ASSUME NEW s \in GoodState, NEW m \in Matching, m.command_ = "recovery_response",
         m.view >= s.view_
  PROVE  /\ AdoptResponse(s, m) \in GoodState
         /\ AdoptResponse(s, m).view_ = m.view
         /\ AdoptResponse(s, m).last_executed_op_ = 0
<1>. DEFINE t == AdoptResponse(s, m)
            table == NoteRequests(EmptyClientTable, m.log)
<1>1. s \in ReplicaState
  BY StateFields
<1>2. /\ m.view \in Nat /\ m.op \in Nat /\ m.commit \in Nat
      /\ m.log \in Seq(LogEntry) /\ m.op = Len(m.log)
  BY MessageFields DEF Matching, CarriesLog
<1>3. EmptyClientTable \in [ClientIds -> ClientTableEntry]
  BY DEF EmptyClientTable, ClientTableEntry, Result
<1>4. table \in [ClientIds -> ClientTableEntry]
  BY <1>2, <1>3, NoteRequestsType
<1>5. << >> \in Seq(Message)
  OBVIOUS
<1>6. t = [s EXCEPT !.view_ = m.view, !.op_ = m.op, !.commit_ = m.commit,
                    !.log_ = m.log, !.last_executed_op_ = 0, !.status_ = "NORMAL",
                    !.client_table_ = table,
                    !.recovery_nonce_ = 0, !.recovery_responses_ = << >>]
  BY DEF AdoptResponse
<1>. HIDE DEF t, table
<1>7. t \in ReplicaState
  BY <1>1, <1>2, <1>4, <1>5, <1>6 DEF ReplicaState, Status
<1>8. /\ t.op_ = m.op /\ t.log_ = m.log /\ t.view_ = m.view /\ t.status_ = "NORMAL"
      /\ t.last_executed_op_ = 0
      /\ t.do_view_change_received_ = s.do_view_change_received_
      /\ t.recovery_responses_ = << >>
  BY <1>1, <1>6 DEF ReplicaState
<1>9. << >> \in Seq({x \in Matching :
                      x.command_ = "recovery_response" /\ x.view >= t.view_})
  OBVIOUS
<1>10. t \in GoodState
  BY <1>2, <1>7, <1>8, <1>9 DEF GoodState
<1>. QED BY <1>8, <1>10 DEF t

(* handle_recovery_response stores it, and with enough starts over from one. *)
LEMMA handle_recovery_response_Good ==
  ASSUME NEW r \in Replicas, NEW s \in GoodState, s.status_ = "RECOVERY",
         NEW inbound \in GoodInbound, inbound.message.command_ = "recovery_response",
         inbound.message.view >= s.view_
  PROVE  GoodEffect(s, handle_recovery_response(r, s, inbound))
<1>. DEFINE m == inbound.message
            S == {x \in Matching : x.command_ = "recovery_response" /\ x.view >= s.view_}
            responses == Append(s.recovery_responses_, m)
            best == BestResponse(responses)
            t == AdoptResponse(s, best)
            waiting == [s EXCEPT !.recovery_responses_ = responses]
<1>1. /\ s \in ReplicaState /\ s.view_ \in Nat /\ s.last_executed_op_ \in Nat
      /\ s.recovery_responses_ \in Seq(S)
  BY StateFields
<1>2. m \in S
  BY InboundFields
<1>3. S \subseteq Message /\ \A x \in S : x.view \in Nat /\ x.op \in Nat
  BY MessageFields DEF Matching
<1>4. responses \in Seq(S) /\ responses # << >> /\ responses \in Seq(Message)
  <2>. HIDE DEF S
  <2>. QED BY <1>1, <1>2, <1>3
<1>5. GoodEffect(s, Execute(r, t, NoSends))
  <2>1. best \in S
    <3>. HIDE DEF S, responses
    <3>. QED BY <1>3, <1>4, BestResponseIn
  <2>2. t \in GoodState /\ t.view_ >= s.view_ /\ t.last_executed_op_ = 0
    <3>. HIDE DEF best
    <3>. QED BY <2>1, AdoptResponseGood
  <2>. DEFINE e == Execute(r, t, NoSends)
  <2>. HIDE DEF t
  <2>3. GoodEffect(t, e)
    BY <2>2, NoSendsType, ExecuteGood
  <2>. HIDE DEF e
  <2>4. /\ e.state.view_ \in Nat /\ e.state.last_executed_op_ \in Nat
        /\ t.view_ \in Nat
    BY <2>2, <2>3, StateFields DEF GoodEffect
  <2>5. s.last_executed_op_ + 1 .. e.state.last_executed_op_
          \subseteq t.last_executed_op_ + 1 .. e.state.last_executed_op_
    BY <1>1, <2>2, <2>4
  <2>6. /\ t.last_executed_op_ + 1 .. e.state.last_executed_op_
            \subseteq DOMAIN e.state.log_
        /\ e.state.view_ >= t.view_
    BY <2>3 DEF GoodEffect
  <2>7. e.state.view_ >= s.view_
    BY <1>1, <2>2, <2>4, <2>6
  <2>8. s.last_executed_op_ + 1 .. e.state.last_executed_op_ \subseteq DOMAIN e.state.log_
    BY <2>5, <2>6, Zenon
  <2>9. GoodEffect(s, e)
    BY <2>3, <2>7, <2>8 DEF GoodEffect
  <2>. QED BY <2>9 DEF e
<1>6. GoodEffect(s, Effect(waiting, NoSends, {}))
  <2>. HIDE DEF S, responses
  <2>1. waiting \in ReplicaState
    BY <1>1, <1>4 DEF ReplicaState
  <2>2. /\ waiting.op_ = s.op_ /\ waiting.log_ = s.log_ /\ waiting.view_ = s.view_
        /\ waiting.status_ = "RECOVERY"
        /\ waiting.last_executed_op_ = s.last_executed_op_
        /\ waiting.do_view_change_received_ = s.do_view_change_received_
        /\ waiting.recovery_responses_ = responses
    BY <1>1 DEF ReplicaState
  <2>. HIDE DEF waiting
  <2>3. waiting \in GoodState
    BY <1>4, <2>1, <2>2 DEF GoodState, S
  <2>4. waiting.view_ >= s.view_
    BY <1>1, <2>2
  <2>. QED BY <2>2, <2>3, <2>4, NoSendsType, EffectGood
<1>7. GoodEffect(s, Effect(s, NoSends, {}))
  BY <1>1, NoSendsType, EffectGood
<1>. QED BY <1>5, <1>6, <1>7 DEF handle_recovery_response
=============================================================================
