--------------------------- MODULE ReplicaProofs ----------------------------
(***************************************************************************)
(* Theorems about module Replica for clusters of any size, any client      *)
(* operations and any number of faults: IInv of ReplicaInvariant is an     *)
(* invariant, from which the type invariant, LogMatchesOp and two action   *)
(* properties follow.                                                      *)
(***************************************************************************)
EXTENDS ReplicaInvariant, HandlerLemmas

(* The two halves of IInv: what handlers change, and the rest. *)
ServersOK ==
  /\ state_ \in [Replicas -> GoodState]
  /\ channel \in [Replicas -> [Replicas -> Seq(GoodPeerMessage)]]
  /\ replies \subseteq Reply
  /\ ledger \in Seq([operation : Operation, client_id : ClientIds, request_num : Nat])
  /\ \A r \in Replicas : state_[r].last_executed_op_ <= Len(ledger)

LoopsOK ==
  /\ message_queue_ \in [Replicas -> Seq(GoodInbound)]
  /\ posted \in [Replicas -> Nat]
  /\ running \in Replicas \cup {NoReplica}
  /\ processed_in_pass \in BOOLEAN

ClusterOK ==
  /\ link \subseteq Pairs
  /\ up \subseteq Replicas
  /\ next_request \in [ClientProcesses -> Nat]
  /\ nonces \in [Replicas -> Nat]
  /\ budget \in [timeouts : Nat, drops : Nat, crashes : Nat, restarts : Nat]

(* Good states and messages have the types TypeOK asks for. *)
LEMMA GoodTypes ==
  /\ [Replicas -> GoodState] \subseteq [Replicas -> ReplicaState]
  /\ [Replicas -> Seq(GoodInbound)] \subseteq [Replicas -> Seq(InboundMessage)]
  /\ [Replicas -> [Replicas -> Seq(GoodPeerMessage)]]
       \subseteq [Replicas -> [Replicas -> Seq(PeerMessage)]]
<1>1. GoodState \subseteq ReplicaState
  BY DEF GoodState
<1>2. Seq(GoodInbound) \subseteq Seq(InboundMessage)
  <2>1. GoodInbound \subseteq InboundMessage
    BY DEF GoodInbound
  <2>. QED BY <2>1
<1>3. Seq(GoodPeerMessage) \subseteq Seq(PeerMessage)
  <2>1. GoodPeerMessage \subseteq PeerMessage
    BY DEF GoodPeerMessage
  <2>. QED BY <2>1
<1>4. [Replicas -> Seq(GoodPeerMessage)] \subseteq [Replicas -> Seq(PeerMessage)]
  BY <1>3
<1>. QED BY <1>1, <1>2, <1>4

(* IInv is the conjunction of the three parts. *)
LEMMA IInvParts == IInv <=> ServersOK /\ LoopsOK /\ ClusterOK
BY GoodTypes DEF IInv, TypeOK, ServersOK, LoopsOK, ClusterOK

(* The members a ReplicaState is constructed with. *)
LEMMA FreshStateGood == FreshState \in GoodState
<1>1. /\ << >> \in Seq(Message) /\ << >> \in Seq(LogEntry) /\ Len(<< >>) = 0
      /\ << >> \in Seq({m \in Matching : m.command_ = "do_view_change"})
      /\ << >> \in Seq({m \in Matching : m.command_ = "recovery_response" /\ m.view >= 0})
  OBVIOUS
<1>2. FreshState \in ReplicaState
  BY <1>1 DEF FreshState, ReplicaState, Status, EmptyClientTable, ClientTableEntry, Result
<1>3. /\ FreshState.op_ = 0 /\ FreshState.log_ = << >> /\ FreshState.view_ = 0
      /\ FreshState.recovery_responses_ = << >>
      /\ FreshState.do_view_change_received_ = << >>
      /\ FreshState.last_executed_op_ = 0
  BY DEF FreshState
<1>. QED BY <1>1, <1>2, <1>3 DEF GoodState

(* The cluster starts with fresh states and nothing in flight. *)
LEMMA InitIInv == Init => IInv
<1>. SUFFICES ASSUME Init PROVE ServersOK /\ LoopsOK /\ ClusterOK
  BY IInvParts
<1>1. FreshState.last_executed_op_ = 0
  BY DEF FreshState
<1>2. /\ << >> \in Seq(GoodInbound) /\ << >> \in Seq(GoodPeerMessage) /\ Len(<< >>) = 0
      /\ << >> \in Seq([operation : Operation, client_id : ClientIds, request_num : Nat])
  OBVIOUS
<1>3. ServersOK
  BY <1>1, <1>2, FreshStateGood DEF Init, ServersOK
<1>4. LoopsOK
  BY <1>2 DEF Init, LoopsOK
<1>5. ClusterOK
  BY InputAssumption DEF Init, ClusterOK
<1>. QED BY <1>3, <1>4, <1>5

-----------------------------------------------------------------------------
(* Handlers *)

(* Messages sent are appended to channels. *)
LEMMA SentGood ==
  ASSUME channel \in [Replicas -> [Replicas -> Seq(GoodPeerMessage)]],
         NEW r \in Replicas, NEW out \in [Replicas -> Seq(GoodPeerMessage)]
  PROVE  Sent(r, out) \in [Replicas -> [Replicas -> Seq(GoodPeerMessage)]]
<1>1. \A p \in Replicas : /\ channel[r][p] \in Seq(GoodPeerMessage)
                          /\ channel[r][p] \o out[p] \in Seq(GoodPeerMessage)
  OBVIOUS
<1>. QED BY <1>1 DEF Sent

(* Applying a good effect: the ledger grows by entries of the log, and no     *)
(* replica has executed more than it holds.                                   *)
LEMMA ApplyGood ==
  ASSUME ServersOK, NEW r \in Replicas, NEW e, GoodEffect(state_[r], e), Apply(r, e)
  PROVE  ServersOK'
<1>. DEFINE L == [operation : Operation, client_id : ClientIds, request_num : Nat]
            last == e.state.last_executed_op_
            k == Max({0, last - Len(ledger)})
            added == [i \in 1 .. k |-> Op(e.state.log_[Len(ledger) + i])]
<1>1. e.state \in GoodState /\ last \in Nat /\ e.state.log_ \in Seq(LogEntry)
  BY StateFields DEF GoodEffect
<1>2. state_' = [state_ EXCEPT ![r] = e.state] /\ ledger' = ledger \o added
  BY DEF Apply, Recorded
<1>3. /\ Len(ledger) \in Nat /\ ledger \in Seq(L) /\ state_[r] \in GoodState
      /\ state_[r].last_executed_op_ <= Len(ledger)
  BY DEF ServersOK
<1>4. k \in Nat /\ k = IF last - Len(ledger) > 0 THEN last - Len(ledger) ELSE 0
  <2>1. last - Len(ledger) \in Int
    BY <1>1, <1>3
  <2>. QED BY <2>1, MaxZero
<1>5. added \in Seq(L) /\ Len(added) = k
  <2>1. ASSUME NEW i \in 1 .. k PROVE Op(e.state.log_[Len(ledger) + i]) \in L
    <3>1. state_[r].last_executed_op_ \in Nat
      BY <1>3, StateFields
    <3>2. Len(ledger) + i \in state_[r].last_executed_op_ + 1 .. last
      BY <1>1, <1>3, <1>4, <3>1
    <3>3. Len(ledger) + i \in DOMAIN e.state.log_
      BY <3>2 DEF GoodEffect
    <3>4. e.state.log_[Len(ledger) + i] \in LogEntry
      BY <1>1, <3>3
    <3>. QED BY <3>4 DEF Op, LogEntry
  <2>. HIDE DEF k
  <2>2. added \in [1 .. k -> L]
    BY <2>1
  <2>. HIDE DEF added, L
  <2>. QED BY <1>4, <2>2, SeqOf
<1>. HIDE DEF added, k, L
<1>6. ledger' \in Seq(L) /\ Len(ledger') = Len(ledger) + k
  BY <1>2, <1>3, <1>5, ConcatSeq
<1>7. ASSUME NEW q \in Replicas
      PROVE  state_'[q] \in GoodState /\ state_'[q].last_executed_op_ <= Len(ledger')
  <2>1. CASE q = r
    <3>1. state_'[q] = e.state
      BY <1>2, <2>1 DEF ServersOK
    <3>2. last <= Len(ledger) + k
      BY <1>1, <1>3, <1>4
    <3>. QED BY <1>1, <1>6, <3>1, <3>2
  <2>2. CASE q # r
    <3>1. state_'[q] = state_[q]
      BY <1>2, <2>2 DEF ServersOK
    <3>2. /\ state_[q] \in GoodState /\ state_[q].last_executed_op_ \in Nat
          /\ state_[q].last_executed_op_ <= Len(ledger)
      BY StateFields DEF ServersOK
    <3>. QED BY <1>3, <1>4, <1>6, <3>1, <3>2
  <2>. QED BY <2>1, <2>2
<1>8. state_' \in [Replicas -> GoodState]
  BY <1>2, <1>7 DEF ServersOK
<1>9. channel' \in [Replicas -> [Replicas -> Seq(GoodPeerMessage)]]
  BY SentGood DEF ServersOK, Apply, GoodEffect
<1>10. replies' \subseteq Reply
  BY DEF ServersOK, Apply, GoodEffect
<1>. QED BY <1>6, <1>7, <1>8, <1>9, <1>10 DEF ServersOK, L

(* A running replica's view does not go back, and its executions are taken    *)
(* back only by a recovery.                                                   *)
Forward ==
  \A q \in up \cap up' :
    /\ state_'[q].view_ >= state_[q].view_
    /\ state_'[q].last_executed_op_ < state_[q].last_executed_op_
         => state_[q].status_ = "RECOVERY"

(* A handler's effect never takes its replica back. *)
LEMMA ApplyForward ==
  ASSUME ServersOK, ClusterOK, NEW r \in Replicas, NEW e, GoodEffect(state_[r], e),
         Apply(r, e)
  PROVE  Forward
<1>. SUFFICES ASSUME NEW q \in Replicas
              PROVE  /\ state_'[q].view_ >= state_[q].view_
                     /\ state_'[q].last_executed_op_ < state_[q].last_executed_op_
                          => state_[q].status_ = "RECOVERY"
  BY DEF Forward, ClusterOK
<1>1. state_' = [state_ EXCEPT ![r] = e.state] /\ state_ \in [Replicas -> GoodState]
  BY DEF Apply, ServersOK
<1>2. CASE q = r
  <2>1. state_'[q] = e.state
    BY <1>1, <1>2
  <2>. QED BY <1>2, <2>1 DEF GoodEffect
<1>3. CASE q # r
  <2>1. state_'[q] = state_[q]
    BY <1>1, <1>3
  <2>2. state_[q].view_ \in Nat /\ state_[q].last_executed_op_ \in Nat
    BY <1>1, StateFields
  <2>. QED BY <2>1, <2>2
<1>. QED BY <1>2, <1>3

(* A step that leaves state_ alone is forward. *)
LEMMA SameStateForward ==
  ASSUME ServersOK, ClusterOK, state_' = state_
  PROVE  Forward
<1>1. ASSUME NEW q \in up PROVE state_[q].view_ \in Nat /\ state_[q].last_executed_op_ \in Nat
  BY StateFields DEF ServersOK, ClusterOK
<1>. QED BY <1>1 DEF Forward

(* The message at the head of a queue is good. *)
LEMMA FrontGood ==
  ASSUME LoopsOK, NEW r \in Replicas, HasMessage(r)
  PROVE  Front(r) \in GoodInbound
<1>1. message_queue_[r] \in Seq(GoodInbound) /\ message_queue_[r] # << >>
  BY DEF LoopsOK, HasMessage
<1>. QED BY <1>1 DEF Front

(* pop_front of a good queue. *)
LEMMA PopGood ==
  ASSUME LoopsOK, ClusterOK, NEW r \in Replicas, HasMessage(r), Pop(r)
  PROVE  LoopsOK' /\ ClusterOK'
<1>1. Tail(message_queue_[r]) \in Seq(GoodInbound)
  <2>1. message_queue_[r] \in Seq(GoodInbound) /\ message_queue_[r] # << >>
    BY DEF LoopsOK, HasMessage
  <2>. QED BY <2>1
<1>2. LoopsOK'
  BY <1>1 DEF LoopsOK, Pop
<1>3. ClusterOK'
  BY DEF ClusterOK, Pop, clusterVars
<1>. QED BY <1>2, <1>3

(* What process_message_queue has checked about the message it dispatches. *)
LEMMA DispatchChecks ==
  ASSUME ServersOK, LoopsOK, NEW r \in Replicas, NEW command, Dispatch(r, command)
  PROVE  /\ state_[r] \in GoodState
         /\ Front(r) \in GoodInbound
         /\ Front(r).message \in Matching
         /\ Front(r).message.command_ = command
         /\ command \in {"start_view_change", "do_view_change", "start_view"}
              => state_[r].status_ = "VIEW_CHANGE"
         /\ command = "start_view" => Front(r).message.view = state_[r].view_
         /\ command = "recovery_response" =>
              /\ state_[r].status_ = "RECOVERY"
              /\ Front(r).message.view >= state_[r].view_
<1>. DEFINE s == state_[r]
            m == Front(r).message
<1>1. HasMessage(r) /\ m.command_ = command /\ ~ Stale(s, m) /\ can_process(r, s, m)
  BY DEF Dispatch
<1>2. s \in GoodState /\ Front(r) \in GoodInbound /\ m \in Matching /\ m \in Message
  BY <1>1, FrontGood, InboundFields DEF ServersOK
<1>3. s.view_ \in Nat /\ m.view \in Nat
  BY <1>2, StateFields, MessageFields
<1>. HIDE DEF s, m
<1>4. command = "start_view_change" => s.status_ = "VIEW_CHANGE"
  BY <1>1 DEF can_process, check_can_process_start_view_change
<1>5. command = "do_view_change" => s.status_ = "VIEW_CHANGE"
  BY <1>1 DEF can_process, check_can_process_do_view_change
<1>6. command = "start_view" => s.status_ = "VIEW_CHANGE" /\ m.view = s.view_
  BY <1>1 DEF can_process, check_can_process_start_view
<1>7. command = "recovery_response" => s.status_ = "RECOVERY"
  BY <1>1 DEF can_process, check_can_process_recovery_response
<1>8. command = "recovery_response" => m.view >= s.view_
  BY <1>1, <1>3 DEF Stale
<1>. QED BY <1>1, <1>2, <1>4, <1>5, <1>6, <1>7, <1>8 DEF s, m

(* The effect of a dispatched message is good. *)
LEMMA HandledGood ==
  ASSUME ServersOK, LoopsOK, ClusterOK, NEW r \in Replicas, NEW command,
         Dispatch(r, command), NEW e, GoodEffect(state_[r], e), Apply(r, e)
  PROVE  IInv' /\ Forward
<1>1. HasMessage(r) /\ Pop(r)
  BY DEF Dispatch
<1>2. ServersOK'
  BY ApplyGood
<1>3. LoopsOK' /\ ClusterOK'
  BY <1>1, PopGood
<1>4. Forward
  BY ApplyForward
<1>5. IInv'
  BY <1>2, <1>3, GoodTypes DEF IInv, TypeOK, ServersOK, LoopsOK, ClusterOK
<1>. QED BY <1>4, <1>5

(* Each handler's step, one message of a pass. *)
LEMMA HandlersGood ==
  ASSUME IInv, NEW r \in Replicas,
         \/ HandlePing(r) \/ HandleRequest(r) \/ HandlePrepare(r) \/ HandlePrepareOk(r)
         \/ HandleCommit(r) \/ HandleStartViewChange(r) \/ HandleDoViewChange(r)
         \/ HandleStartView(r) \/ HandleRecoveryRequest(r) \/ HandleRecoveryResponse(r)
  PROVE  IInv' /\ Forward
<1>1. ServersOK /\ LoopsOK /\ ClusterOK
  BY IInvParts
<1>2. CASE HandlePing(r)
  <2>1. Dispatch(r, "ping") /\ Apply(r, handle_ping(r, state_[r], Front(r)))
    BY <1>2 DEF HandlePing
  <2>2. GoodEffect(state_[r], handle_ping(r, state_[r], Front(r)))
    BY <1>1, <2>1, DispatchChecks, handle_ping_Good
  <2>. QED BY <1>1, <2>1, <2>2, HandledGood
<1>3. CASE HandleRequest(r)
  <2>1. Dispatch(r, "request") /\ Apply(r, handle_request(r, state_[r], Front(r)))
    BY <1>3 DEF HandleRequest
  <2>2. GoodEffect(state_[r], handle_request(r, state_[r], Front(r)))
    BY <1>1, <2>1, DispatchChecks, handle_request_Good
  <2>. QED BY <1>1, <2>1, <2>2, HandledGood
<1>4. CASE HandlePrepare(r)
  <2>1. Dispatch(r, "prepare") /\ Apply(r, handle_prepare(r, state_[r], Front(r)))
    BY <1>4 DEF HandlePrepare
  <2>2. GoodEffect(state_[r], handle_prepare(r, state_[r], Front(r)))
    BY <1>1, <2>1, DispatchChecks, handle_prepare_Good
  <2>. QED BY <1>1, <2>1, <2>2, HandledGood
<1>5. CASE HandlePrepareOk(r)
  <2>1. Dispatch(r, "prepare_ok") /\ Apply(r, handle_prepare_ok(r, state_[r], Front(r)))
    BY <1>5 DEF HandlePrepareOk
  <2>2. GoodEffect(state_[r], handle_prepare_ok(r, state_[r], Front(r)))
    BY <1>1, <2>1, DispatchChecks, handle_prepare_ok_Good
  <2>. QED BY <1>1, <2>1, <2>2, HandledGood
<1>6. CASE HandleCommit(r)
  <2>1. Dispatch(r, "commit") /\ Apply(r, handle_commit(r, state_[r], Front(r)))
    BY <1>6 DEF HandleCommit
  <2>2. GoodEffect(state_[r], handle_commit(r, state_[r], Front(r)))
    BY <1>1, <2>1, DispatchChecks, handle_commit_Good
  <2>. QED BY <1>1, <2>1, <2>2, HandledGood
<1>7. CASE HandleStartViewChange(r)
  <2>1. /\ Dispatch(r, "start_view_change")
        /\ Apply(r, handle_start_view_change(r, state_[r], Front(r)))
    BY <1>7 DEF HandleStartViewChange
  <2>2. GoodEffect(state_[r], handle_start_view_change(r, state_[r], Front(r)))
    BY <1>1, <2>1, DispatchChecks, handle_start_view_change_Good
  <2>. QED BY <1>1, <2>1, <2>2, HandledGood
<1>8. CASE HandleDoViewChange(r)
  <2>1. /\ Dispatch(r, "do_view_change")
        /\ Apply(r, handle_do_view_change(r, state_[r], Front(r).message))
    BY <1>8 DEF HandleDoViewChange
  <2>2. GoodEffect(state_[r], handle_do_view_change(r, state_[r], Front(r).message))
    BY <1>1, <2>1, DispatchChecks, handle_do_view_change_Good
  <2>. QED BY <1>1, <2>1, <2>2, HandledGood
<1>9. CASE HandleStartView(r)
  <2>1. /\ Dispatch(r, "start_view")
        /\ Apply(r, handle_start_view(r, state_[r], Front(r)))
    BY <1>9 DEF HandleStartView
  <2>2. GoodEffect(state_[r], handle_start_view(r, state_[r], Front(r)))
    BY <1>1, <2>1, DispatchChecks, handle_start_view_Good
  <2>. QED BY <1>1, <2>1, <2>2, HandledGood
<1>10. CASE HandleRecoveryRequest(r)
  <2>1. /\ Dispatch(r, "recovery")
        /\ Apply(r, handle_recovery_request(r, state_[r], Front(r)))
    BY <1>10 DEF HandleRecoveryRequest
  <2>2. GoodEffect(state_[r], handle_recovery_request(r, state_[r], Front(r)))
    BY <1>1, <2>1, DispatchChecks, handle_recovery_request_Good
  <2>. QED BY <1>1, <2>1, <2>2, HandledGood
<1>11. CASE HandleRecoveryResponse(r)
  <2>1. /\ Dispatch(r, "recovery_response")
        /\ Apply(r, handle_recovery_response(r, state_[r], Front(r)))
    BY <1>11 DEF HandleRecoveryResponse
  <2>2. GoodEffect(state_[r], handle_recovery_response(r, state_[r], Front(r)))
    BY <1>1, <2>1, DispatchChecks, handle_recovery_response_Good
  <2>. QED BY <1>1, <2>1, <2>2, HandledGood
<1>. QED BY <1>2, <1>3, <1>4, <1>5, <1>6, <1>7, <1>8, <1>9, <1>10, <1>11

-----------------------------------------------------------------------------
(* The other steps *)

(* Steps that take nothing from or put nothing into a queue but good messages  *)
(* and leave the replicas' states alone.                                       *)
LEMMA QuietStepGood ==
  ASSUME IInv, ServersOK', LoopsOK', ClusterOK', state_' = state_
  PROVE  IInv' /\ Forward
<1>1. ServersOK /\ ClusterOK
  BY IInvParts
<1>2. Forward
  BY <1>1, SameStateForward
<1>3. IInv'
  BY GoodTypes DEF IInv, TypeOK, ServersOK, LoopsOK, ClusterOK
<1>. QED BY <1>2, <1>3

(* Passes: starting one, discarding a stale message, going back to the loop. *)
LEMMA PassGood ==
  ASSUME IInv, NEW r \in Replicas,
         StartPass(r) \/ DiscardStale(r) \/ EndIterationWaiting(r)
  PROVE  IInv' /\ Forward
<1>1. ServersOK /\ LoopsOK /\ ClusterOK
  BY IInvParts
<1>2. CASE StartPass(r)
  <2>1. ServersOK' /\ ClusterOK' /\ state_' = state_
    BY <1>1, <1>2 DEF ServersOK, ClusterOK, StartPass, clusterVars
  <2>2. posted[r] - 1 \in Nat
    BY <1>1, <1>2 DEF LoopsOK, StartPass
  <2>3. LoopsOK'
    BY <1>1, <1>2, <2>2 DEF LoopsOK, StartPass
  <2>. QED BY <2>1, <2>3, QuietStepGood
<1>3. CASE DiscardStale(r)
  <2>1. ServersOK' /\ state_' = state_
    BY <1>1, <1>3 DEF ServersOK, DiscardStale
  <2>2. LoopsOK' /\ ClusterOK'
    BY <1>1, <1>3, PopGood DEF DiscardStale
  <2>. QED BY <2>1, <2>2, QuietStepGood
<1>4. CASE EndIterationWaiting(r)
  <2>1. ServersOK' /\ ClusterOK' /\ state_' = state_
    BY <1>1, <1>4 DEF ServersOK, ClusterOK, EndIterationWaiting, clusterVars
  <2>2. LoopsOK'
    BY <1>1, <1>4 DEF LoopsOK, EndIterationWaiting, EndIteration
  <2>. QED BY <2>1, <2>2, QuietStepGood
<1>. QED BY <1>2, <1>3, <1>4

(* Only a NORMAL replica decides on an action, and a time-out needs one too. *)
LEMMA ViewChangeGood ==
  ASSUME IInv, NEW r \in Replicas, EndIterationJoining(r) \/ CheckPrimaryLiveness(r)
  PROVE  IInv' /\ Forward
<1>. DEFINE e == initiate_view_change(r, state_[r])
<1>1. ServersOK /\ LoopsOK /\ ClusterOK
  BY IInvParts
<1>2. state_[r].status_ = "NORMAL" /\ Apply(r, e)
  BY DEF EndIterationJoining, StuckAction, CheckPrimaryLiveness
<1>3. GoodEffect(state_[r], e)
  BY <1>1, <1>2, initiate_view_change_Good DEF ServersOK
<1>. HIDE DEF e
<1>4. ServersOK' /\ Forward
  BY <1>1, <1>2, <1>3, ApplyGood, ApplyForward
<1>5. LoopsOK' /\ ClusterOK'
  <2>1. CASE EndIterationJoining(r)
    BY <1>1, <2>1 DEF LoopsOK, ClusterOK, EndIterationJoining, EndIteration, clusterVars
  <2>2. CASE CheckPrimaryLiveness(r)
    <3>1. budget.timeouts - 1 \in Nat
      BY <1>1, <2>2 DEF ClusterOK, CheckPrimaryLiveness
    <3>2. LoopsOK'
      BY <1>1, <2>2 DEF LoopsOK, CheckPrimaryLiveness
    <3>3. ClusterOK'
      BY <1>1, <2>2, <3>1 DEF ClusterOK, CheckPrimaryLiveness
    <3>. QED BY <3>2, <3>3
  <2>. QED BY <2>1, <2>2
<1>6. IInv'
  BY <1>4, <1>5, GoodTypes DEF IInv, TypeOK, ServersOK, LoopsOK, ClusterOK
<1>. QED BY <1>4, <1>6

(* The end of a pass that decides to recover. *)
LEMMA RecoveringGood ==
  ASSUME IInv, NEW r \in Replicas, EndIterationRecovering(r)
  PROVE  IInv' /\ Forward
<1>. DEFINE e == initiate_recovery(r, state_[r], nonces'[r])
<1>1. ServersOK /\ LoopsOK /\ ClusterOK
  BY IInvParts
<1>2. nonces' = [nonces EXCEPT ![r] = @ + 1] /\ Apply(r, e)
  BY DEF EndIterationRecovering
<1>3. nonces' \in [Replicas -> Nat] /\ nonces'[r] \in Nat
  BY <1>1, <1>2 DEF ClusterOK
<1>4. GoodEffect(state_[r], e)
  BY <1>1, <1>3, initiate_recovery_Good DEF ServersOK
<1>. HIDE DEF e
<1>5. ServersOK' /\ Forward
  BY <1>1, <1>2, <1>4, ApplyGood, ApplyForward
<1>6. LoopsOK'
  <2>1. << >> \in Seq(GoodInbound)
    OBVIOUS
  <2>. QED BY <1>1, <2>1 DEF LoopsOK, EndIterationRecovering, EndIteration
<1>7. ClusterOK'
  BY <1>1, <1>3 DEF ClusterOK, EndIterationRecovering
<1>8. IInv'
  BY <1>5, <1>6, <1>7, GoodTypes DEF IInv, TypeOK, ServersOK, LoopsOK, ClusterOK
<1>. QED BY <1>5, <1>8

(* The primary's commit broadcast. *)
LEMMA HeartbeatGood ==
  ASSUME IInv, NEW r \in Replicas, Heartbeat(r)
  PROVE  IInv' /\ Forward
<1>. DEFINE out == broadcast_to_peers(CommitMessage(state_[r]))
<1>1. ServersOK /\ LoopsOK /\ ClusterOK
  BY IInvParts
<1>2. << >> \in Seq(GoodPeerMessage)
  OBVIOUS
<1>3. out \in [Replicas -> Seq(GoodPeerMessage)]
  BY <1>1, <1>2, CommitMessageGood, SendsType DEF ServersOK
<1>4. channel' = Sent(r, out)
  BY DEF Heartbeat
<1>. HIDE DEF out
<1>5. channel' \in [Replicas -> [Replicas -> Seq(GoodPeerMessage)]]
  BY <1>1, <1>3, <1>4, SentGood DEF ServersOK
<1>6. ServersOK' /\ state_' = state_
  BY <1>1, <1>5 DEF ServersOK, Heartbeat
<1>7. LoopsOK' /\ ClusterOK'
  BY <1>1 DEF LoopsOK, ClusterOK, Heartbeat, clusterVars
<1>. QED BY <1>6, <1>7, QuietStepGood

(* A good message put into a queue. *)
LEMMA enqueue_message_Good ==
  ASSUME LoopsOK, NEW r \in Replicas, NEW inbound \in GoodInbound,
         enqueue_message(r, inbound), UNCHANGED <<running, processed_in_pass>>
  PROVE  LoopsOK'
<1>1. Append(message_queue_[r], inbound) \in Seq(GoodInbound)
  BY DEF LoopsOK
<1>2. posted[r] + 1 \in Nat
  BY DEF LoopsOK
<1>. QED BY <1>1, <1>2 DEF LoopsOK, enqueue_message

(* A message that is good once the client has stamped it. *)
ClientMessage(m) ==
  \A c \in ClientIds, n \in Nat :
    /\ [m EXCEPT !.client = c, !.request = n] \in Matching
    /\ FromClient([m EXCEPT !.client = c, !.request = n])
    /\ [m EXCEPT !.client = c, !.request = n].client = c

(* A client's message. *)
LEMMA ClientSendGood ==
  ASSUME IInv, NEW p \in ClientProcesses, NEW r \in Replicas, NEW m,
         ClientSend(p, r, m), ClientMessage(m)
  PROVE  IInv' /\ Forward
<1>. DEFINE sent == [m EXCEPT !.client = self_client_id[p], !.request = next_request[p]]
            inbound == [connection |-> p, message |-> sent]
<1>1. ServersOK /\ LoopsOK /\ ClusterOK
  BY IInvParts
<1>2. self_client_id[p] \in ClientIds /\ next_request[p] \in Nat
  BY <1>1, InputAssumption DEF ClusterOK
<1>3. sent \in Matching /\ FromClient(sent) /\ sent.client \in ClientIds
  BY <1>2 DEF ClientMessage
<1>. HIDE DEF sent
<1>4. inbound \in GoodInbound
  BY <1>3 DEF GoodInbound, InboundMessage, Matching, Connection
<1>5. enqueue_message(r, inbound) /\ UNCHANGED <<running, processed_in_pass>>
  BY DEF ClientSend, sent
<1>. HIDE DEF inbound
<1>6. LoopsOK'
  BY <1>1, <1>4, <1>5, enqueue_message_Good
<1>7. ServersOK' /\ state_' = state_
  BY <1>1 DEF ServersOK, ClientSend
<1>8. ClusterOK'
  <2>1. next_request[p] + 1 \in Nat
    BY <1>2
  <2>2. next_request' = [next_request EXCEPT ![p] = next_request[p] + 1]
    BY DEF ClientSend
  <2>3. next_request' \in [ClientProcesses -> Nat]
    BY <1>1, <2>1, <2>2 DEF ClusterOK
  <2>. QED BY <1>1, <2>3 DEF ClusterOK, ClientSend
<1>. QED BY <1>6, <1>7, <1>8, QuietStepGood

(* A ping carries the stamp and nothing else. *)
LEMMA ClientPingGood ==
  ASSUME IInv, NEW p \in ClientProcesses, NEW r \in Replicas,
         ClientPing(p, r)
  PROVE  IInv' /\ Forward
<1>. DEFINE m == Blank("ping")
<1>1. << >> \in Seq(LogEntry)
  OBVIOUS
<1>2. ASSUME NEW c \in ClientIds, NEW n \in Nat
      PROVE  /\ [m EXCEPT !.client = c, !.request = n] \in Matching
             /\ FromClient([m EXCEPT !.client = c, !.request = n])
             /\ [m EXCEPT !.client = c, !.request = n].client = c
  BY <1>1, ReplicaZero DEF Blank, Matching, CarriesLog, Message, Command, FromClient
<1>3. ClientMessage(m)
  BY <1>2 DEF ClientMessage
<1>4. ClientSend(p, r, m)
  BY DEF ClientPing
<1>. HIDE DEF m
<1>. QED BY <1>3, <1>4, ClientSendGood

(* A request carries an operation. *)
LEMMA ClientRequestGood ==
  ASSUME IInv, NEW p \in ClientProcesses, NEW r \in Replicas, NEW operation \in Operation,
         ClientRequest(p, r, operation)
  PROVE  IInv' /\ Forward
<1>. DEFINE m == [Blank("request") EXCEPT !.operation_ = operation]
<1>1. << >> \in Seq(LogEntry)
  OBVIOUS
<1>2. ASSUME NEW c \in ClientIds, NEW n \in Nat
      PROVE  /\ [m EXCEPT !.client = c, !.request = n] \in Matching
             /\ FromClient([m EXCEPT !.client = c, !.request = n])
             /\ [m EXCEPT !.client = c, !.request = n].client = c
  BY <1>1, ReplicaZero DEF Blank, Matching, CarriesLog, Message, Command, FromClient
<1>3. ClientMessage(m)
  BY <1>2 DEF ClientMessage
<1>4. ClientSend(p, r, m)
  BY DEF ClientRequest
<1>. HIDE DEF m
<1>. QED BY <1>3, <1>4, ClientSendGood

(* A message delivered from a peer. *)
LEMMA DeliverGood ==
  ASSUME IInv, NEW a \in Replicas, NEW r \in Replicas, Deliver(a, r)
  PROVE  IInv' /\ Forward
<1>. DEFINE inbound == [connection |-> IF {a, r} \in link THEN a ELSE Closed,
                        message |-> Head(channel[a][r])]
<1>1. ServersOK /\ LoopsOK /\ ClusterOK
  BY IInvParts
<1>2. channel[a][r] \in Seq(GoodPeerMessage) /\ channel[a][r] # << >>
  BY <1>1 DEF ServersOK, Deliver
<1>3. Head(channel[a][r]) \in GoodPeerMessage /\ Tail(channel[a][r]) \in Seq(GoodPeerMessage)
  BY <1>2
<1>4. inbound \in GoodInbound
  BY <1>3 DEF GoodInbound, InboundMessage, GoodPeerMessage, PeerMessage, Matching, Connection
<1>5. enqueue_message(r, inbound) /\ UNCHANGED <<running, processed_in_pass>>
  BY DEF Deliver
<1>. HIDE DEF inbound
<1>6. LoopsOK'
  BY <1>1, <1>4, <1>5, enqueue_message_Good
<1>7. channel' \in [Replicas -> [Replicas -> Seq(GoodPeerMessage)]]
  BY <1>1, <1>3 DEF ServersOK, Deliver
<1>8. ServersOK' /\ state_' = state_
  BY <1>1, <1>7 DEF ServersOK, Deliver
<1>9. ClusterOK'
  BY <1>1 DEF ClusterOK, Deliver, clusterVars
<1>. QED BY <1>6, <1>8, <1>9, QuietStepGood

(* A lost connection cuts channels short and closes the connections of queued *)
(* messages between the two replicas; clients' messages are not touched.      *)
LEMMA LinkDownGood ==
  ASSUME IInv, NEW a \in Replicas, NEW b \in Replicas, LinkDown(a, b)
  PROVE  IInv' /\ Forward
<1>1. ServersOK /\ LoopsOK /\ ClusterOK
  BY IInvParts
<1>2. PICK i \in 0 .. Len(channel[a][b]), j \in 0 .. Len(channel[b][a]) :
        Broken(a, b, [x \in {a, b} |-> IF x = a THEN i ELSE j])
  BY DEF LinkDown
<1>. DEFINE kept == [x \in {a, b} |-> IF x = a THEN i ELSE j]
            Cut(from, to) == IF to \in up THEN SubSeq(channel[from][to], 1, kept[from])
                             ELSE << >>
<1>3. a # b
  BY DEF LinkDown, Replicas
<1>4. Cut(a, b) \in Seq(GoodPeerMessage) /\ Cut(b, a) \in Seq(GoodPeerMessage)
  <2>1. channel[a][b] \in Seq(GoodPeerMessage) /\ channel[b][a] \in Seq(GoodPeerMessage)
    BY <1>1 DEF ServersOK
  <2>2. kept[a] = i /\ kept[b] = j
    BY <1>3
  <2>3. << >> \in Seq(GoodPeerMessage)
    OBVIOUS
  <2>4. SubSeq(channel[a][b], 1, i) \in Seq(GoodPeerMessage)
    BY <2>1, SubSeqType
  <2>5. SubSeq(channel[b][a], 1, j) \in Seq(GoodPeerMessage)
    BY <2>1, SubSeqType
  <2>. QED BY <2>2, <2>3, <2>4, <2>5
<1>5. channel' = [channel EXCEPT ![a][b] = Cut(a, b), ![b][a] = Cut(b, a)]
  BY <1>2 DEF Broken
<1>. HIDE DEF Cut
<1>6. channel' \in [Replicas -> [Replicas -> Seq(GoodPeerMessage)]]
  BY <1>1, <1>4, <1>5 DEF ServersOK
<1>7. ServersOK' /\ state_' = state_
  BY <1>1, <1>6 DEF ServersOK, LinkDown
<1>8. message_queue_' \in [Replicas -> Seq(GoodInbound)]
  <2>. DEFINE Closing(r, k) ==
                IF r \in {a, b} /\ message_queue_[r][k].connection \in {a, b}
                THEN [message_queue_[r][k] EXCEPT !.connection = Closed]
                ELSE message_queue_[r][k]
  <2>1. message_queue_' = [r \in Replicas |->
                             [k \in DOMAIN message_queue_[r] |-> Closing(r, k)]]
    BY <1>2 DEF Broken
  <2>2. ASSUME NEW r \in Replicas
        PROVE  [k \in DOMAIN message_queue_[r] |-> Closing(r, k)] \in Seq(GoodInbound)
    <3>1. /\ message_queue_[r] \in Seq(GoodInbound)
          /\ Len(message_queue_[r]) \in Nat
          /\ DOMAIN message_queue_[r] = 1 .. Len(message_queue_[r])
      BY <1>1 DEF LoopsOK
    <3>2. ASSUME NEW k \in 1 .. Len(message_queue_[r])
          PROVE  Closing(r, k) \in GoodInbound
      <4>1. message_queue_[r][k] \in GoodInbound
        BY <3>1
      <4>. QED BY <4>1, ConnectionAssumption DEF GoodInbound, InboundMessage, Connection
    <3>. HIDE DEF Closing
    <3>3. [k \in DOMAIN message_queue_[r] |-> Closing(r, k)]
            \in [1 .. Len(message_queue_[r]) -> GoodInbound]
      BY <3>1, <3>2
    <3>. QED BY <3>1, <3>3, SeqOf
  <2>. HIDE DEF Closing
  <2>. QED BY <2>1, <2>2
<1>9. LoopsOK'
  BY <1>1, <1>8 DEF LoopsOK, LinkDown
<1>10. ClusterOK'
  <2>1. link' \subseteq Pairs
    BY <1>1, <1>2 DEF Broken, ClusterOK
  <2>2. budget' \in [timeouts : Nat, drops : Nat, crashes : Nat, restarts : Nat]
    <3>1. budget.drops \in Nat /\ ({a, b} \subseteq up => budget.drops - 1 \in Nat)
      BY <1>1 DEF ClusterOK, LinkDown
    <3>. QED BY <1>1, <3>1 DEF ClusterOK, LinkDown
  <2>. QED BY <1>1, <2>1, <2>2 DEF ClusterOK, LinkDown
<1>. QED BY <1>7, <1>9, <1>10, QuietStepGood

(* A connection made again. *)
LEMMA LinkUpGood ==
  ASSUME IInv, NEW a \in Replicas, NEW b \in Replicas, LinkUp(a, b)
  PROVE  IInv' /\ Forward
<1>1. ServersOK /\ LoopsOK /\ ClusterOK
  BY IInvParts
<1>2. ServersOK' /\ state_' = state_
  BY <1>1 DEF ServersOK, LinkUp
<1>3. LoopsOK'
  BY <1>1 DEF LoopsOK, LinkUp
<1>4. link' \subseteq Pairs
  <2>1. a # b
    BY DEF LinkUp, Replicas
  <2>2. {a, b} \in Pairs
    BY <2>1 DEF Pairs
  <2>. QED BY <1>1, <2>2 DEF LinkUp, ClusterOK
<1>5. ClusterOK'
  BY <1>1, <1>4 DEF ClusterOK, LinkUp
<1>. QED BY <1>2, <1>3, <1>5, QuietStepGood

(* A process that dies keeps nothing, and its next life starts fresh: what    *)
(* Forward says is about processes that live through the step.                *)
LEMMA CrashGood ==
  ASSUME IInv, NEW r \in Replicas, Crash(r)
  PROVE  IInv' /\ Forward
<1>1. ServersOK /\ LoopsOK /\ ClusterOK
  BY IInvParts
<1>2. ServersOK' /\ state_' = state_
  BY <1>1 DEF ServersOK, Crash
<1>3. LoopsOK'
  <2>1. << >> \in Seq(GoodInbound)
    OBVIOUS
  <2>. QED BY <1>1, <2>1 DEF LoopsOK, Crash
<1>4. ClusterOK'
  <2>1. budget.crashes - 1 \in Nat
    BY <1>1 DEF ClusterOK, Crash
  <2>2. budget' = [budget EXCEPT !.crashes = budget.crashes - 1]
    BY DEF Crash
  <2>3. budget' \in [timeouts : Nat, drops : Nat, crashes : Nat, restarts : Nat]
    BY <1>1, <2>1, <2>2 DEF ClusterOK
  <2>. QED BY <1>1, <2>3 DEF ClusterOK, Crash
<1>. QED BY <1>2, <1>3, <1>4, QuietStepGood

(* A new process with fresh members. *)
LEMMA RestartGood ==
  ASSUME IInv, NEW r \in Replicas, Restart(r)
  PROVE  IInv' /\ Forward
<1>1. ServersOK /\ LoopsOK /\ ClusterOK
  BY IInvParts
<1>2. state_' = [state_ EXCEPT ![r] = FreshState] /\ state_' \in [Replicas -> GoodState]
  BY <1>1, FreshStateGood DEF ServersOK, Restart
<1>3. ServersOK'
  <2>1. FreshState.last_executed_op_ = 0 /\ Len(ledger) \in Nat
    BY <1>1 DEF FreshState, ServersOK
  <2>2. \A q \in Replicas : state_'[q].last_executed_op_ <= Len(ledger)
    BY <1>1, <1>2, <2>1 DEF ServersOK
  <2>. QED BY <1>1, <1>2, <2>2 DEF ServersOK, Restart
<1>4. LoopsOK'
  BY <1>1 DEF LoopsOK, Restart
<1>5. ClusterOK'
  <2>1. budget.restarts - 1 \in Nat
    BY <1>1 DEF ClusterOK, Restart
  <2>2. budget' = [budget EXCEPT !.restarts = budget.restarts - 1]
    BY DEF Restart
  <2>3. budget' \in [timeouts : Nat, drops : Nat, crashes : Nat, restarts : Nat]
    BY <1>1, <2>1, <2>2 DEF ClusterOK
  <2>. QED BY <1>1, <2>3 DEF ClusterOK, Restart
<1>6. Forward
  <2>1. ASSUME NEW q \in up \cap up'
        PROVE  state_'[q] = state_[q] /\ state_[q] \in GoodState
    BY <1>1, <1>2 DEF Restart, ServersOK, ClusterOK
  <2>2. ASSUME NEW q \in up \cap up'
        PROVE  state_[q].view_ \in Nat /\ state_[q].last_executed_op_ \in Nat
    BY <2>1, StateFields
  <2>. QED BY <2>1, <2>2 DEF Forward
<1>7. IInv'
  BY <1>3, <1>4, <1>5, GoodTypes DEF IInv, TypeOK, ServersOK, LoopsOK, ClusterOK
<1>. QED BY <1>6, <1>7

-----------------------------------------------------------------------------
(* The theorems *)

(* Every step of the cluster keeps IInv and moves running replicas forward. *)
LEMMA NextGood ==
  ASSUME IInv, Next
  PROVE  IInv' /\ Forward
<1>1. ASSUME NEW r \in Replicas, StartPass(r) \/ PassStep(r)
      PROVE  IInv' /\ Forward
  BY <1>1, PassGood, HandlersGood, ViewChangeGood, RecoveringGood DEF PassStep
<1>2. ASSUME NEW r \in Replicas,
             \/ Heartbeat(r) \/ CheckPrimaryLiveness(r) \/ Crash(r) \/ Restart(r)
      PROVE  IInv' /\ Forward
  BY <1>2, HeartbeatGood, ViewChangeGood, CrashGood, RestartGood
<1>3. ASSUME NEW a \in Replicas, NEW b \in Replicas,
             Deliver(a, b) \/ LinkDown(a, b) \/ LinkUp(a, b)
      PROVE  IInv' /\ Forward
  BY <1>3, DeliverGood, LinkDownGood, LinkUpGood
<1>4. ASSUME NEW p \in ClientProcesses, NEW r \in PingTargets, ClientPing(p, r)
      PROVE  IInv' /\ Forward
  <2>1. r \in Replicas
    BY InputAssumption
  <2>. QED BY <1>4, <2>1, ClientPingGood
<1>5. ASSUME NEW p \in ClientProcesses, NEW r \in Targets, NEW operation \in Requests,
             ClientRequest(p, r, operation)
      PROVE  IInv' /\ Forward
  <2>1. r \in Replicas /\ operation \in Operation
    BY InputAssumption
  <2>. QED BY <1>5, <2>1, ClientRequestGood
<1>. QED BY <1>1, <1>2, <1>3, <1>4, <1>5 DEF Next

(* A step that changes nothing. *)
LEMMA StutterGood ==
  ASSUME IInv, UNCHANGED vars
  PROVE  IInv'
<1>1. ServersOK /\ LoopsOK /\ ClusterOK
  BY IInvParts
<1>2. ServersOK' /\ LoopsOK' /\ ClusterOK'
  BY <1>1 DEF ServersOK, LoopsOK, ClusterOK, vars, clusterVars
<1>3. state_' = state_
  BY DEF vars
<1>. QED BY <1>2, <1>3, QuietStepGood

(* The inductive invariant: the logs and op numbers in states, queues and     *)
(* channels agree, recovery never adopts an earlier view, and no replica has   *)
(* executed more than the ledger records.                                      *)
THEOREM InvariantHolds == Spec => []IInv
<1>1. Init => IInv
  BY InitIInv
<1>2. IInv /\ [Next]_vars => IInv'
  BY NextGood, StutterGood
<1>. QED BY <1>1, <1>2, PTL DEF Spec

(* Every variable has its type, for clusters of any size and any bounds. *)
THEOREM TypeCorrect == Spec => []TypeOK
<1>1. IInv => TypeOK
  BY DEF IInv
<1>. QED BY <1>1, InvariantHolds, PTL

(* A replica's op_ is the length of its log, after every handler, view change *)
(* and recovery: insertion at op_ + 1 never leaves a gap nor overwrites.      *)
THEOREM LogMatchesOpHolds == Spec => []LogMatchesOp
<1>1. IInv => LogMatchesOp
  BY DEF IInv, LogMatchesOp, GoodState
<1>. QED BY <1>1, InvariantHolds, PTL

(* No handler takes a running replica back to an earlier view. *)
THEOREM ViewsAdvance == Spec => ViewNeverDecreases
<1>1. IInv /\ [Next]_vars
        => [\A r \in up \cap up' : state_'[r].view_ >= state_[r].view_]_vars
  BY NextGood DEF Forward
<1>. QED BY <1>1, InvariantHolds, PTL DEF Spec, ViewNeverDecreases

(* No handler takes back an execution, but the end of a recovery. *)
THEOREM ExecutionsStay == Spec => ExecutionNeverDecreases
<1>1. IInv /\ [Next]_vars
        => [\A r \in up \cap up' :
              state_'[r].last_executed_op_ < state_[r].last_executed_op_
                => state_[r].status_ = "RECOVERY"]_vars
  BY NextGood DEF Forward
<1>. QED BY <1>1, InvariantHolds, PTL DEF Spec, ExecutionNeverDecreases
=============================================================================
