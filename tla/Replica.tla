------------------------------ MODULE Replica -------------------------------
(***************************************************************************)
(* A cluster of vsr-kv servers: the replicas' states and message queues,    *)
(* the FIFO connections between them, their timers, and the clients that    *)
(* send requests.  Each server runs on one event loop, so callbacks of a    *)
(* server never overlap; a call of process_message_queue is a sequence of   *)
(* steps, one per message.  No other server moves meanwhile; that loses     *)
(* nothing, since a pass touches only the server's own state and the tails   *)
(* of its own outgoing connections.                                         *)
(***************************************************************************)
EXTENDS ReplicaHandlers

CONSTANTS
  self_client_id,   \* the client id each client process puts in its messages
  Requests,         \* the operations clients may ask for, a subset of Operation
  Targets,          \* the replicas clients may send requests to
  PingTargets,      \* the replicas clients may ping
  InitialLinks,     \* the connections made before the first message is sent
  CrashTargets,     \* the replicas whose process may be killed
  MaxRequests,      \* requests and pings each client process sends
  MaxTimeouts,      \* expiries of primary_timeout_, over all replicas
  MaxDrops,         \* connections lost between live replicas
  MaxCrashes,       \* processes killed
  MaxRestarts,      \* killed processes started again
  MaxInFlight,      \* a heartbeat waits while a channel holds this many messages
  MaxQueue,         \* messages wait in the channel while a queue is this long
  MaxPosted         \* or while this many calls of process_message_queue wait

(* Two replicas' ids as one connection. *)
Pairs == {{a, b} : a, b \in Replicas} \ {{a} : a \in Replicas}

ASSUME InputAssumption ==
  /\ self_client_id \in [ClientProcesses -> ClientIds]
  /\ Requests \subseteq Operation
  /\ InitialLinks \subseteq Pairs
  /\ Targets \cup PingTargets \cup CrashTargets \subseteq Replicas
  /\ {MaxRequests, MaxTimeouts, MaxDrops, MaxCrashes, MaxRestarts} \subseteq Nat

VARIABLES
  state_,          \* [Replicas -> ReplicaState]: the members of class ReplicaState
  message_queue_,  \* [Replicas -> Seq(InboundMessage)]
  posted,          \* calls of process_message_queue waiting in each event loop
  running,         \* the replica inside process_message_queue, or NoReplica
  processed_in_pass,
  channel,         \* channel[a][b]: bytes sent by a that b has not read yet
  link,            \* the pairs of replicas with an identified TCP connection
  up,              \* the replicas whose process runs
  next_request,    \* next_request_number of each client process
  nonces,          \* nonces drawn by each replica so far
  budget,          \* what is left of the bounds on faults
  replies,         \* history: every reply and pong sent to a client
  ledger           \* history: the operations executed anywhere, by op number

clusterVars == <<link, up, next_request, nonces, budget>>
vars == <<state_, message_queue_, posted, running, processed_in_pass, channel,
          clusterVars, replies, ledger>>

NoReplica == -1

(* What identifies an operation in the log, whoever holds the entry. *)
Op(e) == [operation |-> e.operation, client_id |-> e.client_id,
          request_num |-> e.request_num]

Init ==
  /\ state_ = [r \in Replicas |-> FreshState]
  /\ message_queue_ = [r \in Replicas |-> << >>]
  /\ posted = [r \in Replicas |-> 0]
  /\ running = NoReplica
  /\ processed_in_pass = FALSE
  /\ channel = [a \in Replicas |-> [b \in Replicas |-> << >>]]
  /\ link = InitialLinks
  /\ up = Replicas
  /\ next_request = [p \in ClientProcesses |-> 1]
  /\ nonces = [r \in Replicas |-> 0]
  /\ budget = [timeouts |-> MaxTimeouts, drops |-> MaxDrops,
               crashes |-> MaxCrashes, restarts |-> MaxRestarts]
  /\ replies = {}
  /\ ledger = << >>

-----------------------------------------------------------------------------
(* The event loop of a live server takes its next callback.  From the read    *)
(* that enqueues a message to the end of the pass it posts, only that server  *)
(* moves: reads and passes commute with what the others do meanwhile.         *)
Idle(r) ==
  /\ running = NoReplica
  /\ r \in up
  /\ \A o \in Replicas \ {r} : posted[o] = 0

(* No server is between a read and the end of its pass. *)
Quiet == running = NoReplica /\ \A r \in Replicas : posted[r] = 0

(* out[p] goes to every peer p that r has a connection to; the rest is dropped. *)
Sent(r, out) ==
  [channel EXCEPT ![r] = [p \in Replicas |->
     IF {r, p} \in link /\ p # r THEN channel[r][p] \o out[p] ELSE channel[r][p]]]

(* The ledger after s executed: s's entries past its end are added. *)
Recorded(s) ==
  ledger \o [i \in 1 .. Max({0, s.last_executed_op_ - Len(ledger)}) |->
               Op(s.log_[Len(ledger) + i])]

Apply(r, effect) ==
  /\ state_' = [state_ EXCEPT ![r] = effect.state]
  /\ channel' = Sent(r, effect.out)
  /\ replies' = replies \cup effect.replies
  /\ ledger' = Recorded(effect.state)

enqueue_message(r, inbound) ==
  /\ Len(message_queue_[r]) < MaxQueue
  /\ posted[r] < MaxPosted
  /\ message_queue_' = [message_queue_ EXCEPT ![r] = Append(@, inbound)]
  /\ posted' = [posted EXCEPT ![r] = @ + 1]

-----------------------------------------------------------------------------
(* process_message_queue *)

StartPass(r) ==
  /\ Idle(r)
  /\ posted[r] > 0
  /\ posted' = [posted EXCEPT ![r] = @ - 1]
  /\ running' = r
  /\ processed_in_pass' = FALSE
  /\ UNCHANGED <<state_, message_queue_, channel, clusterVars, replies, ledger>>

HasMessage(r) == running = r /\ message_queue_[r] # << >>

Front(r) == Head(message_queue_[r])

(* pop_front() and processed_in_pass = true. *)
Pop(r) ==
  /\ message_queue_' = [message_queue_ EXCEPT ![r] = Tail(@)]
  /\ processed_in_pass' = TRUE
  /\ UNCHANGED <<posted, running, clusterVars>>

DiscardStale(r) ==
  /\ HasMessage(r)
  /\ Stale(state_[r], Front(r).message)
  /\ Pop(r)
  /\ UNCHANGED <<state_, channel, replies, ledger>>

(* The head is a command that can_process accepts. *)
Dispatch(r, command) ==
  /\ HasMessage(r)
  /\ Front(r).message.command_ = command
  /\ ~ Stale(state_[r], Front(r).message)
  /\ can_process(r, state_[r], Front(r).message)
  /\ Pop(r)

HandlePing(r) ==
  Dispatch(r, "ping") /\ Apply(r, handle_ping(r, state_[r], Front(r)))

HandleRequest(r) ==
  Dispatch(r, "request") /\ Apply(r, handle_request(r, state_[r], Front(r)))

HandlePrepare(r) ==
  Dispatch(r, "prepare") /\ Apply(r, handle_prepare(r, state_[r], Front(r)))

HandlePrepareOk(r) ==
  Dispatch(r, "prepare_ok") /\ Apply(r, handle_prepare_ok(r, state_[r], Front(r)))

HandleCommit(r) ==
  Dispatch(r, "commit") /\ Apply(r, handle_commit(r, state_[r], Front(r)))

HandleStartViewChange(r) ==
  /\ Dispatch(r, "start_view_change")
  /\ Apply(r, handle_start_view_change(r, state_[r], Front(r)))

HandleDoViewChange(r) ==
  /\ Dispatch(r, "do_view_change")
  /\ Apply(r, handle_do_view_change(r, state_[r], Front(r).message))

HandleStartView(r) ==
  Dispatch(r, "start_view") /\ Apply(r, handle_start_view(r, state_[r], Front(r)))

HandleRecoveryRequest(r) ==
  Dispatch(r, "recovery") /\ Apply(r, handle_recovery_request(r, state_[r], Front(r)))

HandleRecoveryResponse(r) ==
  /\ Dispatch(r, "recovery_response")
  /\ Apply(r, handle_recovery_response(r, state_[r], Front(r)))

(* The inner loop is over: nothing queued, or the head cannot be processed. *)
InnerLoopDone(r) ==
  /\ running = r
  /\ message_queue_[r] # << >> =>
       LET m == Front(r).message
       IN  ~ Stale(state_[r], m) /\ ~ can_process(r, state_[r], m)

(* while (processed_in_pass): once more, or back to the event loop. *)
EndIteration(r) ==
  /\ running' = IF processed_in_pass THEN r ELSE NoReplica
  /\ processed_in_pass' = FALSE

(* What a NORMAL replica with a stuck head decides to do. *)
StuckAction(r) ==
  IF message_queue_[r] # << >> /\ state_[r].status_ = "NORMAL"
  THEN determine_state_action(r, state_[r], Front(r).message)
  ELSE "PROCESS_NORMALLY"

EndIterationWaiting(r) ==
  /\ InnerLoopDone(r)
  /\ StuckAction(r) = "PROCESS_NORMALLY"
  /\ EndIteration(r)
  /\ UNCHANGED <<state_, message_queue_, posted, channel, clusterVars, replies, ledger>>

EndIterationJoining(r) ==
  /\ InnerLoopDone(r)
  /\ StuckAction(r) = "INITIATE_VIEW_CHANGE"
  /\ Apply(r, initiate_view_change(r, state_[r]))
  /\ EndIteration(r)
  /\ UNCHANGED <<message_queue_, posted, clusterVars>>

EndIterationRecovering(r) ==
  /\ InnerLoopDone(r)
  /\ StuckAction(r) = "INITIATE_RECOVERY"
  /\ nonces' = [nonces EXCEPT ![r] = @ + 1]
  /\ Apply(r, initiate_recovery(r, state_[r], nonces'[r]))
  /\ message_queue_' = [message_queue_ EXCEPT ![r] = << >>]
  /\ EndIteration(r)
  /\ UNCHANGED <<posted, link, up, next_request, budget>>

PassStep(r) ==
  \/ DiscardStale(r)
  \/ HandlePing(r)
  \/ HandleRequest(r)
  \/ HandlePrepare(r)
  \/ HandlePrepareOk(r)
  \/ HandleCommit(r)
  \/ HandleStartViewChange(r)
  \/ HandleDoViewChange(r)
  \/ HandleStartView(r)
  \/ HandleRecoveryRequest(r)
  \/ HandleRecoveryResponse(r)
  \/ EndIterationWaiting(r)
  \/ EndIterationJoining(r)
  \/ EndIterationRecovering(r)

-----------------------------------------------------------------------------
(* Timers *)

(* schedule_heartbeat's callback.  Beats are 200 ms apart: the network has     *)
(* drained to fewer than MaxInFlight messages per channel before the next one. *)
Heartbeat(r) ==
  /\ Idle(r)
  /\ is_primary(r, state_[r])
  /\ state_[r].status_ = "NORMAL"
  /\ \A a, b \in Replicas : Len(channel[a][b]) < MaxInFlight
  /\ channel' = Sent(r, broadcast_to_peers(CommitMessage(state_[r])))
  /\ UNCHANGED <<state_, message_queue_, posted, running, processed_in_pass,
                 clusterVars, replies, ledger>>

(* check_primary_liveness finding primary_timeout_ expired; no clock is kept, *)
(* so a slow primary or network makes it expire at any time.                  *)
CheckPrimaryLiveness(r) ==
  /\ Idle(r)
  /\ ~ is_primary(r, state_[r])
  /\ state_[r].status_ = "NORMAL"
  /\ budget.timeouts > 0
  /\ budget' = [budget EXCEPT !.timeouts = @ - 1]
  /\ Apply(r, initiate_view_change(r, state_[r]))
  /\ UNCHANGED <<message_queue_, posted, running, processed_in_pass,
                 link, up, next_request, nonces>>

-----------------------------------------------------------------------------
(* Clients and the network *)

(* send_message of the client program: every message takes a new number. *)
ClientSend(p, r, m) ==
  /\ Idle(r)
  /\ next_request[p] <= MaxRequests
  /\ next_request' = [next_request EXCEPT ![p] = @ + 1]
  /\ enqueue_message(r, [connection |-> p,
                         message |-> [m EXCEPT !.client = self_client_id[p],
                                               !.request = next_request[p]]])
  /\ UNCHANGED <<state_, running, processed_in_pass, channel, link, up, nonces,
                 budget, replies, ledger>>

ClientRequest(p, r, operation) ==
  ClientSend(p, r, [Blank("request") EXCEPT !.operation_ = operation])

ClientPing(p, r) == ClientSend(p, r, Blank("ping"))

(* The next complete message from a reaches r's ProtocolHandler. *)
Deliver(a, r) ==
  /\ Idle(r)
  /\ channel[a][r] # << >>
  /\ enqueue_message(r, [connection |-> IF {a, r} \in link THEN a ELSE Closed,
                         message |-> Head(channel[a][r])])
  /\ channel' = [channel EXCEPT ![a][r] = Tail(@)]
  /\ UNCHANGED <<state_, running, processed_in_pass, clusterVars, replies, ledger>>

(* A connection breaks: what was written but not yet read may be lost from    *)
(* some point on, all of it if the reader is dead, and an answer to a queued  *)
(* message has nowhere to go.                                                 *)
Broken(a, b, kept) ==
  LET Cut(from, to) == IF to \in up THEN SubSeq(channel[from][to], 1, kept[from])
                       ELSE << >>
  IN  /\ link' = link \ {{a, b}}
      /\ channel' = [channel EXCEPT ![a][b] = Cut(a, b), ![b][a] = Cut(b, a)]
      /\ message_queue_' = [r \in Replicas |->
           [i \in DOMAIN message_queue_[r] |->
              IF r \in {a, b} /\ message_queue_[r][i].connection \in {a, b}
              THEN [message_queue_[r][i] EXCEPT !.connection = Closed]
              ELSE message_queue_[r][i]]]

LinkDown(a, b) ==
  /\ Quiet
  /\ a < b /\ {a, b} \in link
  /\ budget.drops > 0 \/ ~ {a, b} \subseteq up
  /\ budget' = [budget EXCEPT !.drops = IF {a, b} \subseteq up THEN @ - 1 ELSE @]
  /\ \E i \in 0 .. Len(channel[a][b]), j \in 0 .. Len(channel[b][a]) :
       Broken(a, b, [x \in {a, b} |-> IF x = a THEN i ELSE j])
  /\ UNCHANGED <<state_, posted, running, processed_in_pass, up, next_request,
                 nonces, replies, ledger>>

(* schedule_reconnect, connect and the handshake that identifies the peer. *)
LinkUp(a, b) ==
  /\ Quiet
  /\ a < b /\ {a, b} \notin link
  /\ {a, b} \subseteq up
  /\ link' = link \cup {{a, b}}
  /\ UNCHANGED <<state_, message_queue_, posted, running, processed_in_pass,
                 channel, up, next_request, nonces, budget, replies, ledger>>

(* The process dies; its peers find out when LinkDown follows. *)
Crash(r) ==
  /\ Quiet
  /\ r \in up \cap CrashTargets
  /\ budget.crashes > 0
  /\ budget' = [budget EXCEPT !.crashes = @ - 1]
  /\ up' = up \ {r}
  /\ message_queue_' = [message_queue_ EXCEPT ![r] = << >>]
  /\ UNCHANGED <<state_, posted, running, processed_in_pass, channel, link,
                 next_request, nonces, replies, ledger>>

(* main() again: nothing was persisted, and no recovery is initiated. *)
Restart(r) ==
  /\ Quiet
  /\ r \notin up
  /\ \A p \in Replicas : {r, p} \notin link
  /\ budget.restarts > 0
  /\ budget' = [budget EXCEPT !.restarts = @ - 1]
  /\ up' = up \cup {r}
  /\ state_' = [state_ EXCEPT ![r] = FreshState]
  /\ UNCHANGED <<message_queue_, posted, running, processed_in_pass, channel,
                 link, next_request, nonces, replies, ledger>>

Next ==
  \/ \E r \in Replicas : \/ StartPass(r)
                         \/ PassStep(r)
                         \/ Heartbeat(r)
                         \/ CheckPrimaryLiveness(r)
                         \/ Crash(r)
                         \/ Restart(r)
  \/ \E a, b \in Replicas : \/ Deliver(a, b)
                            \/ LinkDown(a, b)
                            \/ LinkUp(a, b)
  \/ \E p \in ClientProcesses, r \in PingTargets : ClientPing(p, r)
  \/ \E p \in ClientProcesses, r \in Targets, operation \in Requests :
       ClientRequest(p, r, operation)

Spec == Init /\ [][Next]_vars

(* Sockets deliver and the loops of live servers run on. *)
ServerStep ==
  \E r \in Replicas : StartPass(r) \/ PassStep(r) \/ \E a \in Replicas : Deliver(a, r)

(* Some server is inside a pass, has one posted or has a message to read: the  *)
(* states in which ServerStep is enabled, without trying every handler.        *)
ServerBusy ==
  \/ running # NoReplica
  \/ \E r \in Replicas : posted[r] > 0
  \/ \E a, r \in Replicas : /\ channel[a][r] # << >>
                            /\ r \in up
                            /\ Len(message_queue_[r]) < MaxQueue

(* Servers that have something to do go on: weak fairness of ServerStep.       *)
(* Timers fire, lost connections are noticed and made again.  The timeout is   *)
(* fair only where it must expire: the primary's process died.                 *)
Fairness ==
  /\ []<>(~ ServerBusy) \/ []<><<ServerStep>>_vars
  /\ \A r \in Replicas :
       /\ WF_vars(Heartbeat(r))
       /\ WF_vars(CheckPrimaryLiveness(r) /\ get_primary_id(state_[r]) \notin up)
  /\ WF_vars(\E a, b \in Replicas : LinkDown(a, b) /\ ~ {a, b} \subseteq up)
  /\ WF_vars(\E a, b \in Replicas : LinkUp(a, b))

FairSpec == Spec /\ Fairness

-----------------------------------------------------------------------------
(* Properties *)

TypeOK ==
  /\ state_ \in [Replicas -> ReplicaState]
  /\ message_queue_ \in [Replicas -> Seq(InboundMessage)]
  /\ posted \in [Replicas -> Nat]
  /\ running \in Replicas \cup {NoReplica}
  /\ processed_in_pass \in BOOLEAN
  /\ channel \in [Replicas -> [Replicas -> Seq(PeerMessage)]]
  /\ link \subseteq Pairs
  /\ up \subseteq Replicas
  /\ next_request \in [ClientProcesses -> Nat]
  /\ nonces \in [Replicas -> Nat]
  /\ budget \in [timeouts : Nat, drops : Nat, crashes : Nat, restarts : Nat]
  /\ replies \subseteq Reply
  /\ ledger \in Seq([operation : Operation, client_id : ClientIds, request_num : Nat])

(* log_ holds exactly the op numbers 1 .. op_ at every replica, whatever     *)
(* log a view change or a recovery made it adopt: op_ travels in the header  *)
(* and the log in the payload, and handle_prepare and handle_request insert   *)
(* at op_ + 1.                                                               *)
LogMatchesOp == \A r \in Replicas : state_[r].op_ = Len(state_[r].log_)

(* No replica executes another operation at an op number than any replica    *)
(* ever did: what a replica has executed is still in its log, and is what the *)
(* ledger recorded first.                                                     *)
ExecutedAgreement ==
  \A r \in Replicas : \A n \in 1 .. state_[r].last_executed_op_ :
    /\ n \in DOMAIN state_[r].log_
    /\ Op(state_[r].log_[n]) = ledger[n]

(* Replicas NORMAL in the same view have the same operations wherever both   *)
(* have one: handle_prepare, handle_start_view and handle_recovery_response  *)
(* never let two logs of a view fork.                                        *)
SameViewSameLog ==
  \A a, b \in Replicas :
    /\ state_[a].status_ = "NORMAL" /\ state_[b].status_ = "NORMAL"
    /\ state_[a].view_ = state_[b].view_
    => \A n \in DOMAIN state_[a].log_ \cap DOMAIN state_[b].log_ :
         Op(state_[a].log_[n]) = Op(state_[b].log_[n])

(* An operation some replica executed is in the logs of f + 1 replicas, the   *)
(* dead ones' last logs included: view changes and recoveries never replace   *)
(* it away below the quorum that handle_prepare_ok counted.                   *)
LedgerOnQuorum ==
  \A n \in DOMAIN ledger :
    Cardinality({r \in Replicas : /\ n \in DOMAIN state_[r].log_
                                  /\ Op(state_[r].log_[n]) = ledger[n]}) >= Quorum

(* The senders of the messages in a vector whose size stands for a quorum. *)
Senders(messages) == {messages[i].replica : i \in DOMAIN messages}

(* No replica's vote or response is counted twice, although the quorum tests   *)
(* compare the sizes of vectors and never look at senders: what is about to be *)
(* added comes from a replica that is not there yet, the vote that completing  *)
(* a StartViewChange quorum makes the new primary give itself included.        *)
NoDoubleVote ==
  \A r \in Replicas : HasMessage(r) =>
    LET s == state_[r]
        m == Front(r).message
    IN  /\ m.command_ = "do_view_change" /\ ~ Stale(s, m) /\ can_process(r, s, m)
           => m.replica \notin Senders(s.do_view_change_received_)
        /\ /\ m.command_ = "start_view_change" /\ ~ Stale(s, m) /\ can_process(r, s, m)
           /\ Cardinality(s.start_view_change_received_ \cup {m.replica}) >= Quorum
           => r \notin Senders(s.do_view_change_received_)
        /\ /\ m.command_ = "recovery_response" /\ ~ Stale(s, m) /\ can_process(r, s, m)
           /\ m.nonce = s.recovery_nonce_
           => m.replica \notin Senders(s.recovery_responses_)

(* The live NORMAL primary of the newest view has every executed operation:   *)
(* the vote handle_do_view_change picks cannot miss one.                      *)
PrimaryHoldsLedger ==
  \A r \in up :
    /\ state_[r].status_ = "NORMAL" /\ is_primary(r, state_[r])
    /\ \A o \in Replicas : state_[o].view_ <= state_[r].view_
    => /\ Len(ledger) <= Len(state_[r].log_)
       /\ \A n \in DOMAIN ledger : Op(state_[r].log_[n]) = ledger[n]

(* The abstract store this cluster implements. *)
Answers == {reply \in replies : reply.result # "PONG"}

Store == INSTANCE ReplicatedStore WITH
           committed <- ledger,
           applied <- [r \in Replicas |-> state_[r].last_executed_op_],
           store <- [r \in Replicas |-> state_[r].state_machine_],
           answered <- Answers

(* Every reply answers an executed operation with the result of a serial      *)
(* replay of the ledger: execute_commited_ops and the cached answer of        *)
(* handle_request make the store linearizable.                                *)
RepliesMatchLedger ==
  \A reply \in Answers :
    \E n \in DOMAIN ledger : /\ ledger[n].client_id = reply.client
                             /\ ledger[n].request_num = reply.request
                             /\ Store!Answer(ledger, n) = reply.result

(* Every running replica's key-value map is what a replay of the operations   *)
(* it has executed gives, after a view change and after a recovery too.       *)
StoreIsReplay ==
  \A r \in up : \A k \in Keys :
    state_[r].state_machine_[k] =
      Store!ValueAfter(ledger, state_[r].last_executed_op_, k)

(* The cluster implements the replicated store: one log that only grows, no    *)
(* request in it twice, replicas that replay it and answers that come from it. *)
ImplementsStore == Store!Spec

(* A running replica never goes back to an earlier view, in recovery either:  *)
(* process_message_queue drops the responses of earlier views.                *)
ViewNeverDecreases ==
  [][\A r \in up \cap up' : state_'[r].view_ >= state_[r].view_]_vars

(* A running replica never takes back an execution, except when recovery      *)
(* starts the execution of an adopted log over: handle_start_view may copy a   *)
(* lower commit number, and last_executed_op_ stays.                           *)
ExecutionNeverDecreases ==
  [][\A r \in up \cap up' :
       state_'[r].last_executed_op_ < state_[r].last_executed_op_
         => state_[r].status_ = "RECOVERY"]_vars

(* An operation that reached some replica's log is executed by every running  *)
(* replica in the end: the prepares, their acknowledgements and the commit     *)
(* number in heartbeats are enough while no fault happens.                     *)
PreparedIsExecuted ==
  \A n \in 1 .. MaxRequests * Cardinality(ClientProcesses) :
    (\E r \in up : state_[r].op_ >= n) ~> (\A r \in up : state_[r].last_executed_op_ >= n)

(* A message at the head of a replica's queue that it can neither process nor  *)
(* discard, whatever its status.                                               *)
Stuck(r) ==
  /\ r \in up /\ message_queue_[r] # << >>
  /\ LET m == Front(r).message
     IN  ~ Stale(state_[r], m) /\ ~ can_process(r, state_[r], m)

(* Waiting is enough for a replica whose queue is blocked by a message that    *)
(* needs no special action.                                                    *)
StuckIsTemporary == \A r \in Replicas : Stuck(r) ~> ~ Stuck(r)

(* r has entered view v and a vote for that view is at the head of its queue.  *)
VoteWaiting(r, v) ==
  /\ r \in up /\ state_[r].status_ = "VIEW_CHANGE" /\ state_[r].view_ = v
  /\ message_queue_[r] # << >>
  /\ Front(r).message.view = v
  /\ Front(r).message.command_ \in {"start_view_change", "do_view_change"}

(* A replica that joins the view change it learns of takes part in it: the     *)
(* vote that made it join is counted in the end.                               *)
JoinedVoteIsCounted ==
  \A r \in Replicas, v \in 1 .. MaxTimeouts : VoteWaiting(r, v) ~> ~ VoteWaiting(r, v)
=============================================================================
