------------------------------ MODULE TcpClient ------------------------------
(***************************************************************************)
(* The client program: client_main.cpp and one TcpClient per replica         *)
(* (tcp_client.cpp), on an IoUringLoop.  Two threads: the user thread runs    *)
(* main and handle_user_input, the network thread runs the loop and all its   *)
(* callbacks.  The kernel and the servers are the environment.               *)
(***************************************************************************)
EXTENDS IoUringLoop, FiniteSets

CONSTANTS
  TotalReplicas,     (* CLUSTER_CONFIG.size()                     *)
  Null,              (* a connection_ that holds nothing          *)
  MaxCommands,       (* commands typed                            *)
  MaxBreaks,         (* connections that end                      *)
  MaxRefusals        (* connects refused, sockets not created     *)

ASSUME ClientAssumption ==
  /\ TotalReplicas \in Nat \ {0}
  /\ Null \notin Nat
  /\ {MaxCommands, MaxBreaks, MaxRefusals} \subseteq Nat

ReplicaIds == 0 .. TotalReplicas - 1

(* A connection is named by its replica and how many connections to it have    *)
(* been made, this one included. *)
Connection == [id : ReplicaIds, number : Nat \ {0}]

VARIABLES
  loop,                        (* the network thread's loop                   *)
  state_,                      (* per TcpClient                               *)
  connection_,                 (* per TcpClient: Null or its connection       *)
  current_target_replica_id,
  next_request_number,
  user,                        (* what the user thread is doing               *)
  made,                        (* connections made to each replica so far     *)
  broken,                      (* connections the server's end of which is gone *)
  owed,                        (* requests that reached a server, not answered *)
  inbox,                       (* connections with bytes the client has to read *)
  budget,                      (* breaks and refusals so far                  *)
  sent_on,                     (* per command: the connection send_message found *)
  lost,                        (* commands dropped after send_message found one  *)
  steady                       (* replicas connected ever since the command began *)

client == <<state_, connection_>>
environment == <<made, broken, owed, inbox, budget>>
history == <<sent_on, lost, steady>>
vars == <<loop, client, current_target_replica_id, next_request_number, user,
          environment, history>>

Init ==
  /\ loop = InitialLoop
  /\ state_ = [i \in ReplicaIds |-> "DISCONNECTED"]
  /\ connection_ = [i \in ReplicaIds |-> Null]
  /\ current_target_replica_id = 0
  /\ next_request_number = 1
  /\ user = [pc |-> "connect", next |-> 0, attempt |-> 0, target |-> 0]
  /\ made = [i \in ReplicaIds |-> 0]
  /\ broken = {}
  /\ owed = {}
  /\ inbox = {}
  /\ budget = [breaks |-> 0, refusals |-> 0]
  /\ sent_on = << >>
  /\ lost = {}
  /\ steady = {}

-----------------------------------------------------------------------------
(* The user thread. *)

is_connected(i) == state_[i] = "CONNECTED"

(* main connects the clients one after the other. *)
MainConnect ==
  /\ user.pc = "connect"
  /\ state_' = [state_ EXCEPT ![user.next] = "CONNECTING"]
  /\ loop' = PushWork(loop, [type |-> "CONNECT", id |-> user.next])
  /\ user' = [user EXCEPT !.pc = "signal", !.next = @ + 1]
  /\ UNCHANGED <<connection_, current_target_replica_id, next_request_number, environment, history>>

(* The second half of post. *)
Signal ==
  /\ user.pc = "signal"
  /\ loop' = SignalEventfd(loop)
  /\ user' = [user EXCEPT !.pc = IF user.next < TotalReplicas THEN "connect" ELSE "input"]
  /\ UNCHANGED <<client, current_target_replica_id, next_request_number, environment, history>>

(* handle_user_input calls send_message, which draws the request's number. *)
TypeCommand ==
  /\ user.pc = "input" /\ next_request_number <= MaxCommands
  /\ user' = [user EXCEPT !.pc = "attempt"]
  /\ next_request_number' = next_request_number + 1
  /\ steady' = {i \in ReplicaIds : is_connected(i)}
  /\ UNCHANGED <<loop, client, current_target_replica_id, environment, sent_on, lost>>

(* The number that send_message drew for the command it is working on. *)
Command == next_request_number - 1

advance_to_next_replica_SkipsLast == (current_target_replica_id + 1) % (TotalReplicas - 1)

advance_to_next_replica_Unbounded == current_target_replica_id + 1

advance_to_next_replica == (current_target_replica_id + 1) % TotalReplicas

(* One iteration of send_message's loop. *)
AttemptConnected ==
  /\ user.pc = "attempt" /\ user.attempt < TotalReplicas
  /\ is_connected(current_target_replica_id)
  /\ user' = [user EXCEPT !.pc = "send", !.attempt = 0, !.target = current_target_replica_id]
  /\ sent_on' = Append(sent_on, connection_[current_target_replica_id])
  /\ steady' = {}
  /\ UNCHANGED <<loop, client, current_target_replica_id, next_request_number, environment, lost>>

AttemptFails ==
  /\ user.pc = "attempt" /\ user.attempt < TotalReplicas
  /\ ~ is_connected(current_target_replica_id)
  /\ current_target_replica_id' = advance_to_next_replica
  /\ user' = [user EXCEPT !.attempt = @ + 1]
  /\ UNCHANGED <<loop, client, next_request_number, environment, history>>

(* All replicas appear to be down. *)
ReportError ==
  /\ user.pc = "attempt" /\ user.attempt = TotalReplicas
  /\ user' = [user EXCEPT !.pc = "input", !.attempt = 0]
  /\ sent_on' = Append(sent_on, Null)
  /\ steady' = {}
  /\ UNCHANGED <<loop, client, current_target_replica_id, next_request_number, environment, lost>>

(* TcpClient::send looks at the connection again, then posts the write. *)
Send ==
  /\ user.pc = "send"
  /\ IF is_connected(user.target) /\ connection_[user.target] # Null
     THEN /\ loop' = PushWork(loop, [type |-> "WRITE", id |-> user.target, request |-> Command])
          /\ user' = [user EXCEPT !.pc = "signal", !.target = 0]
          /\ UNCHANGED lost
     ELSE /\ user' = [user EXCEPT !.pc = "input", !.target = 0]
          /\ lost' = lost \cup {Command}
          /\ UNCHANGED loop
  /\ UNCHANGED <<client, current_target_replica_id, next_request_number, environment, sent_on, steady>>

-----------------------------------------------------------------------------
(* The network thread: work that was posted. *)

user_vars == <<current_target_replica_id, next_request_number, user>>

schedule_reconnect(l, i) == post(l, [type |-> "RECONNECT", id |-> i])

(* TcpClient::connect, on the timer of schedule_reconnect. *)
connect(l, i) ==
  IF state_[i] = "DISCONNECTED"
  THEN /\ state_' = [state_ EXCEPT ![i] = "CONNECTING"]
       /\ loop' = post(l, [type |-> "CONNECT", id |-> i])
  ELSE loop' = l /\ UNCHANGED state_

handle_disconnect_Unconditional(l, i) ==
  /\ state_' = [state_ EXCEPT ![i] = "DISCONNECTED"]
  /\ connection_' = [connection_ EXCEPT ![i] = Null]
  /\ loop' = schedule_reconnect(l, i)
  /\ steady' = steady \ {i}

handle_disconnect(l, i) ==
  IF state_[i] = "CONNECTED"
  THEN /\ state_' = [state_ EXCEPT ![i] = "DISCONNECTED"]
       /\ connection_' = [connection_ EXCEPT ![i] = Null]
       /\ loop' = schedule_reconnect(l, i)
       /\ steady' = steady \ {i}
  ELSE loop' = l /\ UNCHANGED <<client, steady>>

start_reading(l, c) == submit(l, [type |-> "READ", connection |-> c])

Wake ==
  /\ CanWake(loop)
  /\ loop' = process_work_queue(loop)
  /\ UNCHANGED <<client, user_vars, environment, history>>

Work(type) == CanRunWork(loop) /\ Head(loop.current_work).type = type

RunConnect ==
  /\ Work("CONNECT")
  /\ LET i == Head(loop.current_work).id
     IN  \/ /\ loop' = submit(TakeWork(loop), [type |-> "CONNECT", id |-> i])
            /\ UNCHANGED <<state_, budget>>
         \/ /\ budget.refusals < MaxRefusals
            /\ budget' = [budget EXCEPT !.refusals = @ + 1]
            /\ state_' = [state_ EXCEPT ![i] = "DISCONNECTED"]
            /\ loop' = schedule_reconnect(TakeWork(loop), i)
  /\ UNCHANGED <<connection_, user_vars, made, broken, owed, inbox, history>>

RunReconnect ==
  /\ Work("RECONNECT")
  /\ loop' = submit(TakeWork(loop), [type |-> "TIMEOUT", id |-> Head(loop.current_work).id])
  /\ UNCHANGED <<client, user_vars, environment, history>>

(* The lambda of TcpClient::send. *)
RunWrite ==
  /\ Work("WRITE")
  /\ LET w == Head(loop.current_work)
     IN  IF connection_[w.id] = Null
         THEN loop' = TakeWork(loop) /\ lost' = lost \cup {w.request}
         ELSE /\ loop' = submit(TakeWork(loop),
                                [type |-> "WRITE", connection |-> connection_[w.id], request |-> w.request])
              /\ UNCHANGED lost
  /\ UNCHANGED <<client, user_vars, environment, sent_on, steady>>

-----------------------------------------------------------------------------
(* The network thread: completions. *)

Completion(type) == CanHandleCqe(loop) /\ Head(loop.cq).request.type = type

HandleEventfd ==
  /\ Completion("EVENTFD")
  /\ loop' = post_eventfd_read(TakeCqe(loop))
  /\ UNCHANGED <<client, user_vars, environment, history>>

HandleConnect ==
  /\ Completion("CONNECT")
  /\ LET i == Head(loop.cq).request.id
         c == [id |-> i, number |-> made[i] + 1]
     IN  IF Head(loop.cq).ok
         THEN /\ connection_' = [connection_ EXCEPT ![i] = c]
              /\ state_' = [state_ EXCEPT ![i] = "CONNECTED"]
              /\ loop' = start_reading(TakeCqe(loop), c)
              /\ made' = [made EXCEPT ![i] = @ + 1]
         ELSE /\ state_' = [state_ EXCEPT ![i] = "DISCONNECTED"]
              /\ loop' = schedule_reconnect(TakeCqe(loop), i)
              /\ UNCHANGED <<connection_, made>>
  /\ UNCHANGED <<user_vars, broken, owed, inbox, budget, history>>

(* The callback of start_reading uses the member connection_, not the          *)
(* connection it was armed for: with data and no connection_ it dies.           *)
HandleRead ==
  /\ Completion("READ")
  /\ LET c == Head(loop.cq).request.connection
         l == TakeCqe(loop)
     IN  IF Head(loop.cq).ok
         THEN /\ loop' = IF connection_[c.id] = Null
                         THEN [l EXCEPT !.phase = "crashed"]
                         ELSE start_reading(l, connection_[c.id])
              /\ UNCHANGED <<client, steady>>
         ELSE handle_disconnect(l, c.id)
  /\ UNCHANGED <<user_vars, environment, sent_on, lost>>

HandleWrite_OnAnyResult ==
  /\ Completion("WRITE")
  /\ handle_disconnect(TakeCqe(loop), Head(loop.cq).request.connection.id)
  /\ UNCHANGED <<user_vars, environment, sent_on, lost>>

HandleWrite ==
  /\ Completion("WRITE")
  /\ IF Head(loop.cq).ok
     THEN loop' = TakeCqe(loop) /\ UNCHANGED <<client, steady>>
     ELSE handle_disconnect(TakeCqe(loop), Head(loop.cq).request.connection.id)
  /\ UNCHANGED <<user_vars, environment, sent_on, lost>>

HandleTimeout ==
  /\ Completion("TIMEOUT")
  /\ connect(TakeCqe(loop), Head(loop.cq).request.id)
  /\ UNCHANGED <<connection_, user_vars, environment, history>>

Submit ==
  /\ CanSubmit(loop)
  /\ loop' = SubmitAndWait(loop)
  /\ UNCHANGED <<client, user_vars, environment, history>>

-----------------------------------------------------------------------------
(* The kernel and the servers. *)

kernel_unchanged == UNCHANGED <<client, user_vars, made, broken, history>>

Prepared == {loop.sq[k] : k \in DOMAIN loop.sq}

CompleteEventfd ==
  /\ EventfdRead \in loop.kernel /\ loop.event_fd_
  /\ loop' = Complete(loop, EventfdRead, TRUE)
  /\ UNCHANGED <<owed, inbox, budget>> /\ kernel_unchanged

CompleteConnect(q) ==
  /\ q.type = "CONNECT"
  /\ \/ loop' = Complete(loop, q, TRUE) /\ UNCHANGED budget
     \/ /\ budget.refusals < MaxRefusals
        /\ budget' = [budget EXCEPT !.refusals = @ + 1]
        /\ loop' = Complete(loop, q, FALSE)
  /\ UNCHANGED <<owed, inbox>> /\ kernel_unchanged

CompleteRead(q) ==
  /\ q.type = "READ"
  /\ q.connection \in inbox \cup broken
  /\ loop' = Complete(loop, q, q.connection \in inbox)
  /\ inbox' = inbox \ {q.connection}
  /\ UNCHANGED <<owed, budget>> /\ kernel_unchanged

(* Data that has arrived goes to a waiting read before a write can fail.  A     *)
(* write on a connection the server has left may still be taken.               *)
CompleteWrite(q) ==
  /\ q.type = "WRITE"
  /\ \/ /\ q.connection \notin broken
        /\ owed' = owed \cup {[connection |-> q.connection, request |-> q.request]}
        /\ loop' = Complete(loop, q, TRUE)
     \/ /\ q.connection \in broken
        /\ ~ (q.connection \in inbox /\ [type |-> "READ", connection |-> q.connection] \in loop.kernel)
        /\ \E ok \in BOOLEAN : loop' = Complete(loop, q, ok)
        /\ UNCHANGED owed
  /\ UNCHANGED <<inbox, budget>> /\ kernel_unchanged

(* The reconnect delay of five seconds: what is under way on a broken          *)
(* connection has completed by then. *)
CompleteTimeout(q) ==
  /\ q.type = "TIMEOUT"
  /\ \A other \in loop.kernel \cup Prepared :
       other.type \in {"READ", "WRITE"} => other.connection \notin broken
  /\ loop' = Complete(loop, q, TRUE)
  /\ UNCHANGED <<owed, inbox, budget>> /\ kernel_unchanged

(* A server answers a request. *)
Reply ==
  /\ \E request \in owed :
       /\ request.connection \notin broken
       /\ owed' = owed \ {request}
       /\ inbox' = inbox \cup {request.connection}
  /\ UNCHANGED <<loop, budget>> /\ kernel_unchanged

(* A server closes a connection or dies; a reset discards what was not read. *)
Break(i) ==
  LET c == [id |-> i, number |-> made[i]]
  IN  /\ made[i] > 0 /\ c \notin broken
      /\ budget.breaks < MaxBreaks
      /\ budget' = [budget EXCEPT !.breaks = @ + 1]
      /\ broken' = broken \cup {c}
      /\ inbox' \in {inbox, inbox \ {c}}
      /\ UNCHANGED <<loop, client, user_vars, made, owed, history>>

-----------------------------------------------------------------------------
UserStep == \/ MainConnect \/ Signal \/ AttemptConnected \/ AttemptFails \/ ReportError \/ Send

NetworkStep ==
  \/ Wake \/ Submit
  \/ RunConnect \/ RunReconnect \/ RunWrite
  \/ HandleEventfd \/ HandleConnect \/ HandleRead \/ HandleWrite \/ HandleTimeout

KernelStep(q) == CompleteConnect(q) \/ CompleteRead(q) \/ CompleteWrite(q) \/ CompleteTimeout(q)

Next ==
  \/ UserStep \/ TypeCommand
  \/ NetworkStep
  \/ CompleteEventfd \/ \E q \in loop.kernel : KernelStep(q)
  \/ Reply \/ \E i \in ReplicaIds : Break(i)

Spec == Init /\ [][Next]_vars

(* Both threads go on while they can, and the kernel completes what is due. *)
FairSpec ==
  /\ Spec
  /\ WF_vars(UserStep) /\ WF_vars(NetworkStep)
  /\ WF_vars(CompleteEventfd) /\ WF_vars(\E q \in loop.kernel : KernelStep(q))

-----------------------------------------------------------------------------
(* Properties *)

Requests ==
  {EventfdRead} \cup [type : {"CONNECT", "TIMEOUT"}, id : ReplicaIds]
  \cup [type : {"READ"}, connection : Connection]
  \cup [type : {"WRITE"}, connection : Connection, request : Nat]

PostedWork ==
  [type : {"CONNECT", "RECONNECT"}, id : ReplicaIds]
  \cup [type : {"WRITE"}, id : ReplicaIds, request : Nat]

(* Every variable has its type, the members of the loop included. *)
TypeOK ==
  /\ loop \in [work_queue_ : Seq(PostedWork), current_work : Seq(PostedWork),
               event_fd_ : BOOLEAN, sq : Seq(Requests), kernel : SUBSET Requests,
               cq : Seq([request : Requests, ok : BOOLEAN]), phase : LoopPhases]
  /\ state_ \in [ReplicaIds -> {"DISCONNECTED", "CONNECTING", "CONNECTED"}]
  /\ connection_ \in [ReplicaIds -> Connection \cup {Null}]
  /\ current_target_replica_id \in ReplicaIds
  /\ next_request_number \in 1 .. MaxCommands + 1
  /\ user \in [pc : {"connect", "signal", "input", "attempt", "send"}, next : 0 .. TotalReplicas,
               attempt : 0 .. TotalReplicas, target : ReplicaIds]
  /\ made \in [ReplicaIds -> Nat]
  /\ broken \subseteq Connection /\ inbox \subseteq Connection
  /\ owed \subseteq [connection : Connection, request : Nat]
  /\ budget \in [breaks : 0 .. MaxBreaks, refusals : 0 .. MaxRefusals]
  /\ sent_on \in Seq(Connection \cup {Null})
  /\ lost \subseteq Nat /\ steady \subseteq ReplicaIds

(* Where a replica's next connection comes from: a connect or a reconnect      *)
(* timer, posted, prepared, submitted or completed. *)
Lifelines(i) ==
  LET At(place, s, types) ==
        {<<place, k>> : k \in {j \in DOMAIN s : s[j].type \in types /\ s[j].id = i}}
      requests == {"CONNECT", "TIMEOUT"}
  IN  At("posted", loop.work_queue_ \o loop.current_work, {"CONNECT", "RECONNECT"})
      \cup At("prepared", loop.sq, requests)
      \cup {<<"submitted", q>> : q \in {p \in loop.kernel : p.type \in requests /\ p.id = i}}
      \cup {<<"completed", k>> :
              k \in {j \in DOMAIN loop.cq : /\ loop.cq[j].request.type \in requests
                                            /\ loop.cq[j].request.id = i}}

(* A replica that is not connected always has exactly one connect or reconnect *)
(* timer on its way, and a connected one has none: a broken connection is       *)
(* noticed by its read and by every write on it, and the compare-and-exchange   *)
(* of handle_disconnect lets one of them start the timer.                      *)
OneLifeline ==
  loop.phase # "crashed" =>
    \A i \in ReplicaIds :
      Cardinality(Lifelines(i)) = IF is_connected(i) \/ i >= user.next THEN 0 ELSE 1

(* send_message reports that all replicas are down only if none stayed          *)
(* connected while it looked: its attempts reach every replica although         *)
(* connections come and go on the other thread.                                *)
FailoverFinds ==
  user.pc = "attempt" /\ user.attempt = TotalReplicas => steady = {}

(* A command that send_message called a success is dropped only when the        *)
(* connection it found has broken meanwhile.                                    *)
LostOnlyIfBroken == \A n \in lost : sent_on[n] \in broken

(* post wakes up the loop: posted work is run in the end. *)
PostedWorkRuns == loop.work_queue_ # << >> ~> loop.work_queue_ = << >>
=============================================================================
