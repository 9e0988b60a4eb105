-------------------------- MODULE ReplicaHandlers ---------------------------
(***************************************************************************)
(* The methods of class Replica (server/replica.cpp) as functions of the   *)
(* replica's state s, its id r and the message m they are given.  Every    *)
(* handler yields an effect: the state it leaves, the messages it hands to  *)
(* ProtocolHandler for each peer, and the replies it sends to clients.     *)
(* Loops over the log appear in closed form: what they leave behind, not   *)
(* how they get there (ExecuteLoop compares).  An operator X_Variant before  *)
(* X is X with a bug put in; nothing uses it but the mutation tests that     *)
(* show the properties catch it.                                             *)
(***************************************************************************)
EXTENDS ReplicaTypes

NoSends == [p \in Replicas |-> << >>]

broadcast_to_peers(m) == [p \in Replicas |-> <<m>>]

(* Several messages to one peer; a null or client connection reaches none. *)
SendAll(peer, messages) ==
  [p \in Replicas |-> IF p = peer THEN messages ELSE << >>]

send_to_peer(peer, m) == SendAll(peer, <<m>>)

Effect(s, out, replies) == [state |-> s, out |-> out, replies |-> replies]

(* log_[n] = e on the ordered map log_. *)
PutEntry(log, n, e) ==
  [i \in DOMAIN log \cup {n} |-> IF i = n THEN e ELSE log[i]]

-----------------------------------------------------------------------------
(* execute_commited_ops *)

(* The op numbers the loop visits: up to commit_ or the first missing entry. *)
Visited(s) ==
  {n \in s.last_executed_op_ + 1 .. s.commit_ :
     s.last_executed_op_ + 1 .. n \subseteq DOMAIN s.log_}

SameClientBefore(s, n) ==
  {i \in Visited(s) : i < n /\ s.log_[i].client_id = s.log_[n].client_id}

AlreadyExecuted_TableOnly(s, n) ==
  LET entry == s.client_table_[s.log_[n].client_id]
  IN  entry.executed /\ entry.request_number = s.log_[n].request_num

(* The client table holds n's request as executed when the loop gets to n:   *)
(* the previous visited entry of that client left it there, or it was there. *)
AlreadyExecuted(s, n) ==
  LET before == SameClientBefore(s, n)
      entry  == s.client_table_[s.log_[n].client_id]
  IN  IF before = {}
      THEN entry.executed /\ entry.request_number = s.log_[n].request_num
      ELSE s.log_[Max(before)].request_num = s.log_[n].request_num

Executed(s) == {n \in Visited(s) : ~ AlreadyExecuted(s, n)}

(* state_machine_[key] when the loop has passed every op number below n. *)
ValueBefore(s, key, n) ==
  LET sets == {i \in Executed(s) : /\ i < n
                                   /\ s.log_[i].operation.op_type = "set"
                                   /\ s.log_[i].operation.key = key}
  IN  IF sets = {} THEN s.state_machine_[key] ELSE s.log_[Max(sets)].operation.value

ResultOf(s, n) ==
  IF s.log_[n].operation.op_type = "set" THEN "SET"
  ELSE ValueBefore(s, s.log_[n].operation.key, n)

ExecutedEntry(s, n) ==
  [request_number |-> s.log_[n].request_num, executed |-> TRUE,
   result |-> ResultOf(s, n)]

ExecutedTable(s) ==
  [c \in ClientIds |->
     LET mine == {n \in Executed(s) : s.log_[n].client_id = c}
     IN  IF mine = {} THEN s.client_table_[c] ELSE ExecutedEntry(s, Max(mine))]

execute_commited_ops_LastMissing(s) ==
  [s EXCEPT !.last_executed_op_ = Max({@} \cup Visited(s)),
            !.client_table_ = ExecutedTable(s),
            !.state_machine_ = [k \in Keys |-> ValueBefore(s, k, s.commit_)]]

execute_commited_ops(s) ==
  [s EXCEPT !.last_executed_op_ = Max({@} \cup Visited(s)),
            !.client_table_ = ExecutedTable(s),
            !.state_machine_ = [k \in Keys |-> ValueBefore(s, k, s.commit_ + 1)]]

(* The replies the loop sends: only a primary holding the client's connection. *)
ExecutionReplies(r, s) ==
  {[to |-> s.client_connections_[s.log_[n].client_id],
    client |-> s.log_[n].client_id, request |-> s.log_[n].request_num,
    result |-> ResultOf(s, n)] :
      n \in {i \in Executed(s) :
               /\ is_primary(r, s)
               /\ s.client_connections_[s.log_[i].client_id] # Closed}}

(* The execution that ends a handler, after the messages in out were sent. *)
Execute(r, s, out) ==
  Effect(execute_commited_ops(s), out, ExecutionReplies(r, s))

(* commit_ = commit; execute_commited_ops(), if commit is news to the replica. *)
CatchUp(r, s, commit, out) ==
  IF commit > s.commit_ THEN Execute(r, [s EXCEPT !.commit_ = commit], out)
  ELSE Effect(s, out, {})

Committable_OneAckShort(s) ==
  {n \in DOMAIN s.log_ :
     /\ n > s.commit_
     /\ \A i \in s.commit_ + 1 .. n :
          i \in DOMAIN s.log_ /\ Cardinality(s.log_[i].prepare_ok_acks) >= Quorum - 1}

(* Op numbers the loop of advance_primary_commit_number can commit. *)
Committable(s) ==
  {n \in DOMAIN s.log_ :
     /\ n > s.commit_
     /\ \A i \in s.commit_ + 1 .. n :
          i \in DOMAIN s.log_ /\ Cardinality(s.log_[i].prepare_ok_acks) >= Quorum}

advance_primary_commit_number(r, s) ==
  IF is_primary(r, s)
  THEN Execute(r, [s EXCEPT !.commit_ = Max({@} \cup Committable(s))], NoSends)
  ELSE Effect(s, NoSends, {})

-----------------------------------------------------------------------------
(* Normal operation *)

handle_ping(r, s, inbound) ==
  LET m == inbound.message
  IN  Effect(s, NoSends,
             {[to |-> inbound.connection, client |-> m.client,
               request |-> m.request, result |-> "PONG"]})

check_can_process_request(r, s, m) == s.status_ = "NORMAL" /\ is_primary(r, s)

NewEntry(s, m, acks) ==
  [view |-> s.view_, operation |-> m.operation_, client_id |-> m.client,
   request_num |-> m.request, prepare_ok_acks |-> acks]

PendingEntry(m) == [request_number |-> m.request, executed |-> FALSE, result |-> ""]

(* op_++, the new log entry and the client table's note of the request. *)
AppendOp(s, m, acks) ==
  [s EXCEPT !.op_ = @ + 1,
            !.log_ = PutEntry(@, s.op_ + 1, NewEntry(s, m, acks)),
            !.client_table_[m.client] = PendingEntry(m)]

PrepareMessage(r, s, m) ==
  [Blank("prepare") EXCEPT !.view = s.view_, !.op = s.op_, !.commit = s.commit_,
     !.replica = r, !.client = m.client, !.request = m.request,
     !.operation_ = m.operation_]

handle_request_RepliesAtOnce(r, s, inbound) ==
  LET m == inbound.message
      appended == [AppendOp(s, m, {r}) EXCEPT
                     !.client_connections_[m.client] = inbound.connection]
  IN  Effect(appended, broadcast_to_peers(PrepareMessage(r, appended, m)),
             {[to |-> inbound.connection, client |-> m.client,
               request |-> m.request, result |-> "SET"]})

handle_request(r, s, inbound) ==
  LET m == inbound.message
      entry == s.client_table_[m.client]
      appended == [AppendOp(s, m, {r}) EXCEPT
                     !.client_connections_[m.client] = inbound.connection]
  IN  IF entry.request_number > m.request THEN Effect(s, NoSends, {})
      ELSE IF entry.request_number = m.request
      THEN Effect(s, NoSends,
                  {[to |-> inbound.connection, client |-> m.client,
                    request |-> m.request, result |-> entry.result]})
      ELSE Effect(appended, broadcast_to_peers(PrepareMessage(r, appended, m)), {})

check_can_process_prepare_AnyGap(r, s, m) ==
  /\ s.status_ = "NORMAL"
  /\ ~ is_primary(r, s)
  /\ m.view = s.view_
  /\ m.op > s.op_

check_can_process_prepare(r, s, m) ==
  /\ s.status_ = "NORMAL"
  /\ ~ is_primary(r, s)
  /\ m.view = s.view_
  /\ m.op = s.op_ + 1

PrepareOkMessage(r, s, op) ==
  [Blank("prepare_ok") EXCEPT !.view = s.view_, !.op = op, !.replica = r]

handle_prepare_KeepsConnection(r, s, inbound) ==
  LET m == inbound.message
      appended == [AppendOp(s, m, {}) EXCEPT
                     !.client_connections_[m.client] = inbound.connection]
  IN  CatchUp(r, appended, m.commit,
              send_to_peer(inbound.connection,
                           PrepareOkMessage(r, appended, appended.op_)))

handle_prepare(r, s, inbound) ==
  LET m == inbound.message
      appended == AppendOp(s, m, {})
  IN  CatchUp(r, appended, m.commit,
              send_to_peer(inbound.connection,
                           PrepareOkMessage(r, appended, appended.op_)))

check_can_process_prepare_ok(r, s, m) ==
  /\ s.status_ = "NORMAL"
  /\ is_primary(r, s)
  /\ m.view = s.view_

handle_prepare_ok(r, s, inbound) ==
  LET m == inbound.message
  IN  IF m.op \in DOMAIN s.log_
      THEN advance_primary_commit_number(r,
             [s EXCEPT !.log_[m.op].prepare_ok_acks = @ \cup {m.replica}])
      ELSE Effect(s, NoSends, {})

check_can_process_commit(r, s, m) ==
  /\ s.status_ = "NORMAL"
  /\ ~ is_primary(r, s)
  /\ m.view = s.view_

handle_commit(r, s, inbound) == CatchUp(r, s, inbound.message.commit, NoSends)

CommitMessage_NoCommit(s) == [Blank("commit") EXCEPT !.view = s.view_]

(* header.replica is not set: a heartbeat names replica 0 as its sender. *)
CommitMessage(s) ==
  [Blank("commit") EXCEPT !.view = s.view_, !.commit = s.commit_]

-----------------------------------------------------------------------------
(* View change *)

enter_new_view(r, s, new_view) ==
  [s EXCEPT !.last_normal_view_ = IF s.status_ = "NORMAL" THEN s.view_ ELSE @,
            !.view_ = new_view,
            !.status_ = "VIEW_CHANGE",
            !.start_view_change_received_ = {r},
            !.do_view_change_received_ = << >>]

initiate_view_change(r, s) ==
  LET entered == enter_new_view(r, s, s.view_ + 1)
  IN  Effect(entered,
             broadcast_to_peers([Blank("start_view_change") EXCEPT
                                   !.view = entered.view_, !.replica = r]),
             {})

check_can_process_start_view_change(r, s, m) ==
  m.view = s.view_ /\ s.status_ = "VIEW_CHANGE"

DoViewChangeMessage(r, s) ==
  [Blank("do_view_change") EXCEPT !.view = s.view_, !.op = s.op_,
     !.commit = s.commit_, !.replica = r,
     !.last_normal_view = s.last_normal_view_, !.log = Serialized(s.log_)]

StartViewMessage(r, s) ==
  [Blank("start_view") EXCEPT !.view = s.view_, !.op = s.op_,
     !.commit = s.commit_, !.replica = r, !.log = Serialized(s.log_)]

BestVote_First(votes) == votes[1]

BestVote_NoTieBreak(votes) ==
  votes[Min({i \in DOMAIN votes : \A j \in DOMAIN votes :
               ~ votes[j].last_normal_view > votes[i].last_normal_view})]

(* The first vote no other beats: later last normal view, then longer log. *)
BestVote(votes) ==
  LET Beats(a, b) == \/ a.last_normal_view > b.last_normal_view
                     \/ a.last_normal_view = b.last_normal_view /\ a.op > b.op
  IN  votes[Min({i \in DOMAIN votes :
                   \A j \in DOMAIN votes : ~ Beats(votes[j], votes[i])})]

AdoptVotes(s, votes) ==
  [s EXCEPT !.do_view_change_received_ = << >>,
            !.log_ = BestVote(votes).log,
            !.op_ = BestVote(votes).op,
            !.commit_ = Max({@} \cup {votes[i].commit : i \in DOMAIN votes}),
            !.status_ = "NORMAL"]

check_can_process_do_view_change(r, s, m) ==
  /\ m.view = s.view_
  /\ s.status_ = "VIEW_CHANGE"
  /\ get_primary_id_for_view(s.view_) = r

EnoughVotes_OneShort(votes) == Len(votes) >= Quorum - 1

EnoughVotes(votes) == Len(votes) >= Quorum

handle_do_view_change(r, s, m) ==
  LET votes == Append(s.do_view_change_received_, m)
      adopted == AdoptVotes(s, votes)
  IN  IF EnoughVotes(votes)
      THEN Execute(r, adopted, broadcast_to_peers(StartViewMessage(r, adopted)))
      ELSE Effect([s EXCEPT !.do_view_change_received_ = votes], NoSends, {})

ClearStartViewChanges_Not(s) == s

ClearStartViewChanges(s) == [s EXCEPT !.start_view_change_received_ = {}]

handle_start_view_change(r, s, inbound) ==
  LET received == s.start_view_change_received_ \cup {inbound.message.replica}
      voted == ClearStartViewChanges(s)
      vote == DoViewChangeMessage(r, voted)
      new_primary == get_primary_id_for_view(s.view_)
  IN  IF Cardinality(received) < Quorum
      THEN Effect([s EXCEPT !.start_view_change_received_ = received], NoSends, {})
      ELSE IF new_primary = r THEN handle_do_view_change(r, voted, vote)
      ELSE Effect(voted, send_to_peer(new_primary, vote), {})

check_can_process_start_view(r, s, m) ==
  /\ m.view = s.view_
  /\ s.status_ = "VIEW_CHANGE"
  /\ m.replica = get_primary_id_for_view(s.view_)

(* client_table_ after the pass over the adopted log: the client's newest    *)
(* request is noted as not executed; its old result stays.                   *)
NoteRequests(table, log) ==
  [c \in DOMAIN table |->
     LET requests == {log[n].request_num : n \in {i \in DOMAIN log : log[i].client_id = c}}
         newest == Max({0} \cup requests)
     IN  IF newest > table[c].request_number
         THEN [table[c] EXCEPT !.request_number = newest, !.executed = FALSE]
         ELSE table[c]]

(* PrepareOks for the adopted entries the new primary has not committed; all *)
(* op numbers up to op_ are in the log (LogMatchesOp in module Replica).      *)
RetroactivePrepareOks(r, s, commit) ==
  [i \in 1 .. Max({0, s.op_ - commit}) |-> PrepareOkMessage(r, s, commit + i)]

AdoptStartView_KeepsOp(s, m) ==
  [s EXCEPT !.view_ = m.view, !.commit_ = m.commit, !.log_ = m.log,
            !.status_ = "NORMAL", !.client_table_ = NoteRequests(@, m.log)]

AdoptStartView_KeepsLog(s, m) ==
  [s EXCEPT !.view_ = m.view, !.commit_ = m.commit, !.status_ = "NORMAL",
            !.client_table_ = NoteRequests(@, m.log)]

AdoptStartView_PayloadView(s, m) ==
  [s EXCEPT !.view_ = m.last_normal_view, !.op_ = m.op, !.commit_ = m.commit,
            !.log_ = m.log, !.status_ = "NORMAL",
            !.client_table_ = NoteRequests(@, m.log)]

AdoptStartView_StartsOver(s, m) ==
  [s EXCEPT !.view_ = m.view, !.op_ = m.op, !.commit_ = m.commit,
            !.log_ = m.log, !.status_ = "NORMAL", !.last_executed_op_ = 0,
            !.client_table_ = NoteRequests(@, m.log)]

AdoptStartView(s, m) ==
  [s EXCEPT !.view_ = m.view, !.op_ = m.op, !.commit_ = m.commit,
            !.log_ = m.log, !.status_ = "NORMAL",
            !.client_table_ = NoteRequests(@, m.log)]

handle_start_view(r, s, inbound) ==
  LET m == inbound.message
      adopted == AdoptStartView(s, m)
  IN  Execute(r, adopted,
              SendAll(get_primary_id(adopted),
                      RetroactivePrepareOks(r, adopted, m.commit)))

-----------------------------------------------------------------------------
(* Recovery *)

(* generate_nonce hashes the clock: nonce is a number not used before. *)
initiate_recovery(r, s, nonce) ==
  Effect([s EXCEPT !.status_ = "RECOVERY", !.recovery_nonce_ = nonce,
                   !.recovery_responses_ = << >>],
         broadcast_to_peers([Blank("recovery") EXCEPT !.replica = r, !.nonce = nonce]),
         {})

check_can_process_recovery_request(r, s, m) == s.status_ = "NORMAL"

handle_recovery_request(r, s, inbound) ==
  LET m == inbound.message
  IN  Effect(s,
             send_to_peer(m.replica,
               [Blank("recovery_response") EXCEPT !.replica = r, !.view = s.view_,
                  !.op = s.op_, !.commit = s.commit_, !.nonce = m.nonce,
                  !.log = Serialized(s.log_)]),
             {})

check_can_process_recovery_response(r, s, m) == s.status_ = "RECOVERY"

(* The first response no other beats: later view, then longer log. *)
BestResponse(responses) ==
  LET Beats(a, b) == a.view > b.view \/ (a.view = b.view /\ a.op > b.op)
  IN  responses[Min({i \in DOMAIN responses :
                       \A j \in DOMAIN responses : ~ Beats(responses[j], responses[i])})]

AdoptResponse_KeepsOp(s, best) ==
  [s EXCEPT !.view_ = best.view, !.commit_ = best.commit,
            !.log_ = best.log, !.last_executed_op_ = 0, !.status_ = "NORMAL",
            !.client_table_ = NoteRequests(EmptyClientTable, best.log),
            !.recovery_nonce_ = 0, !.recovery_responses_ = << >>]

AdoptResponse_SkipsReplay(s, best) ==
  [s EXCEPT !.view_ = best.view, !.op_ = best.op, !.commit_ = best.commit,
            !.log_ = best.log, !.last_executed_op_ = best.commit, !.status_ = "NORMAL",
            !.client_table_ = NoteRequests(EmptyClientTable, best.log),
            !.recovery_nonce_ = 0, !.recovery_responses_ = << >>]

(* The best response replaces view, log and client table; state_machine_ is  *)
(* kept, and execution starts over from the first entry.                     *)
AdoptResponse(s, best) ==
  [s EXCEPT !.view_ = best.view, !.op_ = best.op, !.commit_ = best.commit,
            !.log_ = best.log, !.last_executed_op_ = 0, !.status_ = "NORMAL",
            !.client_table_ = NoteRequests(EmptyClientTable, best.log),
            !.recovery_nonce_ = 0, !.recovery_responses_ = << >>]

EnoughResponses(responses) == Len(responses) >= Quorum

handle_recovery_response(r, s, inbound) ==
  LET m == inbound.message
      responses == Append(s.recovery_responses_, m)
  IN  IF m.nonce # s.recovery_nonce_ THEN Effect(s, NoSends, {})
      ELSE IF EnoughResponses(responses)
      THEN Execute(r, AdoptResponse(s, BestResponse(responses)), NoSends)
      ELSE Effect([s EXCEPT !.recovery_responses_ = responses], NoSends, {})

-----------------------------------------------------------------------------
(* What process_message_queue asks about the message at the head *)

(* A message between replicas from a past view; clients' pings count as one. *)
Stale(s, m) == m.command_ \notin {"request", "recovery"} /\ m.view < s.view_

can_process(r, s, m) ==
  CASE m.command_ = "ping" -> TRUE
    [] m.command_ = "request" -> check_can_process_request(r, s, m)
    [] m.command_ = "prepare" -> check_can_process_prepare(r, s, m)
    [] m.command_ = "prepare_ok" -> check_can_process_prepare_ok(r, s, m)
    [] m.command_ = "commit" -> check_can_process_commit(r, s, m)
    [] m.command_ = "start_view_change" -> check_can_process_start_view_change(r, s, m)
    [] m.command_ = "do_view_change" -> check_can_process_do_view_change(r, s, m)
    [] m.command_ = "start_view" -> check_can_process_start_view(r, s, m)
    [] m.command_ = "recovery" -> check_can_process_recovery_request(r, s, m)
    [] m.command_ = "recovery_response" -> check_can_process_recovery_response(r, s, m)

(* The action for a NORMAL replica stuck on m. *)
determine_state_action(r, s, m) ==
  IF m.view > s.view_
  THEN IF /\ m.view = s.view_ + 1
          /\ m.command_ \in {"start_view_change", "do_view_change"}
       THEN "INITIATE_VIEW_CHANGE"
       ELSE "INITIATE_RECOVERY"
  ELSE IF /\ ~ is_primary(r, s)
          /\ m.command_ = "prepare"
          /\ m.view = s.view_
          /\ m.op > s.op_ + 1
       THEN "INITIATE_RECOVERY"
       ELSE "PROCESS_NORMALLY"
=============================================================================
