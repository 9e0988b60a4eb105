---------------------------- MODULE ExecuteLoop -----------------------------
(***************************************************************************)
(* advance_primary_commit_number and execute_commited_ops as the loops they *)
(* are, one iteration per step, to compare with the closed forms of         *)
(* ReplicaHandlers.  A behaviour is one call on one replica state.          *)
(***************************************************************************)
EXTENDS ReplicaHandlers

CONSTANTS
  Self,       \* the replica that runs the loops
  Inputs      \* the states they are called in

ASSUME SelfAssumption == Self \in Replicas

VARIABLES
  start,    \* the state at the call
  s,        \* the state now
  sent,     \* the replies sent so far
  pc        \* "advance", "execute" or "done"

loopVars == <<start, s, sent, pc>>

Init ==
  /\ start \in Inputs
  /\ s = start
  /\ sent = {}
  /\ pc = IF is_primary(Self, start) THEN "advance" ELSE "done"

NextOpCommits ==
  /\ s.commit_ + 1 \in DOMAIN s.log_
  /\ Cardinality(s.log_[s.commit_ + 1].prepare_ok_acks) >= Quorum

AdvanceCommit ==
  /\ pc = "advance"
  /\ NextOpCommits
  /\ s' = [s EXCEPT !.commit_ = @ + 1]
  /\ UNCHANGED <<start, sent, pc>>

StopAdvancing ==
  /\ pc = "advance"
  /\ ~ NextOpCommits
  /\ pc' = "execute"
  /\ UNCHANGED <<start, s, sent>>

op_to_execute == s.last_executed_op_ + 1

CanExecute ==
  pc = "execute" /\ s.last_executed_op_ < s.commit_ /\ op_to_execute \in DOMAIN s.log_

(* The client table shows the request as executed. *)
DoneBefore(entry) ==
  LET client_entry == s.client_table_[entry.client_id]
  IN  client_entry.request_number = entry.request_num /\ client_entry.executed

ExecuteOp ==
  /\ CanExecute
  /\ LET entry == s.log_[op_to_execute]
         key == entry.operation.key
         result == IF entry.operation.op_type = "set" THEN "SET" ELSE s.state_machine_[key]
         connection == s.client_connections_[entry.client_id]
     IN  /\ ~ DoneBefore(entry)
         /\ s' = [s EXCEPT
                    !.state_machine_[key] =
                       IF entry.operation.op_type = "set" THEN entry.operation.value ELSE @,
                    !.client_table_[entry.client_id] =
                       [request_number |-> entry.request_num, executed |-> TRUE,
                        result |-> result],
                    !.last_executed_op_ = @ + 1]
         /\ sent' = IF connection = Closed THEN sent
                    ELSE sent \cup {[to |-> connection, client |-> entry.client_id,
                                     request |-> entry.request_num, result |-> result]}
  /\ UNCHANGED <<start, pc>>

SkipOp ==
  /\ CanExecute
  /\ DoneBefore(s.log_[op_to_execute])
  /\ s' = [s EXCEPT !.last_executed_op_ = @ + 1]
  /\ UNCHANGED <<start, sent, pc>>

StopExecuting ==
  /\ pc = "execute"
  /\ ~ CanExecute
  /\ pc' = "done"
  /\ UNCHANGED <<start, s, sent>>

Next == AdvanceCommit \/ StopAdvancing \/ ExecuteOp \/ SkipOp \/ StopExecuting

Spec == Init /\ [][Next]_loopVars

(* The loops leave the state and have sent the replies that the closed form    *)
(* of advance_primary_commit_number gives, whatever duplicates the log holds.   *)
LoopsMatchClosedForm ==
  pc = "done" =>
    LET effect == advance_primary_commit_number(Self, start)
    IN  s = effect.state /\ sent = effect.replies
=============================================================================
