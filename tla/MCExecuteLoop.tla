--------------------------- MODULE MCExecuteLoop ----------------------------
(* Logs of up to two or three entries of two clients, duplicates included. *)
EXTENDS ExecuteLoop, Serialization

CONSTANTS c1, c2, p1, k1, v1

AllAcks == 0 .. fault_tolerance_f_

Entries ==
  [view : {0}, client_id : {c1, c2}, request_num : {1, 2},
   operation : {[op_type |-> "set", key |-> k1, value |-> v1],
                [op_type |-> "get", key |-> k1]},
   prepare_ok_acks : {{0}, AllAcks}]

(* The client table a NORMAL primary can have for c1 when the loops start. *)
Tables ==
  {[EmptyClientTable EXCEPT ![c1] = e] :
     e \in {[request_number |-> 0, executed |-> FALSE, result |-> ""],
            [request_number |-> 1, executed |-> TRUE, result |-> "SET"],
            [request_number |-> 2, executed |-> FALSE, result |-> ""]}}

MCInputs ==
  {[FreshState EXCEPT !.log_ = log, !.op_ = Len(log), !.commit_ = commit,
                      !.last_executed_op_ = executed, !.client_table_ = table,
                      !.client_connections_[c1] = p1] :
     log \in UNION {[1 .. n -> Entries] : n \in 0 .. 3},
     commit \in 0 .. 1, executed \in 0 .. 1, table \in Tables}

(* A log that goes through a vote, a StartView or a recovery response comes out as  *)
(* Serialized says, payloads of every length included, with nothing left over, and   *)
(* every payload that was cut short is refused.                                     *)
LogSurvivesTheWire ==
  LET vote == SerializeNumberAndLog(s.view_, s.log_)
      view == SerializeLog(s.log_)
      Whole == [rest |-> << >>, ok |-> TRUE, log |-> Serialized(s.log_)]
  IN  pc = "done" =>
      /\ DeserializeNumberAndLog(vote) = Whole
      /\ DeserializeLog(view) = Whole
      /\ \A n \in 0 .. Len(vote) - 1 : ~ DeserializeNumberAndLog(SubSeq(vote, 1, n)).ok
=============================================================================
