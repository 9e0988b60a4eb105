---------------------------- MODULE Serialization ----------------------------
(***************************************************************************)
(* The payload formats of serialization.cpp, view_change_messages.cpp and    *)
(* recovery_messages.cpp.  A buffer is a sequence of cells: a POD value, or    *)
(* one word of a request's payload.  What a cell holds is not marked in it: a  *)
(* reader takes the next cell for whatever it expects.                       *)
(***************************************************************************)
EXTENDS ReplicaTypes, SequencesExt

(* A request's payload: "<key>" for a get and "<key> <value>" for a set. *)
PayloadWords(operation) ==
  IF operation.op_type = "set" THEN <<operation.key, operation.value>> ELSE <<operation.key>>

(* Each entry: its op number, its fields but the acknowledgements, the length of  *)
(* the payload and the payload.                                                  *)
write_log_to_buffer(buffer, log) ==
  FoldLeft(LAMBDA b, n :
             LET payload == PayloadWords(log[n].operation)
             IN  b \o <<n, log[n].view, log[n].operation.op_type, log[n].client_id,
                        log[n].request_num, Len(payload)>> \o payload,
           Append(buffer, Len(log)), [n \in DOMAIN log |-> n])

-----------------------------------------------------------------------------
(* A reader: the cells after ptr are still to be read; ok turns FALSE for good    *)
(* when something would be read beyond the end.                                  *)
Reader(buffer) == [rest |-> buffer, ok |-> TRUE, log |-> << >>]

CanRead(r, count) == r.ok /\ count <= Len(r.rest)

Skip(r, count) == [r EXCEPT !.rest = SubSeq(@, count + 1, Len(@))]

(* One round of read_log_from_buffer: six values, then as many words as the sixth  *)
(* one says, stored under the op number that was read.                            *)
ReadEntry(r) ==
  IF ~ CanRead(r, 6) \/ ~ CanRead(r, 6 + r.rest[6]) THEN [r EXCEPT !.ok = FALSE]
  ELSE LET payload == SubSeq(r.rest, 7, 6 + r.rest[6])
           operation == IF r.rest[3] = "set"
                        THEN [op_type |-> "set", key |-> payload[1], value |-> payload[2]]
                        ELSE [op_type |-> r.rest[3], key |-> payload[1]]
           entry == [view |-> r.rest[2], operation |-> operation, client_id |-> r.rest[4],
                     request_num |-> r.rest[5], prepare_ok_acks |-> {}]
           store == [n \in DOMAIN r.log \cup {r.rest[1]} |->
                       IF n = r.rest[1] THEN entry ELSE r.log[n]]
       IN  [Skip(r, 6 + r.rest[6]) EXCEPT !.log = store]

read_log_from_buffer_OneFewer(r) ==
  IF ~ CanRead(r, 1) THEN [r EXCEPT !.ok = FALSE]
  ELSE FoldLeft(LAMBDA reader, i : ReadEntry(reader), Skip(r, 1), [i \in 1 .. r.rest[1] - 1 |-> i])

read_log_from_buffer(r) ==
  IF ~ CanRead(r, 1) THEN [r EXCEPT !.ok = FALSE]
  ELSE FoldLeft(LAMBDA reader, i : ReadEntry(reader), Skip(r, 1), [i \in 1 .. r.rest[1] |-> i])

-----------------------------------------------------------------------------
(* The payload of a vote (last normal view and log) and of a recovery response     *)
(* (nonce and log) have the same form: one value, then the log. *)
SerializeNumberAndLog(number, log) == write_log_to_buffer(<<number>>, log)

DeserializeNumberAndLog(buffer) ==
  IF buffer = << >> THEN [Reader(buffer) EXCEPT !.ok = FALSE]
  ELSE read_log_from_buffer(Skip(Reader(buffer), 1))

(* start_view_payload: the log alone. *)
SerializeLog(log) == write_log_to_buffer(<< >>, log)

DeserializeLog(buffer) == read_log_from_buffer(Reader(buffer))
=============================================================================
