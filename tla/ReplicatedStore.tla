-------------------------- MODULE ReplicatedStore ---------------------------
(***************************************************************************)
(* What the cluster promises its clients, without views, quorums or        *)
(* messages: one growing sequence of operations, none of them twice, that   *)
(* every replica applies from the front to its own copy of the store, and   *)
(* answers that come from that sequence alone.                             *)
(***************************************************************************)
EXTENDS ReplicaTypes, SequencesExt

VARIABLES
  committed,  \* the operations agreed on, in order
  applied,    \* how many of them each replica has applied
  store,      \* each replica's key-value map
  answered    \* the replies sent to clients

svars == <<committed, applied, store, answered>>

(* The value of key after the first n operations of log. *)
ValueAfter(log, n, key) ==
  LET sets == {i \in 1 .. n : /\ log[i].operation.op_type = "set"
                              /\ log[i].operation.key = key}
  IN  IF sets = {} THEN "NOT_FOUND" ELSE log[Max(sets)].operation.value

(* The answer to the n-th operation of log. *)
Answer(log, n) ==
  IF log[n].operation.op_type = "set" THEN "SET"
  ELSE ValueAfter(log, n - 1, log[n].operation.key)

Init ==
  /\ committed = << >>
  /\ applied = [r \in Replicas |-> 0]
  /\ store = [r \in Replicas |-> [k \in Keys |-> "NOT_FOUND"]]
  /\ answered = {}

OnceOnly(log) ==
  \A i, j \in DOMAIN log :
    log[i].client_id = log[j].client_id /\ log[i].request_num = log[j].request_num => i = j

(* A replica applies operations, new ones included, and may answer them. *)
Execute(r) ==
  /\ IsPrefix(committed, committed')
  /\ OnceOnly(committed')
  /\ applied'[r] \in applied[r] .. Len(committed')
  /\ Len(committed') > Len(committed) => applied'[r] = Len(committed')
  /\ applied' = [applied EXCEPT ![r] = applied'[r]]
  /\ store' = [store EXCEPT ![r] =
                 [k \in Keys |-> ValueAfter(committed', applied'[r], k)]]
  /\ answered \subseteq answered'
  /\ \A a \in answered' \ answered :
       \E n \in 1 .. applied'[r] : /\ a.client = committed'[n].client_id
                                   /\ a.request = committed'[n].request_num
                                   /\ a.result = Answer(committed', n)

Next == \E r \in Replicas : Execute(r)

Spec == Init /\ [][Next]_svars
=============================================================================
