-------------------------- MODULE ReplicaInvariant --------------------------
(***************************************************************************)
(* The inductive invariant behind the theorems of ReplicaProofs.  TypeOK   *)
(* and LogMatchesOp are not inductive: a log and its op number reach a     *)
(* replica in messages, wait in its vectors of votes and responses, and    *)
(* are adopted together much later.                                        *)
(***************************************************************************)
EXTENDS Replica, GoodStates

(* The replicas' states and all messages on their way are good, and nothing   *)
(* was executed that the ledger does not hold: Recorded reads only entries    *)
(* execute_commited_ops has just visited, which are in the log.               *)
IInv ==
  /\ TypeOK
  /\ state_ \in [Replicas -> GoodState]
  /\ message_queue_ \in [Replicas -> Seq(GoodInbound)]
  /\ channel \in [Replicas -> [Replicas -> Seq(GoodPeerMessage)]]
  /\ \A r \in Replicas : state_[r].last_executed_op_ <= Len(ledger)
=============================================================================
