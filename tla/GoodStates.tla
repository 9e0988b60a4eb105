----------------------------- MODULE GoodStates -----------------------------
(***************************************************************************)
(* What every state of a replica and every message satisfies besides its   *)
(* type: the pieces of the inductive invariant.                            *)
(***************************************************************************)
EXTENDS ReplicaHandlers

CarriesLog(m) == m.command_ \in {"do_view_change", "start_view", "recovery_response"}

(* The header's op is the length of the payload's log. *)
Matching == {m \in Message : CarriesLog(m) => m.op = Len(m.log)}

(* What a single replica's state satisfies between handlers: stored messages  *)
(* match, and the responses to a recovery come from no earlier view than the  *)
(* one the replica left, and are gone when it is over.                        *)
GoodState ==
  {s \in ReplicaState :
     /\ s.op_ = Len(s.log_)
     /\ s.do_view_change_received_ \in
          Seq({m \in Matching : m.command_ = "do_view_change"})
     /\ s.recovery_responses_ \in
          Seq({m \in Matching : m.command_ = "recovery_response" /\ m.view >= s.view_})
     /\ s.status_ # "RECOVERY" => s.recovery_responses_ = << >>}

GoodPeerMessage == PeerMessage \cap Matching

GoodInbound == {i \in InboundMessage : i.message \in Matching}
=============================================================================
