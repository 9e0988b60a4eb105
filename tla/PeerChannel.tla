----------------------------- MODULE PeerChannel -----------------------------
(***************************************************************************)
(* What the protocol takes the connections between servers for: between each  *)
(* pair a channel that may lose messages and never invents, alters, repeats    *)
(* or reorders one.                                                           *)
(***************************************************************************)
EXTENDS Naturals, Sequences, SequencesExt

CONSTANT Servers

VARIABLES sent, delivered      (* messages from p to q: sent[p][q], delivered[p][q] *)

Init ==
  /\ sent = [p \in Servers |-> [q \in Servers |-> << >>]]
  /\ delivered = [p \in Servers |-> [q \in Servers |-> << >>]]

(* Every message received is one that was sent, and later than the one before it. *)
InOrder(s, d) ==
  \E number \in [DOMAIN d -> DOMAIN s] :
    \A i \in DOMAIN d : d[i] = s[number[i]] /\ (i > 1 => number[i - 1] < number[i])

Send ==
  /\ \E p, q \in Servers : \E n \in DOMAIN sent'[p][q] :
       sent' = [sent EXCEPT ![p][q] = Append(@, sent'[p][q][n])]
  /\ UNCHANGED delivered

Deliver ==
  /\ \A p, q \in Servers : /\ IsPrefix(delivered[p][q], delivered'[p][q])
                           /\ InOrder(sent[p][q], delivered'[p][q])
  /\ UNCHANGED sent

Spec == Init /\ [][Send \/ Deliver]_<<sent, delivered>>
=============================================================================
