------------------------------- MODULE Framing -------------------------------
(***************************************************************************)
(* How messages become bytes and bytes become messages: vsr_message's         *)
(* serialize and deserialize and the buffers of ProtocolHandler.              *)
(*                                                                           *)
(* A stream is a sequence of pieces, the units a read may stop between: the   *)
(* header of a message, its payload, or a handshake.  Checksums are ideal:     *)
(* verification fails unless the payload is the one its header was made for.   *)
(***************************************************************************)
EXTENDS Naturals, Sequences, FiniteSetsExt

(* The kinds of message the framing tells apart: without payload, with one,    *)
(* and with more than the 64 KB that handle_raw_data accepts.                  *)
MessageKinds == {"bare", "full", "big"}

Header(n, kind) == [part |-> "header", number |-> n, kind |-> kind]
Payload(n) == [part |-> "payload", number |-> n, kind |-> "full"]
Handshake(id) == [part |-> "handshake", number |-> id, kind |-> "bare"]

Piece == [part : {"header", "payload", "handshake"}, number : Nat, kind : MessageKinds]

(* serialize: the header says how long the message is. *)
serialize(n, kind) ==
  IF kind = "bare" THEN <<Header(n, kind)>> ELSE <<Header(n, kind), Payload(n)>>

verify_body_checksum(header, piece) == piece.part = "payload" /\ piece.number = header.number

deserialize_Unverified(header, piece) == TRUE

(* deserialize of a header and the piece that lies where its payload should. *)
deserialize(header, piece) == verify_body_checksum(header, piece)

(* What a connection's buffer starts with: nothing, a header that waits for    *)
(* its payload, or bytes that no message can come of: they are no header, or a  *)
(* header and something else where its payload should be.                      *)
Empty == [part |-> "nothing", number |-> 0, kind |-> "bare"]
Garbage == [part |-> "garbage", number |-> 0, kind |-> "bare"]

SizeAllowed_Any(header) == TRUE

(* The sanity check of the size in the header. *)
SizeAllowed(header) == header.kind # "big"

(* handle_raw_data, for the next piece of the data that was read.  Bytes that    *)
(* are no header have some number where the size should be, and what lies in    *)
(* place of a payload may be shorter than it: the connection is closed at once,  *)
(* or when as many bytes have come as the size says and fail verification.       *)
NextPiece(st, piece, closes) ==
  IF st.closed THEN st
  ELSE IF st.buffer = Empty
  THEN CASE piece.part # "header" -> [st EXCEPT !.buffer = Garbage, !.closed = closes]
         [] piece.part = "header" /\ ~ SizeAllowed(piece) -> [st EXCEPT !.closed = TRUE]
         [] piece.part = "header" /\ SizeAllowed(piece) ->
              IF piece.kind = "bare"
              THEN [st EXCEPT !.messages = Append(@, <<piece>>)]
              ELSE [st EXCEPT !.buffer = piece]
  ELSE IF st.buffer = Garbage THEN [st EXCEPT !.closed = closes]
  ELSE IF deserialize(st.buffer, piece)
  THEN [st EXCEPT !.messages = Append(@, <<st.buffer, piece>>), !.buffer = Empty]
  ELSE [st EXCEPT !.buffer = Garbage, !.closed = closes]

(* The messages completed by data, the buffer it leaves, and whether the        *)
(* connection has to be closed.                                                 *)
handle_raw_data(buffer, data, closes) ==
  MapThenFoldSet(LAMBDA piece, st : NextPiece(st, piece, closes),
                 [buffer |-> buffer, messages |-> << >>, closed |-> FALSE],
                 LAMBDA i : data[i], Max, DOMAIN data)
=============================================================================
