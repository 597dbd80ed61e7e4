--------------------------- MODULE MCEventDelivery ---------------------------
(* Small instances of the event delivery. *)
EXTENDS EventDelivery, TLC

(* Any number a client could have read off the stream, and none. *)
AnySince == 0..MaxSeq
NoSince == {0}
=============================================================================
