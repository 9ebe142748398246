--------------------------- MODULE MCOutboxRelay ---------------------------
(* Two relays, so that a row can be locked by the other one, and batches of   *)
(* several rows.                                                               *)
EXTENDS OutboxRelay, TLC

MCTwo == 1..2
=============================================================================
