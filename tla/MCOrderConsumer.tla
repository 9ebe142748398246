-------------------------- MODULE MCOrderConsumer --------------------------
(* Two consumers and two copies, of the same order or of a forged event, so  *)
(* that a redelivered copy, its duplicate and a lost handler can overlap.     *)
EXTENDS OrderConsumer

MCHandlers == Consumers \X Msgs
=============================================================================
