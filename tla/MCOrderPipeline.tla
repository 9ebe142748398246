-------------------------- MODULE MCOrderPipeline --------------------------
(* The deployed processes: one outbox-relay and one worker, for one order. *)
EXTENDS OrderPipeline

MCOne == 1..1
=============================================================================
