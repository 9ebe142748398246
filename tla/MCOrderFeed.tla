---------------------------- MODULE MCOrderFeed ----------------------------
(* Two changes at a time of one order; the ring holds two events, so a        *)
(* process of three evicts, and every cursor up to beyond the last id is       *)
(* tried.  Streams and sockets share no state: a behaviour has the one or the  *)
(* other, which takes no step from the changes.                                *)
EXTENDS OrderFeed, TLC

MCStreamsOrSockets ==
  (\A s \in Streams : stream'[s] = Closed) \/ (\A k \in Sockets : socket'[k] = "new")
=============================================================================
