-------------------------- MODULE MCOrderRequests --------------------------
(* Three calls over two keys with a lock each, that share the guest user and  *)
(* two connections, and two bodies of which one is refused.                    *)
EXTENDS OrderRequests, TLC

MCSlotOf == "k1" :> 1 @@ "k2" :> 2
=============================================================================
