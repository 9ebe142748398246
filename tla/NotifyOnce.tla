----------------------------- MODULE NotifyOnce -----------------------------
(***************************************************************************)
(* What the asynchronous half of the marketplace promises, whatever the     *)
(* transport: an order that committed is notified, at most once, and an     *)
(* order that did not commit never is ("exactly-once result in the          *)
(* database", src/marketplace/README.md).                                   *)
(***************************************************************************)
EXTENDS Naturals

CONSTANT Orders

VARIABLES
  placed,    \* orders whose transaction committed
  notices    \* notification rows of each order

Init == placed = {} /\ notices = [o \in Orders |-> 0]

Place(o) ==
  /\ o \notin placed
  /\ placed' = placed \cup {o}
  /\ notices' = notices

Notify(o) ==
  /\ o \in placed /\ notices[o] = 0
  /\ notices' = [notices EXCEPT ![o] = 1]
  /\ placed' = placed

Next == \E o \in Orders : Place(o) \/ Notify(o)

Spec == Init /\ [][Next]_<<placed, notices>>

(* Every committed order is notified in the end. *)
EventuallyNotified == \A o \in Orders : o \in placed ~> notices[o] = 1
=============================================================================
