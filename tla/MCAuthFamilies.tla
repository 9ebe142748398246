--------------------------- MODULE MCAuthFamilies ---------------------------
(* One family, since nothing relates two: two calls that may present the same *)
(* token, two generations, and a clock that outlives every token.              *)
EXTENDS AuthFamilies, TLC
=============================================================================
