--------------------------- MODULE MCRestoreDrill ---------------------------
(* One drill, interrupted at any point. *)
EXTENDS RestoreDrill
=============================================================================
