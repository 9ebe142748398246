---------------------------- MODULE MCJobWorker ----------------------------
(* Two workers over two jobs, so that one can wait for a job the other one     *)
(* holds and then fails to finish.                                             *)
EXTENDS JobWorker, TLC

MCTwo == 1..2
=============================================================================
