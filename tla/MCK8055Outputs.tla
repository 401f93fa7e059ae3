--------------------------- MODULE MCK8055Outputs ---------------------------
(* K8055Outputs with two connection threads, which TLC may exchange. *)
EXTENDS K8055Outputs, TLC

CONSTANTS t1, t2

MCThread == {t1, t2}

ThreadSymmetry == Permutations(MCThread)
=============================================================================
