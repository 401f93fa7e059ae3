--------------------------- MODULE MCK8055Inputs ---------------------------
(* K8055Inputs with two connection threads, which TLC may exchange. *)
EXTENDS K8055Inputs, TLC

CONSTANTS t1, t2

MCThread == {t1, t2}

ThreadSymmetry == Permutations(MCThread)
=============================================================================
