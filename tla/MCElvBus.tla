------------------------------ MODULE MCElvBus ------------------------------
(* ElvBus with two connection threads, which TLC may exchange, and answers *)
(* with two of the digits.                                                 *)
EXTENDS ElvBus, TLC

CONSTANTS t1, t2, s1, s2, b1, c1, c2

MCThread  == {t1, t2}
MCSensor  == {s1}
MCBoard   == {b1}
MCCommand == {c1, c2}
MCDigits  == {1, 15}

ThreadSymmetry  == Permutations(MCThread)
CommandSymmetry == Permutations(MCCommand)
MCSymmetry      == ThreadSymmetry \cup CommandSymmetry

=============================================================================
