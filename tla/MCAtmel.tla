------------------------------- MODULE MCAtmel -------------------------------
(* Atmel with two connection threads and two boards of two analog inputs,  *)
(* one digital input and one pwm mode.                                     *)
EXTENDS Atmel, TLC

CONSTANTS t1, t2, b2, b3, a1, a2, d1, m1

MCThread  == {t1, t2}
MCAnalog  == {a1, a2}
MCInput   == {d1}
MCOldAdc  == {b2}
MCMode    == {m1}
MCValue   == {3, 4}
MCNone    == {}

MCSymmetry == Permutations(MCThread) \cup Permutations(MCAnalog)
=============================================================================
