------------------------------ MODULE MCDaemon ------------------------------
(* Daemon with two connection threads, which TLC may exchange, and what the *)
(* requests and the user ask for. *)
EXTENDS Daemon, TLC

CONSTANTS c1, c2

MCConn == {c1, c2}
MCOne  == {c1}
MCNone == {}

MCAllValues == {"user_quit", "user_restart", "major_error"}
MCRestart   == {"user_restart"}
MCAllSigs   == {"INT", "QUIT"}
MCInt       == {"INT"}

ConnSymmetry == Permutations(MCConn)
=============================================================================
