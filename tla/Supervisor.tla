----------------------------- MODULE Supervisor -----------------------------
(***************************************************************************)
(* What main() of iocd promises, without threads, mutex or HTTP daemons.   *)
(*                                                                         *)
(* The process runs generation after generation.  A generation builds the  *)
(* Interfaces object, may serve HTTP requests, is asked things (quit,      *)
(* restart, ...), chooses one of the things it was asked, lets the         *)
(* requests in progress finish, and gives way to the next generation or    *)
(* to the end of the process.                                              *)
(***************************************************************************)
CONSTANTS
    Conn,       \* the connections a request can come over
    Asks,       \* what a generation can be asked
    EndingAsks  \* the asks that end the process instead of the generation

VARIABLES
    phase,      \* "off", "starting", "serving", "leaving" or "ended"
    asked,      \* what this generation has been asked so far
    choice,     \* what it chose to act on; "none" if nothing
    busy,       \* the connections whose request is in progress
    cause       \* why the process ended or is about to; "none" if it is not

avars == <<phase, asked, choice, busy, cause>>

Alive == phase \in {"starting", "serving", "leaving"}

Init ==
    /\ phase = "off"
    /\ asked = {}
    /\ choice = "none"
    /\ busy = {}
    /\ cause = "none"

(* A generation starts with nothing asked of it and no request running. *)
Begin ==
    /\ phase = "off"
    /\ phase' = "starting"
    /\ asked' = {}
    /\ UNCHANGED <<choice, busy, cause>>

Serve ==
    /\ phase = "starting"
    /\ phase' = "serving"
    /\ UNCHANGED <<asked, choice, busy, cause>>

(* A generation that cannot serve is given up, with its requests. *)
GiveUp ==
    /\ phase = "starting"
    /\ phase' = "leaving"
    /\ busy' = {}
    /\ UNCHANGED <<asked, choice, cause>>

(* A generation whose only purpose was to list the controls is done. *)
Done ==
    /\ phase = "starting"
    /\ phase' = "leaving"
    /\ cause' = "oneshot"
    /\ UNCHANGED <<asked, choice, busy>>

Ask(v) ==
    /\ Alive
    /\ asked' = asked \cup {v}
    /\ UNCHANGED <<phase, choice, busy, cause>>

(* Requests run only while the generation is alive. *)
Enter(c) ==
    /\ phase \in {"starting", "serving", "leaving"}
    /\ busy' = busy \cup {c}
    /\ UNCHANGED <<phase, asked, choice, cause>>

Leave(c) ==
    /\ busy' = busy \ {c}
    /\ UNCHANGED <<phase, asked, choice, cause>>

(* The generation acts only on what it was asked itself, or on nothing. *)
Choose(v) ==
    /\ phase = "serving"
    /\ v \in asked \cup {"none"}
    /\ phase' = "leaving"
    /\ choice' = v
    /\ UNCHANGED <<asked, busy, cause>>

(* An ending ask makes the end of this generation the end of the process. *)
Heed ==
    /\ phase = "leaving"
    /\ choice \in EndingAsks
    /\ busy = {}
    /\ cause' = "quit"
    /\ UNCHANGED <<phase, asked, choice, busy>>

(* The generation is over only when no request is running any more. *)
Over ==
    /\ phase = "leaving"
    /\ busy = {}
    /\ choice \in EndingAsks => cause = "quit"
    /\ phase' = IF cause = "none" THEN "off" ELSE "ended"
    /\ choice' = "none"
    /\ UNCHANGED <<asked, busy, cause>>

(* The process can be killed, or crash, at any time. *)
Die ==
    /\ phase # "ended"
    /\ phase' = "ended"
    /\ cause' \in {"killed", "crashed"}
    /\ UNCHANGED <<asked, choice, busy>>

Next ==
    \/ Begin \/ Serve \/ GiveUp \/ Done \/ Heed \/ Over \/ Die
    \/ \E v \in Asks : Ask(v)
    \/ \E v \in Asks \cup {"none"} : Choose(v)
    \/ \E c \in Conn : Enter(c) \/ Leave(c)

Spec == Init /\ [][Next]_avars
=============================================================================
