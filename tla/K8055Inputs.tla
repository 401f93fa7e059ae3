----------------------------- MODULE K8055Inputs -----------------------------
(***************************************************************************)
(* The pulse counters of the K8055 card (class DeviceK8055) read and reset *)
(* by concurrent HTTP requests.                                            *)
(*                                                                         *)
(* The card keeps one input packet ready: a read returns the packet it     *)
(* prepared after the previous read, with the counter as it was then.      *)
(* update_inputs() therefore reads twice and uses the second packet.  It   *)
(* stores the counter in a member shared by all threads, and the callers   *)
(* read that member afterwards.  Interface::lock covers one USB transfer.  *)
(*                                                                         *)
(* One of the two counters stands for both; Width is 2^16 in the card.     *)
(* The digital and analog inputs take the same path.                       *)
(***************************************************************************)
EXTENDS Integers, FiniteSetsExt

CONSTANTS
    Thread,     \* connection threads
    Width,      \* the counters count modulo Width
    MaxPulses   \* bound: pulses on the input over the whole run

ASSUME WidthAssumption  == Width \in Nat /\ Width > 1
ASSUME PulsesAssumption == MaxPulses \in Nat

VARIABLES
    counter,    \* the card's counter
    ready,      \* the counter in the packet the card has ready
    counters,   \* DeviceK8055::counters[0], shared
    pc,         \* where each thread is in readcounter() or readresetcounter()
    op,         \* which of the two it runs
    got,        \* the counter in the packet it read
    result,     \* what readcounter() returned to it
    pulses,     \* history: pulses so far
    counted,    \* history: sum of what readresetcounter() returned
    before,     \* history: the card's counter when the operation began
    crossed,    \* history: threads whose operation overlapped another
    trouble,    \* history: overlap, failed reset or wrapped counter so far
    window      \* history: pulses between the last read and the reset of it

history == <<pulses, counted, before, crossed, trouble, window>>
vars == <<counter, ready, counters, pc, op, got, result, history>>

Count  == 0 .. Width - 1
Tally  == 0 .. MaxPulses

TypeOK ==
    /\ counter \in Count
    /\ ready \in Count
    /\ counters \in Count
    /\ pc \in [Thread -> {"idle", "recv1", "recv2", "store", "fetch", "reset", "status"}]
    /\ op \in [Thread -> {"readcounter", "readresetcounter"}]
    /\ got \in [Thread -> Count]
    /\ result \in [Thread -> Count]
    /\ pulses \in Tally
    /\ counted \in 0 .. MaxPulses + 1
    /\ before \in [Thread -> Count]
    /\ crossed \subseteq Thread
    /\ trouble \subseteq {"overlap", "failure", "wrap"}
    /\ window \in Tally

-----------------------------------------------------------------------------
Active == {t \in Thread : pc[t] # "idle"}

At(t, l) == pc[t] = l
Goto(t, l) == pc' = [pc EXCEPT ![t] = l]

(* Some thread has taken a packet it is going to report and reset. *)
Resetting ==
    \E t \in Thread : /\ op[t] = "readresetcounter"
                      /\ pc[t] \in {"recv2", "store", "fetch", "reset"}

(* uint16_t *)
Increment_Wide(n) == n + 1
Increment(n) == (n + 1) % Width

(* A pulse arrives at the card. *)
Pulse ==
    /\ pulses < MaxPulses
    /\ pulses' = pulses + 1
    /\ counter' = Increment(counter)
    /\ window' = IF Resetting THEN window + 1 ELSE window
    /\ trouble' = IF counter' < counter THEN trouble \cup {"wrap"} ELSE trouble
    /\ UNCHANGED <<ready, counters, pc, op, got, result, counted, before, crossed>>

(* Every input packet that is read makes the card prepare the next one. *)
TakePacket == ready' = counter

(* readcounter() and readresetcounter() do not ask what type of control    *)
(* they are called for.                                                    *)
Begin(t, o) ==
    /\ At(t, "idle")
    /\ Goto(t, "recv1")
    /\ op' = [op EXCEPT ![t] = o]
    /\ before' = [before EXCEPT ![t] = counter]
    /\ crossed' = IF Active = {} THEN crossed \ {t} ELSE crossed \cup Active \cup {t}
    /\ trouble' = IF Active = {} THEN trouble ELSE trouble \cup {"overlap"}
    /\ UNCHANGED <<counter, ready, counters, got, result, pulses, counted, window>>

(* update_inputs(): the first packet is thrown away *)
Receive1_Skip(t) ==
    /\ At(t, "recv1")
    /\ Goto(t, "recv2")
    /\ UNCHANGED <<counter, ready, counters, op, got, result, history>>

Receive1(t) ==
    /\ At(t, "recv1")
    /\ TakePacket
    /\ Goto(t, "recv2")
    /\ UNCHANGED <<counter, counters, op, got, result, history>>

Receive2(t) ==
    /\ At(t, "recv2")
    /\ got' = [got EXCEPT ![t] = ready]
    /\ TakePacket
    /\ Goto(t, "store")
    /\ UNCHANGED <<counter, counters, op, result, history>>

(* the end of update_inputs() *)
StoreCounter(t) ==
    /\ At(t, "store")
    /\ counters' = got[t]
    /\ got' = [got EXCEPT ![t] = 0]
    /\ Goto(t, "fetch")
    /\ UNCHANGED <<counter, ready, op, result, history>>

(* return(counters[ordinal]): whoever stored it last *)
Fetch(t) ==
    /\ At(t, "fetch")
    /\ result' = [result EXCEPT ![t] = counters]
    /\ Goto(t, IF op[t] = "readcounter" THEN "idle" ELSE "reset")
    /\ UNCHANGED <<counter, ready, counters, op, got, history>>

ResetCounter_Refused(t) ==
    /\ At(t, "reset")
    /\ Goto(t, "status")
    /\ UNCHANGED <<counter, ready, counters, op, got, result, history>>

ResetCounter(t) ==
    /\ At(t, "reset")
    /\ counter' = 0
    /\ Goto(t, "status")
    /\ UNCHANGED <<ready, counters, op, got, result, history>>

(* counted saturates one above what can have been counted *)
Status(t) ==
    /\ At(t, "status")
    /\ TakePacket
    /\ counted' = Min({counted + result[t], MaxPulses + 1})
    /\ Goto(t, "idle")
    /\ UNCHANGED <<counter, counters, op, got, result, pulses, before, crossed, trouble, window>>

(* A transfer fails, or the status is bad: major_exception, the value that *)
(* was read is lost, and a reset may have been carried out or not.         *)
Fails(t) ==
    /\ pc[t] \in {"recv1", "recv2", "reset", "status"}
    /\ counter' \in IF At(t, "reset") THEN {counter, 0} ELSE {counter}
    /\ trouble' = IF pc[t] \in {"reset", "status"} THEN trouble \cup {"failure"} ELSE trouble
    /\ Goto(t, "idle")
    /\ UNCHANGED <<ready, counters, op, got, result, pulses, counted, before, crossed, window>>

Init ==
    /\ counter = 0
    /\ ready = 0
    /\ counters = 0
    /\ pc = [t \in Thread |-> "idle"]
    /\ op = [t \in Thread |-> "readcounter"]
    /\ got = [t \in Thread |-> 0]
    /\ result = [t \in Thread |-> 0]
    /\ pulses = 0
    /\ counted = 0
    /\ before = [t \in Thread |-> 0]
    /\ crossed = {}
    /\ trouble = {}
    /\ window = 0

ThreadStep(t) ==
    \/ Begin(t, "readcounter") \/ Begin(t, "readresetcounter")
    \/ Receive1(t) \/ Receive2(t) \/ StoreCounter(t) \/ Fetch(t)
    \/ ResetCounter(t) \/ Status(t) \/ Fails(t)

Next == Pulse \/ \E t \in Thread : ThreadStep(t)

Spec == Init /\ [][Next]_vars

-----------------------------------------------------------------------------
(* Properties *)

(* What a readcounter() that ran alone returns was the counter of the card *)
(* at some moment of the call, and not before it (unless it has wrapped).  *)
AloneReadIsFresh ==
    [][\A t \in Thread :
          Fetch(t) /\ op[t] = "readcounter" /\ t \notin crossed /\ "wrap" \notin trouble =>
              before[t] <= result'[t] /\ result'[t] <= counter]_vars

(* As long as operations do not overlap, a pulse is never reported twice;  *)
(* if no reset fails and the counter does not wrap either, those neither   *)
(* reported nor still in the counter came between the read and the reset   *)
(* of a readresetcounter().                                                *)
PulsesAccounted ==
    LET missing == pulses - (counted + counter) IN
        /\ "overlap" \notin trouble => 0 <= missing
        /\ trouble = {} /\ Active = {} => missing <= window
=============================================================================
