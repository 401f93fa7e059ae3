---------------------------- MODULE K8055Outputs ----------------------------
(***************************************************************************)
(* The outputs of the Velleman K8055 card (class DeviceK8055) written by   *)
(* concurrent HTTP requests.                                               *)
(*                                                                         *)
(* The card cannot be read back: the program keeps a shadow of all outputs *)
(* and sends all of them with every write.  The shadow is shared by the    *)
(* connection threads without a lock.  Interface::lock is held during one  *)
(* USB transfer only, so a transfer is one step here, and everything else  *)
(* is split where another thread can get in between.                       *)
(*                                                                         *)
(* Two of the eight digital outputs and one of the two analog outputs, of  *)
(* two values each, stand for all of them: the digital outputs share one   *)
(* word, the analog output is a variable of its own.                       *)
(***************************************************************************)
CONSTANT Thread     \* connection threads

VARIABLES
    digital_outputs,    \* shadow: DeviceK8055::digital_outputs
    analog_output,      \* shadow: one of DeviceK8055::analog_outputs
    card,               \* what the card puts out: a packet
    pc,                 \* where each thread is in write(); "idle" if not in it
    target,             \* the output it writes
    value,              \* the value it writes
    word,               \* the digital word it loaded
    packet,             \* the output_packet it fills
    restart,            \* a major_exception asked for a restart
    crossed,            \* history: threads whose write() overlapped another
    contested,          \* history: those that overlapped one to the same output
    asked,              \* history: the values each output was asked to take
    expected            \* history: what the card must put out after an "OK"

shadow == <<digital_outputs, analog_output>>
locals == <<target, value, word, packet>>
history == <<crossed, contested, asked, expected>>
vars == <<shadow, card, pc, locals, restart, history>>

Bits    == {"d0", "d1"}
Outputs == Bits \cup {"a"}
Value   == {"off", "on"}
Zeros   == [b \in Bits |-> "off"]
Packets == [dig : [Bits -> Value], ana : Value]
Zero    == [dig |-> Zeros, ana |-> "off"]

(* The output o of packet p *)
Out(p, o) == IF o = "a" THEN p.ana ELSE p.dig[o]

TypeOK ==
    /\ digital_outputs \in [Bits -> Value]
    /\ analog_output \in Value
    /\ card \in Packets
    /\ pc \in [Thread -> {"idle", "load", "store", "analog", "pack_d", "pack_a",
                          "send", "status"}]
    /\ target \in [Thread -> Outputs]
    /\ value \in [Thread -> Value]
    /\ word \in [Thread -> [Bits -> Value]]
    /\ packet \in [Thread -> Packets]
    /\ restart \in {"no", "asked"}
    /\ crossed \subseteq Thread
    /\ contested \subseteq crossed
    /\ asked \in [Outputs -> SUBSET Value]
    /\ expected \in [Outputs -> Value \cup {"any"}]

-----------------------------------------------------------------------------
Active == {t \in Thread : pc[t] # "idle"}

(* The threads that are writing output o. *)
Writing(o) == {t \in Active : target[t] = o}

(* t is added to the set s together with those it overlaps, if any. *)
Overlap(s, t, others) == IF others = {} THEN s \ {t} ELSE s \cup others \cup {t}

Goto(t, l) == pc' = [pc EXCEPT ![t] = l]
At(t, l) == pc[t] = l

(* A value outside the control's range is refused before anything changes. *)
InRange_Unchecked(v) == TRUE
InRange(v) == v \in Value

(* write(): a digital output is one bit of a word, an analog one a byte *)
Begin(t, o, v) ==
    /\ At(t, "idle")
    /\ InRange(v)
    /\ Goto(t, IF o \in Bits THEN "load" ELSE "analog")
    /\ target' = [target EXCEPT ![t] = o]
    /\ value' = [value EXCEPT ![t] = v]
    /\ asked' = [asked EXCEPT ![o] = @ \cup {v}]
    /\ expected' = [expected EXCEPT ![o] = "any"]
    /\ crossed' = Overlap(crossed, t, Active)
    /\ contested' = Overlap(contested, t, Writing(o))
    /\ UNCHANGED <<shadow, card, word, packet, restart>>

(* digital_outputs[ordinal] = !!value: load the word, change the bit, store *)
Load(t) ==
    /\ At(t, "load")
    /\ Goto(t, "store")
    /\ word' = [word EXCEPT ![t] = digital_outputs]
    /\ UNCHANGED <<shadow, card, target, value, packet, restart, history>>

Store(t) ==
    /\ At(t, "store")
    /\ Goto(t, "pack_d")
    /\ digital_outputs' = [word[t] EXCEPT ![target[t]] = value[t]]
    /\ word' = [word EXCEPT ![t] = Zeros]
    /\ UNCHANGED <<analog_output, card, target, value, packet, restart, history>>

SetAnalog(t) ==
    /\ At(t, "analog")
    /\ Goto(t, "pack_d")
    /\ analog_output' = value[t]
    /\ UNCHANGED <<digital_outputs, card, locals, restart, history>>

(* update_outputs() copies the shadow, field by field *)
PackDigital(t) ==
    /\ At(t, "pack_d")
    /\ Goto(t, "pack_a")
    /\ packet' = [packet EXCEPT ![t].dig = digital_outputs]
    /\ UNCHANGED <<shadow, card, target, value, word, restart, history>>

PackAnalog_Forgotten(t) ==
    /\ At(t, "pack_a")
    /\ Goto(t, "send")
    /\ UNCHANGED <<shadow, card, locals, restart, history>>

PackAnalog(t) ==
    /\ At(t, "pack_a")
    /\ Goto(t, "send")
    /\ packet' = [packet EXCEPT ![t].ana = analog_output]
    /\ UNCHANGED <<shadow, card, target, value, word, restart, history>>

SendCommand(t) ==
    /\ At(t, "send")
    /\ Goto(t, "status")
    /\ card' = packet[t]
    /\ UNCHANGED <<shadow, locals, restart, history>>

(* a thread leaves write() *)
Return(t) ==
    /\ Goto(t, "idle")
    /\ packet' = [packet EXCEPT ![t] = Zero]
    /\ UNCHANGED <<shadow, target, value, word, crossed, contested, asked>>

(* The status is good: the page says "OK".  If nobody else was writing     *)
(* this output, it must have the value from now on.                        *)
StatusGood(t) ==
    /\ At(t, "status")
    /\ Return(t)
    /\ expected' = [expected EXCEPT ![target[t]] =
                        IF t \in contested THEN "any" ELSE value[t]]
    /\ UNCHANGED <<card, restart>>

(* A transfer fails, or the status is bad: major_exception.  A packet may  *)
(* have reached the card although its transfer is reported as failed.      *)
Fails(t) ==
    /\ pc[t] \in {"send", "status"}
    /\ card' \in IF At(t, "send") THEN {card, packet[t]} ELSE {card}
    /\ Return(t)
    /\ restart' = "asked"
    /\ UNCHANGED expected

(* A new generation probes the card, with a reset that clears its outputs; *)
(* main waits for the connection threads first.                            *)
Construct_KeepsAnalog ==
    /\ Active = {}
    /\ digital_outputs' = Zeros
    /\ card' = Zero
    /\ restart' = "no"
    /\ asked' = [o \in Outputs |-> {"off"}]
    /\ expected' = [o \in Outputs |-> "off"]
    /\ UNCHANGED <<analog_output, pc, locals, crossed, contested>>

Construct ==
    /\ Active = {}
    /\ digital_outputs' = Zeros
    /\ analog_output' = "off"
    /\ card' = Zero
    /\ restart' = "no"
    /\ asked' = [o \in Outputs |-> {"off"}]
    /\ expected' = [o \in Outputs |-> "off"]
    /\ UNCHANGED <<pc, locals, crossed, contested>>

Init ==
    /\ digital_outputs = Zeros
    /\ analog_output = "off"
    /\ card = Zero
    /\ pc = [t \in Thread |-> "idle"]
    /\ target = [t \in Thread |-> "a"]
    /\ value = [t \in Thread |-> "off"]
    /\ word = [t \in Thread |-> Zeros]
    /\ packet = [t \in Thread |-> Zero]
    /\ restart = "no"
    /\ crossed = {}
    /\ contested = {}
    /\ asked = [o \in Outputs |-> {"off"}]
    /\ expected = [o \in Outputs |-> "off"]

ThreadStep(t) ==
    \/ \E o \in Outputs, v \in Value \cup {"too big"} : Begin(t, o, v)
    \/ Load(t) \/ Store(t) \/ SetAnalog(t)
    \/ PackDigital(t) \/ PackAnalog(t) \/ SendCommand(t)
    \/ StatusGood(t) \/ Fails(t)

Next == Construct \/ \E t \in Thread : ThreadStep(t)

Spec == Init /\ [][Next]_vars

-----------------------------------------------------------------------------
(* Properties *)

(* A write that ran alone and was answered "OK" leaves the card in step    *)
(* with the shadow, whatever earlier writes, races and failures did to     *)
(* them: every write sends every output.                                   *)
AloneReconciles ==
    [][\A t \in Thread :
          StatusGood(t) /\ t \notin crossed =>
              card = [dig |-> digital_outputs, ana |-> analog_output]]_vars

(* Lost updates bring back old values, but an output never takes a value   *)
(* that nobody asked for in this generation.                               *)
NothingInvented ==
    \A o \in Outputs :
        /\ Out(card, o) \in asked[o]
        /\ Out([dig |-> digital_outputs, ana |-> analog_output], o) \in asked[o]

(* NOT satisfied.  After "OK", and with no other write to the same output, *)
(* the output has the value until the next write to it.                    *)
OkWriteHolds ==
    restart = "no" => \A o \in Outputs : expected[o] \in {"any", Out(card, o)}
=============================================================================
