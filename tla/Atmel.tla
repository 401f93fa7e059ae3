-------------------------------- MODULE Atmel --------------------------------
(***************************************************************************)
(* The calls pages make on the Atmel boards behind the ELV adapter (class  *)
(* DeviceAtmel): each is an exchange of one command and one reply, or, for *)
(* an analog input of a board with the old ADC protocol, of three.  A      *)
(* command is written with one line to the adapter and its reply asked for *)
(* with another, so other threads get in between (see module ElvBus for    *)
(* the single system calls).                                               *)
(*                                                                         *)
(* A reply names the first byte of its command (operation and control) and *)
(* carries a checksum.  It does not name the board, and there are two of   *)
(* them (probe_all_devices probes 0x02 and 0x03).  The command that starts *)
(* a conversion with the old protocol names no control either.             *)
(*                                                                         *)
(* The boards and the adapter are external.  They handle lines in their    *)
(* order; a reply may come late or never.  A reply that comes in two parts *)
(* is one that comes too late: neither part has a good checksum.           *)
(*                                                                         *)
(* A call with an operation the control does not have, or a value out of   *)
(* its range, throws before it talks to a board and is not modelled.       *)
(***************************************************************************)
EXTENDS Naturals, FiniteSets, Sequences

CONSTANTS
    Thread,     \* connection threads
    Board02,    \* the board at address 0x02
    Board03,    \* the board at address 0x03
    OldAdc,     \* the boards whose firmware has the old ADC protocol
    Analog,     \* analog inputs
    Input,      \* digital inputs; the first is not told from the others
    Output,     \* levels of digital and pwm outputs
    Mode,       \* pwm modes of the same outputs
    Value,      \* values a client asks to write
    Byte,       \* what the mask of a counter leaves: values below Byte
    MaxLate,    \* bound: replies on their way and calls in progress, at a new call
    MaxLine,    \* bound: replies on their way at any time
    MaxPulses   \* bound: pulses between two resets of the history

Board   == {Board02, Board03}
Control == Analog \cup Input \cup Output \cup Mode

ASSUME ThreadAssumption == IsFiniteSet(Thread)
ASSUME BoardAssumption == Board02 # Board03 /\ OldAdc \subseteq Board
ASSUME ValueAssumption == Value \subseteq Nat /\ Byte \in Nat \ {0}
ASSUME BoundAssumption == MaxLate \in Nat /\ MaxLine \in Nat /\ MaxPulses \in Nat
ASSUME KindAssumption ==
    /\ Analog \cap (Input \cup Output \cup Mode) = {}
    /\ Input \cap (Output \cup Mode) = {}
    /\ Output \cap Mode = {}

VARIABLES
    channel,    \* the analog input the converter of each board is set to
    stored,     \* its outputs and modes
    counter,    \* the pulses it has counted on its digital input
    reply,      \* the reply it holds, to be asked for
    line,       \* the replies on their way to iocd
    pc,         \* where each thread is in command()
    call,       \* the call it executes
    stage,      \* the command of the call it is at
    tangled,    \* history: calls overlap, or replies of such calls are about
    stale,      \* history: the replies on their way as the last call began
    made,       \* history: the pulses there were
    reported,   \* history: the pulses readresetcounter() returned
    lossy       \* history: such a call failed, or its value was masked

boards  == <<channel, stored, counter, reply>>
accounts == <<made, reported, lossy>>
history == <<tangled, stale, made, reported, lossy>>
vars    == <<boards, line, pc, call, stage, history>>

(* writepwmmode(): the modes off, down, up and up/down *)
Modes_OneMore == 0 .. 4
Modes == 0 .. 3

(* The operations of a control of a board; the boards have the same. *)
Calls ==
    [to : Board, op : {"adc"},            on : Analog,           value : {0}] \cup
    [to : Board, op : {"get"},            on : Control \ Analog, value : {0}] \cup
    [to : Board, op : {"set"},            on : Output,           value : Value] \cup
    [to : Board, op : {"set"},            on : Mode,             value : Value \cap Modes] \cup
    [to : Board, op : {"count", "reset"}, on : Input,            value : {0}]


(* Without a length (size 0) a reply is an acknowledgement.  The data of a *)
(* conversion is said by the channel that was converted.                   *)
Replies ==
    [from : Board, op : {"adc", "get", "set", "count", "reset", "start"},
     on : Control, size : {0, 1}, good : {"yes", "no"},
     data : Nat \cup Analog]

NoReply == [op |-> "none"]
NoCall  == [op |-> "none"]

(* The pulses that are counted and not yet asked for. *)
Counted == counter[Board02] + counter[Board03]

TypeOK ==
    /\ channel \in [Board -> Analog]
    /\ stored \in [Board -> [Output \cup Mode -> Nat]]
    /\ \A b \in Board, x \in Mode : stored[b][x] <= 3
    /\ counter \in [Board -> Nat]
    /\ Counted <= MaxPulses
    /\ reply \in [Board -> Replies \cup {NoReply}]
    /\ line \in Seq(Replies)
    /\ pc \in [Thread -> {"idle", "command", "ask", "await"}]
    /\ call \in [Thread -> Calls \cup {NoCall}]
    /\ stage \in [Thread -> {"only", "select", "start"}]
    /\ {tangled, lossy} \subseteq {"yes", "no"}
    /\ stale \in 0 .. MaxLate
    /\ made \in 0 .. MaxPulses
    /\ reported \in Nat

-----------------------------------------------------------------------------
Active == {t \in Thread : pc[t] # "idle"}

Goto(t, l) == pc' = [pc EXCEPT ![t] = l]

(* A call begins: read(), write(), readcounter(), readresetcounter(),      *)
(* readpwmmode() or writepwmmode().  A call with nothing about starts the  *)
(* history anew.                                                           *)
Begin(t, c) ==
    /\ pc[t] = "idle"
    /\ Len(line) + Cardinality(Active) <= MaxLate
    /\ Goto(t, "command")
    /\ call' = [call EXCEPT ![t] = c]
    /\ stage' = [stage EXCEPT ![t] = "only"]
    /\ tangled' = IF Active # {} THEN "yes" ELSE IF line = <<>> THEN "no" ELSE tangled
    /\ stale' = IF tangled' = "yes" THEN 0 ELSE Len(line)
    /\ IF tangled' = "no" /\ line # <<>>
       THEN UNCHANGED <<made, reported, lossy>>
       ELSE /\ made' = IF tangled' = "no" THEN Counted ELSE 0
            /\ reported' = 0 /\ lossy' = "no"
    /\ UNCHANGED <<boards, line>>

(* The call returns or throws. *)
End(t) ==
    /\ Goto(t, "idle")
    /\ call' = [call EXCEPT ![t] = NoCall]
    /\ stage' = [stage EXCEPT ![t] = "only"]

(* The bytes a command consists of.  Selecting a channel with the old ADC  *)
(* protocol is the same byte as converting it with the new one.            *)
Sent_NoReset(t) ==
    CASE stage[t] = "start" -> [op |-> "start"]
      [] call[t].op = "reset" -> [op |-> "count", on |-> call[t].on]
      [] OTHER -> [op |-> call[t].op, on |-> call[t].on]

Sent(t) ==
    IF stage[t] = "start" THEN [op |-> "start"]
                          ELSE [op |-> call[t].op, on |-> call[t].on]

(* expected_length: 0 (not checked) for writes and for selecting a channel *)
Expected(t) ==
    IF stage[t] = "select" \/ (stage[t] = "only" /\ call[t].op = "set") THEN 0 ELSE 1

-----------------------------------------------------------------------------
(* write_raw() reads away the replies that have come so far. *)
Backlog == {SubSeq(line, n + 1, Len(line)) : n \in 0 .. Len(line)}

(* A board's answer to a command; mode 3 may be reported as 4. *)
Data(t) ==
    LET b == call[t].to
        x == call[t].on
    IN  IF stage[t] = "start" THEN {channel[b]}
        ELSE CASE call[t].op = "adc" -> {x}
               [] call[t].op \in {"count", "reset"} -> {counter[b]}
               [] call[t].op = "get" /\ x \in Mode ->
                     IF stored[b][x] = 3 THEN {3, 4} ELSE {stored[b][x]}
               [] call[t].op = "get" /\ x \in Output -> {stored[b][x]}
               [] OTHER -> {0}

(* The old firmware only selects where the new one converts; the new one   *)
(* may not know the old start of a conversion.                             *)
Size(t) ==
    IF stage[t] # "start" /\ (call[t].op = "set" \/ (call[t].op = "adc" /\ call[t].to \in OldAdc))
    THEN 0 ELSE 1

Answers(t) ==
    [from : {call[t].to}, op : {Sent(t).op},
     on : {IF stage[t] = "start" THEN channel[call[t].to] ELSE call[t].on},
     size : {Size(t)}, data : Data(t),
     good : IF stage[t] = "start" /\ call[t].to \notin OldAdc
            THEN {"yes", "no"} ELSE {"yes"}]

(* command(): write_data.  The board executes the command. *)
WriteCommand(t) ==
    /\ pc[t] = "command"
    /\ Goto(t, "ask")
    /\ line' \in Backlog
    /\ \E r \in Answers(t) : reply' = [reply EXCEPT ![call[t].to] = r]
    /\ channel' = IF Sent(t).op = "adc"
                  THEN [channel EXCEPT ![call[t].to] = call[t].on] ELSE channel
    /\ stored' = IF Sent(t).op = "set"
                 THEN [stored EXCEPT ![call[t].to][call[t].on] = call[t].value] ELSE stored
    /\ counter' = IF Sent(t).op = "reset"
                  THEN [counter EXCEPT ![call[t].to] = 0] ELSE counter
    /\ UNCHANGED <<call, stage, history>>

(* read_data asks for the reply the board holds, whoever it is for; the    *)
(* board gives it once.                                                    *)
AskReply(t) ==
    /\ pc[t] = "ask"
    /\ Goto(t, "await")
    /\ \E rest \in Backlog :
          \/ line' = rest
          \/ /\ reply[call[t].to] # NoReply
             /\ Len(rest) < MaxLine
             /\ line' = Append(rest, reply[call[t].to])
    /\ reply' = [reply EXCEPT ![call[t].to] = NoReply]
    /\ UNCHANGED <<channel, stored, counter, call, stage, history>>

(* With the old ADC protocol a channel is selected and then converted.     *)
Fallback_Start == "start"
Fallback == "select"

(* An exception leaves command().  Only read() of an analog input, and     *)
(* only for the new ADC protocol, catches it, and any: it tries the old.   *)
Fail(t) ==
    IF call[t].op = "adc" /\ stage[t] = "only"
    THEN /\ Goto(t, "command")
         /\ stage' = [stage EXCEPT ![t] = Fallback]
         /\ UNCHANGED <<call, history>>
    ELSE /\ End(t)
         /\ lossy' = IF call[t].op = "reset" /\ tangled = "no" THEN "yes" ELSE lossy
         /\ UNCHANGED <<tangled, stale, made, reported>>

(* A reply nobody is about to ask for is forgotten: the board replaces it  *)
(* at its next command, before anyone asks.                                *)
Asking(b) == {t \in Thread : pc[t] = "ask" /\ call[t].to = b}

Forget(t) ==
    reply' = [b \in Board |-> IF Asking(b) \subseteq {t} THEN NoReply ELSE reply[b]]

(* write_data or read_data could not write, or no reply came in time.      *)
WriteFails(t) ==
    /\ pc[t] \in {"command", "ask"}
    /\ line' \in Backlog
    /\ Fail(t)
    /\ Forget(t)
    /\ UNCHANGED <<channel, stored, counter>>

TimesOut(t) ==
    /\ pc[t] = "await"
    /\ Fail(t)
    /\ UNCHANGED <<boards, line>>

(* The checks of command() on the n replies that are read at once.  With   *)
(* more than one, the length is wrong if there is one to check; otherwise  *)
(* the checksum decides, and may be good by chance.  Neither tells a board *)
(* from the other.                                                         *)
Names_Any(t, r) == TRUE
Names(t, r) == r.op = Sent(t).op /\ (r.op # "start" => r.on = call[t].on)

Acceptable(t, n) ==
    /\ line[1].good = "yes"
    /\ Names(t, line[1])
    /\ Expected(t) > 0 => n = 1 /\ line[1].size = Expected(t)

(* readcounter() and readresetcounter() mask all but the last byte; pwm    *)
(* mode 4 is mode 3.                                                       *)
Returned(c, data) ==
    IF c.op \in {"count", "reset"} THEN data % Byte
    ELSE IF c.on \in Mode /\ data = 4 THEN 3
    ELSE data

NextStage(t) == IF stage[t] = "select" THEN "start" ELSE "done"

Accept(t) ==
    /\ pc[t] = "await"
    /\ \E n \in 1 .. Len(line) :
          /\ Acceptable(t, n)
          /\ line' = SubSeq(line, n + 1, Len(line))
    /\ IF NextStage(t) = "start"
       THEN /\ Goto(t, "command")
            /\ stage' = [stage EXCEPT ![t] = "start"]
            /\ UNCHANGED <<call, accounts>>
       ELSE /\ End(t)
            /\ UNCHANGED made
            /\ IF call[t].op = "reset" /\ tangled = "no"
               THEN /\ reported' = reported + Returned(call[t], line[1].data)
                    /\ lossy' = IF line[1].data >= Byte THEN "yes" ELSE lossy
               ELSE UNCHANGED <<reported, lossy>>
    /\ UNCHANGED <<boards, tangled, stale>>

Reject(t) ==
    /\ pc[t] = "await"
    /\ \E n \in 1 .. Len(line) :
          /\ n > 1 \/ ~Acceptable(t, n)
          /\ line' = SubSeq(line, n + 1, Len(line))
    /\ Fail(t)
    /\ UNCHANGED boards

(* The world: a pulse on the digital input of a board. *)
Pulse(b) ==
    /\ Counted < MaxPulses /\ made < MaxPulses
    /\ counter' = [counter EXCEPT ![b] = counter[b] + 1]
    /\ made' = IF tangled = "no" THEN made + 1 ELSE made
    /\ UNCHANGED <<channel, stored, reply, line, pc, call, stage,
                   tangled, stale, reported, lossy>>

-----------------------------------------------------------------------------
Init ==
    /\ channel \in [Board -> Analog]
    /\ stored = [b \in Board |-> [x \in Output \cup Mode |-> 0]]
    /\ counter = [b \in Board |-> 0]
    /\ reply = [b \in Board |-> NoReply]
    /\ line = <<>>
    /\ pc = [t \in Thread |-> "idle"]
    /\ call = [t \in Thread |-> NoCall]
    /\ stage = [t \in Thread |-> "only"]
    /\ tangled = "no"
    /\ stale = 0
    /\ made = 0
    /\ reported = 0
    /\ lossy = "no"

Continue(t) ==
    \/ WriteCommand(t) \/ AskReply(t) \/ WriteFails(t)
    \/ TimesOut(t) \/ Accept(t) \/ Reject(t)

Next ==
    \/ \E t \in Thread : Continue(t) \/ \E c \in Calls : Begin(t, c)
    \/ \E b \in Board : Pulse(b)

Spec == Init /\ [][Next]_vars

-----------------------------------------------------------------------------
(* Properties *)

(* t returns a reply as the outcome of its call. *)
Returns(t) == Accept(t) /\ NextStage(t) = "done"

(* A call that has the bus for itself, with nothing on its way as it       *)
(* begins, returns what its board says of its own control during the call, *)
(* also when it falls back to the old ADC protocol because a reply was     *)
(* late; and after a write that did not throw the board holds the value.   *)
QuietCallIsExact ==
    [][\A t \in Thread : Returns(t) /\ tangled = "no" /\ stale = 0 =>
          /\ call[t].op = "adc" =>
                 line[1].from = call[t].to /\ line[1].data = call[t].on
          /\ call[t].op = "set" => stored[call[t].to][call[t].on] = call[t].value
          /\ call[t].op = "get" /\ call[t].on \in Output \cup Mode =>
                 Returned(call[t], line[1].data) = stored[call[t].to][call[t].on]]_vars

(* The start of a conversion does not say of which input.  Still one late  *)
(* reply does not make read() of an analog input return the value of an    *)
(* input with another number: that takes calls that overlap, or two late   *)
(* replies.  It can be the input with the same number of the other board,  *)
(* for a reply does not say of which board it is.                          *)
AdcIsOwnNumber ==
    [][\A t \in Thread :
          Returns(t) /\ tangled = "no" /\ stale <= 1 /\ call[t].op = "adc" =>
              line[1].data = call[t].on]_vars

(* As long as calls do not overlap no pulse is returned twice by           *)
(* readresetcounter(), of whichever board, and none is lost unless such a  *)
(* call failed or a counter had outgrown the one byte that is left of it.  *)
PulsesAccounted ==
    tangled = "no" =>
        /\ reported + Counted <= made
        /\ Active = {} /\ lossy = "no" => reported + Counted = made
=============================================================================
