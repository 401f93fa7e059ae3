------------------------------- MODULE ElvBus -------------------------------
(***************************************************************************)
(* The serial line to the ELV adapter and the I2C bus behind it, used by   *)
(* concurrent HTTP requests (class InterfaceELV and the read() functions   *)
(* of the devices on it).                                                  *)
(*                                                                         *)
(* A read of a device selects something in it with one line to the         *)
(* adapter and asks for its bytes with another; the bytes come back as a   *)
(* line of text.  write_raw() clears the backlog before it writes,         *)
(* read_raw() waits for input and takes what has come so far.  No lock is  *)
(* held anywhere, so every system call is a step of its own.               *)
(*                                                                         *)
(* A Sensor stands for DS1621 and DS1731, which take any reply of the      *)
(* right length; read() wants the temperature, their probes leave another  *)
(* register selected.  A Board stands for an Atmel, whose reply names its  *)
(* command and carries a checksum.                                         *)
(*                                                                         *)
(* The adapter and the devices are external: they handle the lines in      *)
(* order, at any time, and a reply may come in two parts or not at all.    *)
(* The text of a line and its parser are in Encodings.                     *)
(***************************************************************************)
EXTENDS Encodings, FiniteSets

CONSTANTS
    Thread,     \* connection threads
    Sensor,     \* devices whose replies are not checked
    Board,      \* Atmel devices
    Command,    \* the commands a Board is read with
    MaxPending  \* bound: lines to the adapter that are still to be handled

ASSUME ThreadAssumption == IsFiniteSet(Thread)
ASSUME DeviceAssumption == Sensor \cap Board = {}
ASSUME TagAssumption    == {"late", "left"} \cap Thread = {}
ASSUME BoundAssumption  == MaxPending \in Nat

VARIABLES
    requests,   \* lines on their way to the adapter
    selected,   \* what each device was told to answer with
    sending,    \* the parts of a reply the adapter still has to send
    line,       \* the input that has come and is not yet read
    pc,         \* where each thread is in read()
    target,     \* the device and command it reads
    missed,     \* history: threads whose select line was not written
    crossed,    \* history: threads whose read() overlapped another
    quiet       \* history: those alone on a bus without anything on its way

bus == <<requests, selected, sending, line>>
vars == <<bus, pc, target, missed, crossed, quiet>>

Device  == Sensor \cup Board
Targets == [dev : Sensor, cmd : {"temperature"}] \cup [dev : Board, cmd : Command]

(* What a device may be told to answer with: a Sensor also with what its   *)
(* probe selected last (0xee, 0x51).                                       *)
Answers == Targets \cup [dev : Sensor, cmd : {"probed"}]

Selected(d) == [dev |-> d, cmd |-> selected[d]]

(* Every request and every part of a reply has a tag, for the properties:  *)
(* the thread whose read() it belongs to; "late" when that has ended; and  *)
(* "left" when it was late and on the line as another read() began.        *)
Tags     == Thread \cup {"late", "left"}
Requests == [kind : {"select", "read"}, to : Targets, tag : Tags]
Parts    == [part : {"first", "rest"}, of : Answers, tag : Tags]

TypeOK ==
    /\ requests \in Seq(Requests)
    /\ Len(requests) <= MaxPending + 2 * Cardinality(Thread)
    /\ \A d \in Device : Selected(d) \in Answers
    /\ sending \in Seq(Parts)
    /\ Len(sending) <= 2
    /\ line \in Seq(Parts)
    /\ pc \in [Thread -> {"idle", "poll_s", "clear_s", "write_s",
                          "poll_r", "clear_r", "write_r", "await", "take"}]
    /\ target \in [Thread -> Targets]
    /\ missed \subseteq Thread
    /\ quiet \cap crossed = {}

-----------------------------------------------------------------------------
Active == {t \in Thread : pc[t] # "idle"}

At(t, l) == pc[t] = l
Goto(t, l) == pc' = [pc EXCEPT ![t] = l]

Retag(s, from, to) ==
    [i \in DOMAIN s |-> IF s[i].tag = from THEN [s[i] EXCEPT !.tag = to] ELSE s[i]]

(* read(): the first write_data *)
Begin(t, x) ==
    /\ At(t, "idle")
    /\ Len(requests) <= MaxPending
    /\ Goto(t, "poll_s")
    /\ target' = [target EXCEPT ![t] = x]
    /\ missed' = missed \ {t}
    /\ line' = Retag(line, "late", "left")
    /\ crossed' = IF Active = {} THEN crossed \ {t} ELSE crossed \cup Active \cup {t}
    /\ quiet' = IF Active = {} /\ requests = <<>> /\ sending = <<>>
                THEN quiet \cup {t} ELSE quiet \ (Active \cup {t})
    /\ UNCHANGED <<requests, selected, sending>>

(* read() returns or throws. *)
Finish(t) ==
    /\ Goto(t, "idle")
    /\ requests' = Retag(requests, t, "late")
    /\ sending' = Retag(sending, t, "late")
    /\ quiet' = quiet \ {t}
    /\ UNCHANGED <<selected, target, missed, crossed>>

(* The states of the two calls of write_raw: select something, then read. *)
PollStates  == {"poll_s", "poll_r"}
ClearStates == {"clear_s", "clear_r"}
WriteStates == {"write_s", "write_r"}

InSelect(t) == pc[t] \in {"poll_s", "clear_s", "write_s"}
Step(t, s, r) == Goto(t, IF InSelect(t) THEN s ELSE r)

(* write_raw: poll without waiting.  If there is input, read it away. *)
Backlog_Ignored == FALSE
Backlog == line # <<>>

Poll(t) ==
    /\ pc[t] \in PollStates
    /\ IF Backlog THEN Step(t, "clear_s", "clear_r") ELSE Step(t, "write_s", "write_r")
    /\ UNCHANGED <<bus, target, missed, crossed, quiet>>

(* ::read blocks if another thread has taken the input meanwhile. *)
Clear(t) ==
    /\ pc[t] \in ClearStates
    /\ line # <<>>
    /\ line' = <<>>
    /\ Step(t, "poll_s", "poll_r")
    /\ UNCHANGED <<requests, selected, sending, target, missed, crossed, quiet>>

Write_Twice(t) ==
    /\ pc[t] \in WriteStates
    /\ requests' = Append(requests,
            [kind |-> IF InSelect(t) THEN "select" ELSE "read",
             to |-> target[t], tag |-> t])
    /\ Step(t, "poll_s", "await")
    /\ UNCHANGED <<selected, sending, line, target, missed, crossed, quiet>>

Write(t) ==
    /\ pc[t] \in WriteStates
    /\ requests' = Append(requests,
            [kind |-> IF InSelect(t) THEN "select" ELSE "read",
             to |-> target[t], tag |-> t])
    /\ Step(t, "poll_r", "await")
    /\ UNCHANGED <<selected, sending, line, target, missed, crossed, quiet>>

(* write_data and read_data swallow what write_raw throws and return 0.    *)
(* Only a Board's command() looks at what the first write_data returned.   *)
SelectFails(t) ==
    /\ pc[t] \in {"poll_s", "write_s"}
    /\ target[t].dev \in Sensor
    /\ Goto(t, "poll_r")
    /\ missed' = missed \cup {t}
    /\ UNCHANGED <<bus, target, crossed, quiet>>

WriteFails(t) ==
    /\ pc[t] \in PollStates \cup WriteStates
    /\ ~(InSelect(t) /\ target[t].dev \in Sensor)
    /\ Finish(t)
    /\ line' = Retag(line, t, "late")

(* read_raw: poll with a timeout, then ::read *)
TimesOut_Reads(t) ==
    /\ At(t, "await")
    /\ line = <<>>
    /\ Goto(t, "take")
    /\ UNCHANGED <<bus, target, missed, crossed, quiet>>

TimesOut(t) ==
    /\ At(t, "await")
    /\ line = <<>>
    /\ Finish(t)
    /\ line' = Retag(line, t, "late")

InputComes(t) ==
    /\ At(t, "await")
    /\ line # <<>>
    /\ Goto(t, "take")
    /\ UNCHANGED <<bus, target, missed, crossed, quiet>>

(* ::read, parse_bytes, and the checks of the device: what is taken is     *)
(* returned as the value, or the read fails.                               *)
Take(t) ==
    /\ At(t, "take")
    /\ line # <<>>
    /\ line' = <<>>
    /\ Finish(t)

(* DS1621 and DS1731 take whatever has two bytes, and any part may.        *)
(* DeviceAtmel::command wants a reply that is complete (its length and its *)
(* checksum are good) and names the command it sent.                       *)
Complete(input) ==
    /\ input # <<>>
    /\ input[1].part = "first"
    /\ input[1].of.dev \in Board
    /\ Len(input) = 1 \/ input = <<input[1], [input[1] EXCEPT !.part = "rest"]>>

Accepted(x, input) ==
    IF x.dev \in Sensor THEN input # <<>>
                        ELSE Complete(input) /\ input[1].of.cmd = x.cmd

-----------------------------------------------------------------------------
(* The adapter and the devices *)

Reply(req) ==
    << [part |-> "first", of |-> Selected(req.to.dev), tag |-> req.tag],
       [part |-> "rest",  of |-> Selected(req.to.dev), tag |-> req.tag] >>

Handle ==
    /\ requests # <<>>
    /\ sending = <<>>
    /\ LET req == Head(requests)
       IN  IF req.kind = "select"
           THEN /\ selected' = [selected EXCEPT ![req.to.dev] = req.to.cmd]
                /\ UNCHANGED sending
           ELSE /\ sending' \in {Reply(req), <<>>}
                /\ UNCHANGED selected
    /\ requests' = Tail(requests)
    /\ UNCHANGED <<line, pc, target, missed, crossed, quiet>>

Deliver ==
    /\ sending # <<>>
    /\ \E n \in 1 .. Len(sending) :
          /\ line' = line \o SubSeq(sending, 1, n)
          /\ sending' = SubSeq(sending, n + 1, Len(sending))
    /\ UNCHANGED <<requests, selected, pc, target, missed, crossed, quiet>>

-----------------------------------------------------------------------------
Init ==
    /\ requests = <<>>
    /\ selected \in [Device -> Command \cup {"temperature", "probed"}]
    /\ \A d \in Device : Selected(d) \in Answers
    /\ sending = <<>>
    /\ line = <<>>
    /\ pc = [t \in Thread |-> "idle"]
    /\ target \in [Thread -> Targets]
    /\ missed = {}
    /\ crossed = {}
    /\ quiet = {}

Continue(t) ==
    \/ Poll(t) \/ Clear(t) \/ Write(t) \/ SelectFails(t) \/ WriteFails(t)
    \/ TimesOut(t) \/ InputComes(t) \/ Take(t)

Adapter == Handle \/ Deliver

Next ==
    \/ Adapter
    \/ \E t \in Thread : Continue(t) \/ \E x \in Targets : Begin(t, x)

Spec == Init /\ [][Next]_vars

-----------------------------------------------------------------------------
(* Properties *)

(* t returns the input as the value of its target. *)
Returns(t) == Take(t) /\ Accepted(target[t], line)

(* The device was told to answer with what t wants, unless t's line to     *)
(* tell it so was not written.                                             *)
IsSelected(t) == t \in missed \/ selected[target[t].dev] = target[t].cmd

Own(t) ==
    /\ \A i \in DOMAIN line : line[i].tag = t /\ line[i].of = Selected(target[t].dev)
    /\ IsSelected(t)

(* A read() that has the bus for itself, with nothing on its way from      *)
(* before, returns its device's answer to its own request, also when the   *)
(* answer comes in parts and whatever earlier reads have left on the line. *)
(* What it returns is what it selected, unless its select line failed,     *)
(* which the read() of a Sensor does not notice: then it is the register   *)
(* that the last successful select, or the probe, has left.                *)
QuietReadIsOwn == [][\A t \in Thread : Returns(t) /\ t \in quiet => Own(t)]_vars

(* An answer that had come, too late, before a read() began is never       *)
(* returned by it, unless other threads get in between: the backlog is     *)
(* cleared before each line that is written.                               *)
BacklogIsCleared ==
    [][\A t \in Thread :
          Returns(t) /\ t \notin crossed =>
              \A i \in DOMAIN line : line[i].tag # "left"]_vars

(* Only another thread can make a read() block without a timeout, by       *)
(* taking the input between poll and ::read.                               *)
Blocked(t) == pc[t] \in ClearStates \cup {"take"} /\ line = <<>>

BlockedByOthers == \A t \in Thread : Blocked(t) => t \in crossed

(* read_raw() returns what has come so far.  Whoever takes a part of an    *)
(* answer gets first bytes of it from parse_bytes, whatever the text of    *)
(* the answer and wherever it was cut, and never a wrong byte: so the      *)
(* devices, which (but for TMP275) look at the number, can tell.           *)
CutIsPrefix ==
    \A t \in Thread : At(t, "take") /\ line # <<>> /\ sending # <<>> => CutsArePrefixes
=============================================================================
