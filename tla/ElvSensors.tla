------------------------------ MODULE ElvSensors ------------------------------
(***************************************************************************)
(* How the devices on the ELV bus are found and read by one thread: main   *)
(* probes them in turn (InterfaceELV::probe_all_devices and the probe()    *)
(* and find_controls() of each device), then lists their values, and pages *)
(* read them again.  What several threads do to each other on this bus is  *)
(* in modules ElvBus and Atmel.                                            *)
(*                                                                         *)
(* What a device is sent and must answer is a script, a sequence of writes *)
(* and reads.  A write that fails is swallowed by write_data; only         *)
(* DeviceAtmel::command looks.  A read that fails returns no bytes.        *)
(*                                                                         *)
(* The devices and the adapter are external.  The adapter answers in the   *)
(* order it is asked, perhaps late and perhaps never, and a device that is *)
(* not there never answers.  A sensor answers with the register that was   *)
(* selected last.                                                          *)
(***************************************************************************)
EXTENDS Naturals, Sequences, SequencesExt, FiniteSets

CONSTANTS
    Buses,      \* the sets of devices that may be there
    Attempts,   \* read_retry(3, ...), and the loops of Digipicco
    Retries,    \* how often the channels of the light sensor are read: 32
    Queries,    \* the kinds of controls an Atmel is asked for, in order
    MaxFaults   \* bound: writes and answers that are lost or late

(* probe_all_devices(), in the order of the bus addresses *)
Order   == <<"atmel2", "atmel3", "tsl2550", "ds1731", "tmp275", "ds1621", "digipicco">>
Atmels  == {"atmel2", "atmel3"}
Devices == ToSet(Order)
Kinds   == ToSet(Queries)

(* What an answer holds is named for the register it is read from.         *)
Names ==
    {"identification", "off", "up", "low", "high", "channel0", "channel1",
     "reset", "stop", "config", "start", "threshold", "mode", "upper", "lower",
     "temperature"}

ASSUME BusAssumption   == Buses \subseteq SUBSET Devices
ASSUME CountAssumption == {Attempts, Retries} \subseteq Nat \ {0} /\ MaxFaults \in Nat
ASSUME KindAssumption  == Queries \in Seq(Kinds) \ {<<>>} /\ Kinds \cap Names = {}

VARIABLES
    present,    \* the devices that are there
    selected,   \* the register each of them answers with
    range,      \* the range the light sensor measures in
    line,       \* the answers on their way to iocd
    at,         \* where the program is: see Places
    light,      \* the locals of the light sensor's read(): see Lights
    found,      \* Interface::devices
    controls,   \* the answers the controls of each Atmel were made from
    faults,     \* writes and answers lost or late so far
    lost,       \* history: the writes of this reading of the light that were lost
    pending,    \* history: answers on their way when this reading began
    late        \* history: the devices that answered too late while probing

bus     == <<present, selected, range>>
history == <<lost, pending, late>>
vars    == <<bus, line, at, light, found, controls, faults, history>>

(* The values of the light sensor's channels are told apart by what        *)
(* adc2count makes of them: a count, nothing yet, an overflow.             *)
Registers == Names \cup Kinds
Values  == {"count", "nothing", "overflow"}
Answers == [from : Devices, reg : Registers, size : {1, 2, 4, 8, 24},
            range : {"low", "high"}, value : Values]
None    == [reg |-> "none"]

(* phase: what is done with device number dev, at which step of its script *)
(* and of which kind of controls; wait: an answer has been asked for.      *)
Places == [phase : {"probe", "query", "idle", "read", "crashed"},
           dev : 1 .. Len(Order), step : 1 .. 11, kind : 1 .. Len(Queries),
           attempt : 0 .. Attempts - 1, wait : {"yes", "no"}]

(* want: sensitivity; retry: readings of the channels left; channel0: the  *)
(* answer for the first channel                                            *)
Lights == [want : {"low", "high"}, retry : 0 .. Retries, channel0 : Answers \cup {None}]

TypeOK ==
    /\ present \in Buses
    /\ selected \in [Devices -> Registers]
    /\ range \in {"low", "high"}
    /\ line \in Seq(Answers)
    /\ at \in Places
    /\ light \in Lights
    /\ found \subseteq Devices
    /\ controls \in [Atmels -> [Kinds -> Answers \cup {None}]]
    /\ faults \in 0 .. MaxFaults
    /\ lost \subseteq Registers
    /\ pending \in Nat
    /\ late \subseteq Devices

-----------------------------------------------------------------------------
(* Scripts *)

(* A write may fail unnoticed, the write of a command may not.  A read     *)
(* wants a number of bytes, and certain bytes; to take is to want only the *)
(* number, to trust is not to look at the number.                          *)
Write(reg)        == [do |-> "write", reg |-> reg]
Command(reg)      == [do |-> "command", reg |-> reg]
Read(size, want)  == [do |-> "read", size |-> size, want |-> want]
Take(size)        == [do |-> "take", size |-> size, want |-> Registers]
Trust(size, want) == [do |-> "trust", size |-> size, want |-> want]

(* probe() of each device *)
ProbeAtmel   == <<Command("identification"), Read(24, {"identification"})>>
ProbeTSL2550 == <<Write("off"), Write("up"), Read(1, {"up"}), Write("off")>>
ProbeDS1731  == <<Write("reset"), Write("stop"),
                  Write("config"), Read(1, {"config"}),
                  Write("config"), Read(1, {"config"}), Write("start")>>
ProbeTMP275  == <<Write("threshold"), Read(2, {"threshold"}),
                  Write("mode"), Trust(1, {"mode"})>>

(* The last check of a DS1621 looks at four bits only, which are clear in  *)
(* the mode of a TMP275 and may be in the state of a light sensor.         *)
LowBitsClear == {"config", "mode", "off"}
ProbeDS1621  == <<Write("stop"), Write("upper"), Read(2, {"upper"}),
                  Write("lower"), Read(2, {"lower"}),
                  Write("config"), Read(1, LowBitsClear), Write("start")>>
ProbeDigipicco == <<Take(4)>>

Probe(d) ==
    CASE d \in Atmels    -> ProbeAtmel
      [] d = "tsl2550"   -> ProbeTSL2550
      [] d = "ds1731"    -> ProbeDS1731
      [] d = "tmp275"    -> ProbeTMP275
      [] d = "ds1621"    -> ProbeDS1621
      [] d = "digipicco" -> ProbeDigipicco

Query_Unchecked(k) == <<Write(Queries[k]), Take(8)>>

(* DeviceAtmel::find_controls(): the replies to all queries name the same  *)
(* command.                                                                *)
Query(k) == <<Command(Queries[k]), Read(8, Kinds)>>

(* read(); of the light sensor, one attempt in one range (read_sens)       *)
Channels == 6

ReadSens(want) ==
    <<Write("off"), Write("up"), Read(1, {"up"}),
      Write(want), Read(1, {"low", "high"}),
      Write("channel0"), Take(1), Write("channel1"), Take(1),
      Write("off")>>

ReadDS1621    == <<Write("temperature"), Take(2)>>
ReadDS1731    == <<Write("temperature"), Take(2)>>
ReadTMP275    == <<Write("temperature"), Trust(2, Registers)>>
ReadDigipicco == <<Take(4)>>

Reading(d) ==
    CASE d = "tsl2550"   -> ReadSens(light.want)
      [] d = "ds1731"    -> ReadDS1731
      [] d = "ds1621"    -> ReadDS1621
      [] d = "tmp275"    -> ReadTMP275
      [] d = "digipicco" -> ReadDigipicco

Device == Order[at.dev]

Script ==
    CASE at.phase = "probe" -> Probe(Device)
      [] at.phase = "query" -> Query(at.kind)
      [] at.phase = "read"  -> Reading(Device)
      [] OTHER              -> <<>>

InLight == Device = "tsl2550" /\ at.phase = "read"

Op == Script[at.step]
Doing(what) == at.step <= Len(Script) /\ Op.do \in what

-----------------------------------------------------------------------------
(* Where the program goes from here *)

Idle    == [phase |-> "idle", dev |-> 1, step |-> 1, kind |-> 1, attempt |-> 0, wait |-> "no"]
Unread  == [want |-> "low", retry |-> Retries, channel0 |-> None]

NextStep == [at EXCEPT !.step = @ + 1, !.wait = "no"]

NextDevice ==
    IF at.dev < Len(Order) THEN [Idle EXCEPT !.phase = "probe", !.dev = at.dev + 1] ELSE Idle

NextKind ==
    IF at.kind < Len(Queries)
    THEN [Idle EXCEPT !.phase = "query", !.dev = at.dev, !.kind = at.kind + 1]
    ELSE NextDevice

TriesAgain_Once ==
    /\ Device = "digipicco" \/ (Device = "tsl2550" /\ at.phase = "read")
    /\ at.attempt < Attempts

(* The light sensor is read again after a minor error (read_retry), and    *)
(* Digipicco is asked again after an answer of the wrong length.           *)
TriesAgain ==
    /\ Device = "digipicco" \/ (Device = "tsl2550" /\ at.phase = "read")
    /\ at.attempt + 1 < Attempts

GiveUp_Believes ==
    CASE at.phase = "probe" -> IF Device = "digipicco" THEN NextStep ELSE NextDevice
      [] at.phase = "query" -> NextKind
      [] at.phase = "read"  -> Idle

(* Otherwise the device is not registered (the number it was to have is    *)
(* used up, see module Startup), or the Atmel has no controls of this      *)
(* kind, or read() throws.                                                 *)
GiveUp ==
    CASE at.phase = "probe" -> NextDevice
      [] at.phase = "query" -> NextKind
      [] at.phase = "read"  -> Idle

LightDone == light' = Unread /\ lost' = {} /\ pending' = 0

LightAgain(want) ==
    /\ light' = [Unread EXCEPT !.want = want]
    /\ lost' = {}
    /\ pending' = IF InLight THEN Len(line') ELSE 0

Fail ==
    IF TriesAgain
    THEN /\ at' = [at EXCEPT !.step = 1, !.attempt = @ + 1, !.wait = "no"]
         /\ LightAgain(light.want)
    ELSE at' = GiveUp /\ LightDone

-----------------------------------------------------------------------------
(* The steps of a script *)

(* write_raw() reads away the answers that have come so far. *)
Backlog == {SubSeq(line, n + 1, Len(line)) : n \in 0 .. Len(line)}

WriteData ==
    /\ Doing({"write", "command"})
    /\ line' \in Backlog
    /\ IF Device \in present
       THEN /\ selected' = [selected EXCEPT ![Device] = Op.reg]
            /\ range' = IF Op.reg \in {"low", "high"} THEN Op.reg ELSE range
       ELSE UNCHANGED <<selected, range>>
    /\ at' = NextStep
    /\ UNCHANGED <<present, light, found, controls, faults, history>>

WriteIsLost ==
    /\ Doing({"write", "command"})
    /\ faults < MaxFaults
    /\ faults' = faults + 1
    /\ line' \in Backlog
    /\ IF Op.do = "command"
       THEN Fail
       ELSE /\ at' = NextStep
            /\ lost' = IF InLight THEN lost \cup {Op.reg} ELSE lost
            /\ UNCHANGED <<light, pending>>
    /\ UNCHANGED <<bus, found, controls, late>>

(* An Atmel answers with all of its reply, a sensor with as many bytes as  *)
(* it is asked for.                                                        *)
AnswerSize ==
    IF Device \in Atmels THEN IF selected[Device] = "identification" THEN 24 ELSE 8
                         ELSE Op.size

(* 0xffff twice is what a Digipicco says when it has no value. *)
AnswerValues ==
    CASE selected[Device] \in {"channel0", "channel1"} -> Values
      [] Device = "digipicco" -> {"count", "nothing"}
      [] OTHER -> {"count"}

AnswerRange == IF selected[Device] \in {"channel0", "channel1"} THEN range ELSE "low"

AskData ==
    /\ Doing({"read", "take", "trust"})
    /\ at.wait = "no"
    /\ at' = [at EXCEPT !.wait = "yes"]
    /\ \E rest \in Backlog :
          \/ /\ Device \in present
             /\ \E v \in AnswerValues :
                   line' = Append(rest, [from |-> Device, reg |-> selected[Device],
                                         size |-> AnswerSize, range |-> AnswerRange,
                                         value |-> v])
             /\ UNCHANGED faults
          \/ /\ Device \notin present
             /\ line' = rest
             /\ UNCHANGED faults
          \/ /\ Device \in present
             /\ faults < MaxFaults
             /\ faults' = faults + 1
             /\ line' = rest
    /\ UNCHANGED <<bus, light, found, controls, history>>

(* The n answers that are read at once *)
Takes(n) ==
    /\ Doing({"read", "take", "trust"})
    /\ at.wait = "yes"
    /\ n \in DOMAIN line
    /\ line' = SubSeq(line, n + 1, Len(line))

Size(n) == FoldSeq(LAMBDA a, sum : a.size + sum, 0, SubSeq(line, 1, n))

Passes_On(n) ==
    CASE Op.do = "read"  -> n = 1 /\ line[1].size = Op.size /\ line[1].reg \in Op.want \cup {"up"}
      [] Op.do = "take"  -> Size(n) = Op.size
      [] Op.do = "trust" -> line[1].reg \in Op.want

(* Several answers at once are never the bytes that are wanted. *)
Passes(n) ==
    CASE Op.do = "read"  -> n = 1 /\ line[1].size = Op.size /\ line[1].reg \in Op.want
      [] Op.do = "take"  -> Size(n) = Op.size
      [] Op.do = "trust" -> line[1].reg \in Op.want

(* Nothing in time: an answer that is still to come is one too late.       *)
NothingComes ==
    /\ Doing({"read", "take", "trust"})
    /\ at.wait = "yes"
    /\ faults' = IF line = <<>> THEN faults ELSE faults + 1
    /\ faults' <= MaxFaults
    /\ late' = IF at.phase = "read" THEN late
               ELSE late \cup {line[i].from : i \in DOMAIN line}

(* The step fails, for want of an answer or for a wrong one. *)
NoAnswer ==
    /\ NothingComes
    /\ Op.do # "trust"
    /\ UNCHANGED line
    /\ Fail
    /\ UNCHANGED <<bus, found, controls>>

WrongAnswer ==
    /\ \E n \in 1 .. Len(line) : Takes(n) /\ ~Passes(n)
    /\ Fail
    /\ UNCHANGED <<bus, found, controls, faults, late>>

(* TMP275 does not look whether there are bytes.  probe() compares what it *)
(* got before with something else; read() has got nothing before, and the  *)
(* process ends.                                                           *)
Unchecked ==
    /\ NothingComes
    /\ Op.do = "trust"
    /\ at' = IF at.phase = "read" THEN [at EXCEPT !.phase = "crashed"] ELSE GiveUp
    /\ UNCHANGED <<bus, line, light, found, controls, lost, pending>>

RightAnswer ==
    /\ \E n \in 1 .. Len(line) :
          /\ Takes(n) /\ Passes(n)
          /\ ~(InLight /\ at.step > Channels)
          /\ ~(Device = "digipicco" /\ n = 1 /\ line[1].value = "nothing")
    /\ at' = NextStep
    /\ controls' = IF at.phase = "query"
                   THEN [controls EXCEPT ![Device][Queries[at.kind]] = line[1]]
                   ELSE controls
    /\ UNCHANGED <<bus, light, found, faults, history>>

(* Digipicco has no value: not tried again. *)
NoValue ==
    /\ Device = "digipicco"
    /\ Takes(1) /\ Passes(1)
    /\ line[1].value = "nothing"
    /\ at' = GiveUp
    /\ UNCHANGED <<bus, light, found, controls, faults, history>>

-----------------------------------------------------------------------------
(* The channels of the light sensor *)

(* adc2count(): the bytes of the other registers have no valid bit. *)
Count(a) == IF a.reg \in {"off", "up", "low", "high", "mode"} THEN "nothing" ELSE a.value

Channel0 ==
    /\ InLight
    /\ at.step = Channels + 1
    /\ Takes(1) /\ Passes(1)
    /\ light' = [light EXCEPT !.channel0 = line[1]]
    /\ at' = NextStep
    /\ UNCHANGED <<bus, found, controls, faults, history>>

TakesChannel1 == InLight /\ at.step = Channels + 3 /\ Takes(1) /\ Passes(1)

Both == <<Count(light.channel0), Count(line[1])>>

ReadAgain_Uncounted ==
    /\ TakesChannel1
    /\ Both[1] = "nothing" \/ (Both[1] = "count" /\ Both[2] = "nothing")
    /\ light' = [light EXCEPT !.channel0 = None]
    /\ at' = [at EXCEPT !.step = Channels, !.wait = "no"]
    /\ UNCHANGED <<bus, found, controls, faults, history>>

(* The last reading without a value is followed by the power down, too. *)
ReadAgain ==
    /\ TakesChannel1
    /\ Both[1] = "nothing" \/ (Both[1] = "count" /\ Both[2] = "nothing")
    /\ light' = [light EXCEPT !.retry = @ - 1, !.channel0 = None]
    /\ at' = IF light.retry > 1 THEN [at EXCEPT !.step = Channels, !.wait = "no"] ELSE NextStep
    /\ UNCHANGED <<bus, found, controls, faults, history>>

(* read_sens() returns -1 at once and leaves the sensor on.  read() makes  *)
(* 3000 lux of it in the low range and returns it in the high one.         *)
Overflows ==
    /\ TakesChannel1
    /\ Both[1] = "overflow" \/ (Both[1] = "count" /\ Both[2] = "overflow")
    /\ at' = Idle
    /\ LightDone
    /\ UNCHANGED <<bus, found, controls, faults, late>>

Measured ==
    /\ TakesChannel1
    /\ Both = <<"count", "count">>
    /\ at' = NextStep
    /\ light' = [light EXCEPT !.channel0 = None]
    /\ UNCHANGED <<bus, found, controls, faults, history>>

(* Less than 10 lux in the low range: read again in the high one.          *)
LightEnds ==
    /\ InLight
    /\ at.step > Len(Script)
    /\ UNCHANGED line
    /\ IF light.retry = 0 THEN Fail
       ELSE \/ at' = Idle /\ LightDone
            \/ /\ light.want = "low"
               /\ at' = [at EXCEPT !.step = 1, !.attempt = 0]
               /\ LightAgain("high")
    /\ UNCHANGED <<bus, found, controls, faults, late>>

-----------------------------------------------------------------------------
(* probe_single_device: the device is registered, then asked for controls. *)
DeviceFound ==
    /\ at.phase = "probe"
    /\ at.step > Len(Script)
    /\ found' = found \cup {Device}
    /\ at' = IF Device \in Atmels THEN [Idle EXCEPT !.phase = "query", !.dev = at.dev]
                                  ELSE NextDevice
    /\ UNCHANGED <<bus, line, light, controls, faults, history>>

KindDone ==
    /\ at.phase = "query"
    /\ at.step > Len(Script)
    /\ at' = NextKind
    /\ UNCHANGED <<bus, line, light, found, controls, faults, history>>

ReadDone ==
    /\ at.phase = "read"
    /\ ~InLight
    /\ at.step > Len(Script)
    /\ at' = Idle
    /\ UNCHANGED <<bus, line, light, found, controls, faults, history>>

(* main lists all controls; later, pages read one. *)
BeginRead(d) ==
    /\ at.phase = "idle"
    /\ Order[d] \in found \ Atmels
    /\ at' = [Idle EXCEPT !.phase = "read", !.dev = d]
    /\ pending' = IF Order[d] = "tsl2550" THEN Len(line) ELSE 0
    /\ UNCHANGED <<bus, line, light, found, controls, faults, lost, late>>

-----------------------------------------------------------------------------
Init ==
    /\ present \in Buses
    /\ selected = [d \in Devices |-> "start"]
    /\ range = "low"
    /\ line = <<>>
    /\ at = [Idle EXCEPT !.phase = "probe"]
    /\ light = Unread
    /\ found = {}
    /\ controls = [a \in Atmels |-> [k \in Kinds |-> None]]
    /\ faults = 0
    /\ lost = {}
    /\ pending = 0
    /\ late = {}

Program ==
    \/ WriteData \/ WriteIsLost \/ AskData
    \/ NoAnswer \/ WrongAnswer \/ Unchecked \/ RightAnswer \/ NoValue
    \/ Channel0 \/ ReadAgain \/ Overflows \/ Measured \/ LightEnds
    \/ DeviceFound \/ KindDone \/ ReadDone

Next == Program \/ \E d \in DOMAIN Order : BeginRead(d)

Spec == Init /\ [][Next]_vars

(* The thread runs. *)
FairSpec == Spec /\ WF_vars(Program)

-----------------------------------------------------------------------------
(* Properties *)

(* A device is only registered where there is one: probe_single_device     *)
(* believes probe().  Two ways around it are left.  The second Atmel is    *)
(* registered on the identification of the first that came too late for    *)
(* it, since the answer does not say whose it is; and DeviceDigipicco      *)
(* takes any four bytes for its own, also those of others that were late.  *)
FoundIsThere ==
    found \ present \subseteq
        {d \in {"atmel3"} : "atmel2" \in late} \cup {d \in {"digipicco"} : late # {}}

(* DeviceAtmel::find_controls() makes the controls of a board from answers *)
(* of that board, and as long as every answer is in time, those of a kind  *)
(* from the answer about that kind.  One late answer, even of another      *)
(* board, is enough to make inputs of outputs: all of the answers name the *)
(* same command, which is all that command() compares.                     *)
ControlsAreOwn ==
    \A a \in Atmels, k \in Kinds :
        controls[a][k] # None =>
            /\ controls[a][k].from = a
            /\ (controls[a][k].reg # k => late # {})

(* read_sens() would notice that it is one answer behind, at the power-up  *)
(* or at the range check: it had no answer to wait for, or one, and one of *)
(* the writes that cycle the power was not lost.  (Two answers behind, it  *)
(* takes those of the last reading for its own.  Without the power cycle   *)
(* an old "up" and a range that was selected before pass the checks.)      *)
Noticed == pending = 0 \/ (pending = 1 /\ ~({"off", "up"} \subseteq lost))

(* A lux value is made from the first and the second channel, in this      *)
(* order, if no write that selects a channel was lost, even if there was   *)
(* an answer on its way that had been given up.                            *)
LuxIsMeasured ==
    [][Measured /\ Noticed /\ lost \cap {"channel0", "channel1"} = {} =>
          light.channel0.reg = "channel0" /\ line[1].reg = "channel1"]_vars

(* A lost write may make both channels the same one, for a channel is not  *)
(* named in its answer; both are still in the range whose multiplier is    *)
(* used.                                                                   *)
RangeIsRight ==
    [][Measured /\ Noticed =>
          light.channel0.range = light.want /\ line[1].range = light.want]_vars

(* Probing and every read end, however often they try again: with read()   *)
(* returning or throwing, or (TMP275) with the process.                    *)
ReadsEnd == [](at.phase \in {"probe", "query", "read"} => <>(at.phase \in {"idle", "crashed"}))
=============================================================================
