-------------------------- MODULE ElvSensorsProofs --------------------------
(***************************************************************************)
(* Proofs about ElvSensors for any buses, any kinds of controls, any       *)
(* numbers of attempts and any number of lost writes and of answers lost   *)
(* or late: what is registered is there, controls are made from answers of *)
(* their own board, and a lux value is one of the light that is measured.  *)
(***************************************************************************)
EXTENDS ElvSensors, TLAPS

USE DEF bus, history

(* The devices whose probe has begun, and what each of them can be made to *)
(* answer with by probe() and find_controls().                             *)
Passed == {Order[k] : k \in 1 .. at.dev}

Selects(d) ==
    CASE d \in Atmels    -> {"start", "identification"} \cup Kinds
      [] d = "tsl2550"   -> {"start", "off", "up"}
      [] d = "ds1731"    -> {"start", "reset", "stop", "config"}
      [] d = "tmp275"    -> {"start", "threshold", "mode"}
      [] d = "ds1621"    -> {"start", "stop", "upper", "lower", "config"}
      [] d = "digipicco" -> {"start"}

(* The first read of probe() *)
FirstRead(d) ==
    CASE d \in Atmels    -> 2
      [] d = "tsl2550"   -> 3
      [] d = "ds1731"    -> 4
      [] d = "tmp275"    -> 2
      [] d = "ds1621"    -> 3
      [] d = "digipicco" -> 1

Finding == at.phase \in {"probe", "query"}

(* The controls are those of an Atmel, a read is of a sensor, and answers  *)
(* are waited for where they are read.                                     *)
InPlace ==
    /\ at.phase = "query" => Device \in Atmels
    /\ at.phase = "read" => Device \notin Atmels
    /\ at.wait = "yes" /\ at.phase # "crashed" => Doing({"read", "take", "trust"})

OwnRegisters ==
    Finding =>
        /\ \A d \in Devices : selected[d] \in Selects(d)
        /\ \A i \in DOMAIN line : line[i].reg \in Selects(line[i].from)

(* An answer that is not the one waited for was late, or one before it.    *)
Awaited(i) == i = 1 /\ Len(line) = 1 /\ at.wait = "yes" /\ line[i].from = Device
Known(a)   == late # {} /\ (a.from = "atmel2" => "atmel2" \in late)

LateIsKnown ==
    Finding =>
        \A i \in DOMAIN line :
            /\ line[i].from \in present \cap Passed
            /\ Awaited(i) \/ Known(line[i])

(* probe() of a device that is not there gets no further than to its first *)
(* read, except for the two that FoundIsThere excepts.                     *)
NotFooled ==
    at.phase = "probe" /\ Device \notin present =>
        \/ at.step <= FirstRead(Device)
        \/ Device = "atmel3" /\ "atmel2" \in late
        \/ Device = "digipicco" /\ late # {}

(* The first Atmel's replies about its controls are not on the line once   *)
(* the second has been identified.                                         *)
FirstAtmel ==
    at.dev = 1 =>
        /\ at.phase = "probe" =>
              /\ line # <<>> => at.step = 2 /\ at.wait = "yes" /\ Len(line) = 1
              /\ \A i \in DOMAIN line : line[i].reg = "identification"
        /\ at.phase = "query" => \A i \in DOMAIN line : line[i].reg \in Kinds

SecondAtmel ==
    at.dev = 2 /\ Finding =>
        /\ at.phase = "probe" /\ at.step <= 2 =>
              \A i \in DOMAIN line : line[i].from = "atmel3" => i = Len(line) /\ at.wait = "yes"
        /\ \/ \A i \in DOMAIN line : line[i].from = "atmel2" => line[i].reg \notin Kinds
           \/ /\ at.phase = "probe" /\ at.step <= 2
              /\ \A i \in DOMAIN line : line[i].from = "atmel2" => line[i].reg \in Kinds

(* An Atmel that was sent a command answers that one.                      *)
Commanded ==
    /\ at.phase = "probe" /\ Device \in Atmels /\ at.step = 2 /\ Device \in present =>
          selected[Device] = "identification"
    /\ at.phase = "query" /\ at.step = 2 /\ Device \in present =>
          selected[Device] = Queries[at.kind]
    /\ at.phase = "query" /\ late = {} =>
          \A i \in DOMAIN line : at.step = 2 /\ line[i].reg = Queries[at.kind]

(* The locals of read() are those of the reading that is done. *)
LightIsClean ==
    /\ ~InLight => light = Unread /\ lost = {} /\ pending = 0
    /\ InLight /\ at.step <= 9 => light.retry > 0

(* How far the light sensor's answers can be behind at each step of a      *)
(* reading that would notice, and what it has selected.                    *)
Sensor    == selected["tsl2550"]
Answering == "tsl2550" \in present
Waiting   == IF at.wait = "yes" THEN 1 ELSE 0

(* The answer for a channel *)
IsChannel(a, channel) ==
    /\ a.reg \in {"low", "high", "channel0", "channel1"}
    /\ a.reg \in {"channel0", "channel1"} => a.range = light.want
    /\ channel \notin lost => a.reg = channel

PowerUp ==
    /\ at.step <= 3 => Len(line) <= pending + Waiting
    /\ at.step = 2 /\ Answering /\ pending = 1 => Sensor = "off" \/ "off" \in lost
    /\ at.step = 3 /\ Answering /\ pending = 1 => Sensor \in {"off", "up"}
    /\ at.step = 3 /\ at.wait = "yes" /\ Len(line) = pending + 1 =>
          Answering /\ line[Len(line)].reg = Sensor

RangeCheck ==
    at.step \in {4, 5} =>
        /\ Len(line) <= 1 + Waiting
        /\ Answering =>
              \/ Sensor \in {"off", "up"}
              \/ at.step = 5 /\ Sensor = light.want /\ range = light.want
        /\ line # <<>> =>
              \/ line[1].reg \in {"off", "up"}
              \/ /\ at.wait = "yes" /\ Len(line) = 1
                 /\ Answering /\ line[1].reg = Sensor

ChannelsRead ==
    at.step \in 6 .. 9 =>
        /\ range = light.want
        /\ Len(line) <= Waiting
        /\ Answering => Sensor \in {light.want, "channel0", "channel1"}
        /\ at.step = 7 /\ Answering => Sensor = "channel0" \/ "channel0" \in lost
        /\ at.step = 9 /\ Answering => Sensor = "channel1" \/ "channel1" \in lost
        /\ at.step = 7 /\ line # <<>> => IsChannel(line[1], "channel0")
        /\ at.step = 9 /\ line # <<>> => IsChannel(line[1], "channel1")
        /\ at.step \in {8, 9} => IsChannel(light.channel0, "channel0")

LightIsInStep == InLight /\ Noticed => PowerUp /\ RangeCheck /\ ChannelsRead

IInv ==
    /\ TypeOK /\ InPlace /\ OwnRegisters /\ LateIsKnown /\ NotFooled /\ FoundIsThere
    /\ FirstAtmel /\ SecondAtmel /\ Commanded /\ ControlsAreOwn
    /\ LightIsClean /\ LightIsInStep

-----------------------------------------------------------------------------
(* The devices in their order *)
LEMMA Devices7 ==
    /\ Len(Order) = 7 /\ DOMAIN Order = 1 .. 7
    /\ Order[1] = "atmel2" /\ Order[2] = "atmel3" /\ Order[3] = "tsl2550" /\ Order[4] = "ds1731"
    /\ Order[5] = "tmp275" /\ Order[6] = "ds1621" /\ Order[7] = "digipicco"
    /\ Devices = {"atmel2", "atmel3", "tsl2550", "ds1731", "tmp275", "ds1621", "digipicco"}
<1>1. /\ Len(Order) = 7 /\ DOMAIN Order = 1 .. 7
      /\ Order[1] = "atmel2" /\ Order[2] = "atmel3" /\ Order[3] = "tsl2550" /\ Order[4] = "ds1731"
      /\ Order[5] = "tmp275" /\ Order[6] = "ds1621" /\ Order[7] = "digipicco"
  BY DEF Order
<1>2. Devices = {Order[i] : i \in DOMAIN Order}
  BY DEF Devices, ToSet
<1> HIDE DEF Order
<1>3. \A i \in 1 .. 7 : i = 1 \/ i = 2 \/ i = 3 \/ i = 4 \/ i = 5 \/ i = 6 \/ i = 7
  OBVIOUS
<1>4. Devices \subseteq {"atmel2", "atmel3", "tsl2550", "ds1731", "tmp275", "ds1621", "digipicco"}
  BY <1>1, <1>2, <1>3
<1>5. {"atmel2", "atmel3", "tsl2550", "ds1731", "tmp275", "ds1621", "digipicco"} \subseteq Devices
  <2>1. \A i \in 1 .. 7 : Order[i] \in Devices
    BY <1>1, <1>2
  <2> QED
    BY <1>1, <2>1
<1> QED
  BY <1>1, <1>4, <1>5

(* Where the program is decides which device it is at. *)
LEMMA DeviceFacts ==
    ASSUME NEW p \in Places
    PROVE  /\ p.dev \in 1 .. 7 /\ Order[p.dev] \in Devices
           /\ p.dev = 1 <=> Order[p.dev] = "atmel2"
           /\ p.dev = 2 <=> Order[p.dev] = "atmel3"
           /\ p.dev = 3 <=> Order[p.dev] = "tsl2550"
           /\ p.dev = 4 <=> Order[p.dev] = "ds1731"
           /\ p.dev = 5 <=> Order[p.dev] = "tmp275"
           /\ p.dev = 6 <=> Order[p.dev] = "ds1621"
           /\ p.dev = 7 <=> Order[p.dev] = "digipicco"
<1>1. p.dev \in 1 .. 7
  BY Devices7 DEF Places
<1>2. p.dev = 1 \/ p.dev = 2 \/ p.dev = 3 \/ p.dev = 4 \/ p.dev = 5 \/ p.dev = 6 \/ p.dev = 7
  BY <1>1
<1> QED
  BY <1>1, <1>2, Devices7

LEMMA KindFacts ==
    /\ Len(Queries) \in Nat \ {0} /\ Kinds \cap Names = {}
    /\ \A k \in 1 .. Len(Queries) : Queries[k] \in Kinds
<1>1. Queries \in Seq(Kinds) /\ Queries # <<>> /\ Kinds \cap Names = {}
  BY KindAssumption
<1> QED
  BY <1>1

-----------------------------------------------------------------------------
(* The steps of the scripts *)

LEMMA ProbeOfAtmel ==
    /\ Len(ProbeAtmel) = 2
    /\ ProbeAtmel[1] = Command("identification")
    /\ ProbeAtmel[2] = Read(24, {"identification"})
BY DEF ProbeAtmel

LEMMA ProbeOfLight ==
    /\ Len(ProbeTSL2550) = 4
    /\ ProbeTSL2550[1] = Write("off") /\ ProbeTSL2550[2] = Write("up")
    /\ ProbeTSL2550[3] = Read(1, {"up"}) /\ ProbeTSL2550[4] = Write("off")
BY DEF ProbeTSL2550

LEMMA ProbeOfDS1731 ==
    /\ Len(ProbeDS1731) = 7
    /\ ProbeDS1731[1] = Write("reset") /\ ProbeDS1731[2] = Write("stop")
    /\ ProbeDS1731[3] = Write("config") /\ ProbeDS1731[4] = Read(1, {"config"})
    /\ ProbeDS1731[5] = Write("config") /\ ProbeDS1731[6] = Read(1, {"config"})
    /\ ProbeDS1731[7] = Write("start")
BY DEF ProbeDS1731

LEMMA ProbeOfTMP275 ==
    /\ Len(ProbeTMP275) = 4
    /\ ProbeTMP275[1] = Write("threshold") /\ ProbeTMP275[2] = Read(2, {"threshold"})
    /\ ProbeTMP275[3] = Write("mode") /\ ProbeTMP275[4] = Trust(1, {"mode"})
BY DEF ProbeTMP275

LEMMA ProbeOfDS1621 ==
    /\ Len(ProbeDS1621) = 8
    /\ ProbeDS1621[1] = Write("stop")
    /\ ProbeDS1621[2] = Write("upper") /\ ProbeDS1621[3] = Read(2, {"upper"})
    /\ ProbeDS1621[4] = Write("lower") /\ ProbeDS1621[5] = Read(2, {"lower"})
    /\ ProbeDS1621[6] = Write("config") /\ ProbeDS1621[7] = Read(1, LowBitsClear)
    /\ ProbeDS1621[8] = Write("start")
BY DEF ProbeDS1621

LEMMA ProbeOfDigipicco == Len(ProbeDigipicco) = 1 /\ ProbeDigipicco[1] = Take(4)
BY DEF ProbeDigipicco

LEMMA QueryOfAtmel ==
    ASSUME NEW k
    PROVE  /\ Len(Query(k)) = 2
           /\ Query(k)[1] = Command(Queries[k]) /\ Query(k)[2] = Read(8, Kinds)
BY DEF Query

LEMMA ReadOfLight ==
    ASSUME NEW want
    PROVE  LET script == ReadSens(want)
           IN  /\ Len(script) = 10
               /\ script[1] = Write("off") /\ script[2] = Write("up")
               /\ script[3] = Read(1, {"up"}) /\ script[4] = Write(want)
               /\ script[5] = Read(1, {"low", "high"})
               /\ script[6] = Write("channel0") /\ script[7] = Take(1)
               /\ script[8] = Write("channel1") /\ script[9] = Take(1)
               /\ script[10] = Write("off")
BY DEF ReadSens

(* What a step does *)
Sends(op) == op.do \in {"write", "command"} /\ op.reg \in Registers
Reads(op) == op.do \in {"read", "take", "trust"} /\ op.size \in {1, 2, 4, 8, 24}

LEMMA TablesOfDevices ==
    /\ \A d \in Atmels : Selects(d) = {"start", "identification"} \cup Kinds /\ FirstRead(d) = 2
    /\ Selects("tsl2550") = {"start", "off", "up"} /\ FirstRead("tsl2550") = 3
    /\ Selects("ds1731") = {"start", "reset", "stop", "config"} /\ FirstRead("ds1731") = 4
    /\ Selects("tmp275") = {"start", "threshold", "mode"} /\ FirstRead("tmp275") = 2
    /\ Selects("ds1621") = {"start", "stop", "upper", "lower", "config"} /\ FirstRead("ds1621") = 3
    /\ Selects("digipicco") = {"start"} /\ FirstRead("digipicco") = 1
    /\ \A d \in Atmels : Probe(d) = ProbeAtmel
    /\ Probe("tsl2550") = ProbeTSL2550 /\ Probe("ds1731") = ProbeDS1731
    /\ Probe("tmp275") = ProbeTMP275 /\ Probe("ds1621") = ProbeDS1621
    /\ Probe("digipicco") = ProbeDigipicco
BY DEF Selects, FirstRead, Probe, Atmels

(* The registers of a device *)
LEMMA OwnSelections ==
    ASSUME NEW d \in Devices
    PROVE  Selects(d) \subseteq Registers /\ "start" \in Selects(d)
<1>1. \A a \in Atmels : Selects(a) \subseteq Registers
  BY TablesOfDevices DEF Registers, Names
<1>2. /\ Selects("tsl2550") \subseteq Registers /\ Selects("ds1731") \subseteq Registers
      /\ Selects("tmp275") \subseteq Registers /\ Selects("ds1621") \subseteq Registers
      /\ Selects("digipicco") \subseteq Registers
  BY TablesOfDevices DEF Registers, Names
<1> QED
  BY <1>1, <1>2, Devices7, TablesOfDevices DEF Atmels

(* A step of probe() *)
ProbeStep(d, k, op) ==
    /\ k \in 1 .. 8
    /\ Sends(op) \/ Reads(op)
    /\ Sends(op) => op.reg \in Selects(d) /\ k # FirstRead(d)
    /\ Reads(op) => k >= FirstRead(d) /\ op.want \subseteq Registers
    /\ d \in Atmels =>
          \/ k = 1 /\ op = Command("identification")
          \/ k = 2 /\ op = Read(24, {"identification"})
    /\ k = FirstRead(d) /\ d \notin Atmels \cup {"digipicco"} =>
          /\ op.do = "read"
          /\ \/ d = "tsl2550" /\ op.want = {"up"}
             \/ d = "ds1731" /\ op.want = {"config"}
             \/ d = "tmp275" /\ op.want = {"threshold"}
             \/ d = "ds1621" /\ op.want = {"upper"}

LEMMA NamedRegisters ==
    /\ Names \subseteq Registers /\ Kinds \subseteq Registers
    /\ \A r \in Names : {r} \in SUBSET Registers
    /\ {"low", "high"} \in SUBSET Registers /\ Kinds \in SUBSET Registers
    /\ Registers \in SUBSET Registers
BY DEF Registers, Names

LEMMA ProbeSteps ==
    ASSUME NEW d \in Devices, NEW k \in Nat \ {0}, k <= Len(Probe(d))
    PROVE  ProbeStep(d, k, Probe(d)[k])
<1>1. CASE d \in Atmels
  <2>0. Probe(d) = ProbeAtmel
    BY <1>1, TablesOfDevices
  <2>1. k = 1 \/ k = 2
    BY <2>0, ProbeOfAtmel
  <2>2. "identification" \in Names /\ d # "digipicco"
    BY <1>1 DEF Names, Atmels
  <2>3. CASE k = 1
    BY <1>1, <2>0, <2>2, <2>3, ProbeOfAtmel, TablesOfDevices, NamedRegisters
       DEF ProbeStep, Sends, Reads, Command
  <2>4. CASE k = 2
    BY <1>1, <2>0, <2>2, <2>4, ProbeOfAtmel, TablesOfDevices, NamedRegisters
       DEF ProbeStep, Sends, Reads, Read
  <2> QED
    BY <2>1, <2>3, <2>4
<1>2. CASE d = "tsl2550"
  <2>0. Probe(d) = ProbeTSL2550
    BY <1>2, TablesOfDevices
  <2>3. Len(Probe(d)) = 4
    BY <2>0, ProbeOfLight
  <2>1. k = 1 \/ k = 2 \/ k = 3 \/ k = 4
    BY <2>3
  <2>2. d \notin Atmels /\ "off" \in Names /\ "up" \in Names
    BY <1>2 DEF Names, Atmels
  <2>5. CASE k = 1
    BY <1>2, <2>0, <2>2, <2>5, ProbeOfLight, TablesOfDevices, NamedRegisters
       DEF ProbeStep, Sends, Reads, Write, Read, Take, Trust
  <2>6. CASE k = 2
    BY <1>2, <2>0, <2>2, <2>6, ProbeOfLight, TablesOfDevices, NamedRegisters
       DEF ProbeStep, Sends, Reads, Write, Read, Take, Trust
  <2>7. CASE k = 3
    BY <1>2, <2>0, <2>2, <2>7, ProbeOfLight, TablesOfDevices, NamedRegisters
       DEF ProbeStep, Sends, Reads, Write, Read, Take, Trust
  <2>8. CASE k = 4
    BY <1>2, <2>0, <2>2, <2>8, ProbeOfLight, TablesOfDevices, NamedRegisters
       DEF ProbeStep, Sends, Reads, Write, Read, Take, Trust
  <2> QED
    BY <2>1, <2>5, <2>6, <2>7, <2>8
<1>3. CASE d = "ds1731"
  <2>0. Probe(d) = ProbeDS1731
    BY <1>3, TablesOfDevices
  <2>3. Len(Probe(d)) = 7
    BY <2>0, ProbeOfDS1731
  <2>1. k = 1 \/ k = 2 \/ k = 3 \/ k = 4 \/ k = 5 \/ k = 6 \/ k = 7
    BY <2>3
  <2>2. d \notin Atmels /\ {"reset", "stop", "config", "start"} \subseteq Names
    BY <1>3 DEF Names, Atmels
  <2>5. CASE k = 1
    BY <1>3, <2>0, <2>2, <2>5, ProbeOfDS1731, TablesOfDevices, NamedRegisters
       DEF ProbeStep, Sends, Reads, Write, Read, Take, Trust
  <2>6. CASE k = 2
    BY <1>3, <2>0, <2>2, <2>6, ProbeOfDS1731, TablesOfDevices, NamedRegisters
       DEF ProbeStep, Sends, Reads, Write, Read, Take, Trust
  <2>7. CASE k = 3
    BY <1>3, <2>0, <2>2, <2>7, ProbeOfDS1731, TablesOfDevices, NamedRegisters
       DEF ProbeStep, Sends, Reads, Write, Read, Take, Trust
  <2>8. CASE k = 4
    BY <1>3, <2>0, <2>2, <2>8, ProbeOfDS1731, TablesOfDevices, NamedRegisters
       DEF ProbeStep, Sends, Reads, Write, Read, Take, Trust
  <2>9. CASE k = 5
    BY <1>3, <2>0, <2>2, <2>9, ProbeOfDS1731, TablesOfDevices, NamedRegisters
       DEF ProbeStep, Sends, Reads, Write, Read, Take, Trust
  <2>10. CASE k = 6
    BY <1>3, <2>0, <2>2, <2>10, ProbeOfDS1731, TablesOfDevices, NamedRegisters
       DEF ProbeStep, Sends, Reads, Write, Read, Take, Trust
  <2>11. CASE k = 7
    BY <1>3, <2>0, <2>2, <2>11, ProbeOfDS1731, TablesOfDevices, NamedRegisters
       DEF ProbeStep, Sends, Reads, Write, Read, Take, Trust
  <2> QED
    BY <2>1, <2>5, <2>6, <2>7, <2>8, <2>9, <2>10, <2>11
<1>4. CASE d = "tmp275"
  <2>0. Probe(d) = ProbeTMP275
    BY <1>4, TablesOfDevices
  <2>3. Len(Probe(d)) = 4
    BY <2>0, ProbeOfTMP275
  <2>1. k = 1 \/ k = 2 \/ k = 3 \/ k = 4
    BY <2>3
  <2>2. d \notin Atmels /\ "threshold" \in Names /\ "mode" \in Names
    BY <1>4 DEF Names, Atmels
  <2>5. CASE k = 1
    BY <1>4, <2>0, <2>2, <2>5, ProbeOfTMP275, TablesOfDevices, NamedRegisters
       DEF ProbeStep, Sends, Reads, Write, Read, Take, Trust
  <2>6. CASE k = 2
    BY <1>4, <2>0, <2>2, <2>6, ProbeOfTMP275, TablesOfDevices, NamedRegisters
       DEF ProbeStep, Sends, Reads, Write, Read, Take, Trust
  <2>7. CASE k = 3
    BY <1>4, <2>0, <2>2, <2>7, ProbeOfTMP275, TablesOfDevices, NamedRegisters
       DEF ProbeStep, Sends, Reads, Write, Read, Take, Trust
  <2>8. CASE k = 4
    BY <1>4, <2>0, <2>2, <2>8, ProbeOfTMP275, TablesOfDevices, NamedRegisters
       DEF ProbeStep, Sends, Reads, Write, Read, Take, Trust
  <2> QED
    BY <2>1, <2>5, <2>6, <2>7, <2>8
<1>5. CASE d = "ds1621"
  <2>0. Probe(d) = ProbeDS1621
    BY <1>5, TablesOfDevices
  <2>3. Len(Probe(d)) = 8
    BY <2>0, ProbeOfDS1621
  <2>1. k = 1 \/ k = 2 \/ k = 3 \/ k = 4 \/ k = 5 \/ k = 6 \/ k = 7 \/ k = 8
    BY <2>3
  <2>2. d \notin Atmels /\ {"stop", "upper", "lower", "config", "start"} \subseteq Names
    BY <1>5 DEF Names, Atmels
  <2>4. LowBitsClear \subseteq Names
    BY DEF LowBitsClear, Names
  <2>5. CASE k = 1
    BY <1>5, <2>0, <2>2, <2>5, ProbeOfDS1621, TablesOfDevices, NamedRegisters
       DEF ProbeStep, Sends, Reads, Write, Read, Take, Trust
  <2>6. CASE k = 2
    BY <1>5, <2>0, <2>2, <2>6, ProbeOfDS1621, TablesOfDevices, NamedRegisters
       DEF ProbeStep, Sends, Reads, Write, Read, Take, Trust
  <2>7. CASE k = 3
    BY <1>5, <2>0, <2>2, <2>7, ProbeOfDS1621, TablesOfDevices, NamedRegisters
       DEF ProbeStep, Sends, Reads, Write, Read, Take, Trust
  <2>8. CASE k = 4
    BY <1>5, <2>0, <2>2, <2>8, ProbeOfDS1621, TablesOfDevices, NamedRegisters
       DEF ProbeStep, Sends, Reads, Write, Read, Take, Trust
  <2>9. CASE k = 5
    BY <1>5, <2>0, <2>2, <2>9, ProbeOfDS1621, TablesOfDevices, NamedRegisters
       DEF ProbeStep, Sends, Reads, Write, Read, Take, Trust
  <2>10. CASE k = 6
    BY <1>5, <2>0, <2>2, <2>10, ProbeOfDS1621, TablesOfDevices, NamedRegisters
       DEF ProbeStep, Sends, Reads, Write, Read, Take, Trust
  <2>11. CASE k = 7
    BY <1>5, <2>0, <2>2, <2>4, <2>11, ProbeOfDS1621, TablesOfDevices, NamedRegisters
       DEF ProbeStep, Sends, Reads, Write, Read, Take, Trust
  <2>12. CASE k = 8
    BY <1>5, <2>0, <2>2, <2>12, ProbeOfDS1621, TablesOfDevices, NamedRegisters
       DEF ProbeStep, Sends, Reads, Write, Read, Take, Trust
  <2> QED
    BY <2>1, <2>5, <2>6, <2>7, <2>8, <2>9, <2>10, <2>11, <2>12
<1>6. CASE d = "digipicco"
  <2>0. Probe(d) = ProbeDigipicco
    BY <1>6, TablesOfDevices
  <2>3. Len(Probe(d)) = 1
    BY <2>0, ProbeOfDigipicco
  <2>1. k = 1
    BY <2>3
  <2>2. d \notin Atmels
    BY <1>6 DEF Names, Atmels
  <2>5. CASE k = 1
    BY <1>6, <2>0, <2>2, <2>5, ProbeOfDigipicco, TablesOfDevices, NamedRegisters
       DEF ProbeStep, Sends, Reads, Write, Read, Take, Trust
  <2> QED
    BY <2>1, <2>5
<1> QED
  BY <1>1, <1>2, <1>3, <1>4, <1>5, <1>6, Devices7 DEF Atmels

(* The first read of a sensor wants something no device before it answers. *)
LEMMA OthersAnswersFail ==
    ASSUME NEW p \in Places, NEW k \in 1 .. p.dev, NEW op,
           Order[p.dev] \notin Atmels \cup {"digipicco"}, k # p.dev,
           ProbeStep(Order[p.dev], FirstRead(Order[p.dev]), op)
    PROVE  op.do = "read" /\ op.want \cap Selects(Order[k]) = {}
<1>1. p.dev \in 3 .. 6 /\ Order[p.dev] \in {"tsl2550", "ds1731", "tmp275", "ds1621"}
  BY DeviceFacts, Devices7 DEF Atmels
<1>2. k \in 1 .. p.dev - 1
  BY <1>1
<1>3. /\ op.do = "read"
      /\ \/ Order[p.dev] = "tsl2550" /\ op.want = {"up"}
         \/ Order[p.dev] = "ds1731" /\ op.want = {"config"}
         \/ Order[p.dev] = "tmp275" /\ op.want = {"threshold"}
         \/ Order[p.dev] = "ds1621" /\ op.want = {"upper"}
  BY DEF ProbeStep
<1>4. \A a \in Atmels : Selects(a) \cap {"up", "config", "threshold", "upper"} = {}
  BY TablesOfDevices, KindFacts DEF Names
<1>5. k = 1 \/ k = 2 \/ k = 3 \/ k = 4 \/ k = 5
  BY <1>1, <1>2
<1>6. CASE p.dev = 3
  BY <1>2, <1>3, <1>4, <1>5, <1>6, DeviceFacts, Devices7, TablesOfDevices DEF Atmels
<1>7. CASE p.dev = 4
  BY <1>2, <1>3, <1>4, <1>5, <1>7, DeviceFacts, Devices7, TablesOfDevices DEF Atmels
<1>8. CASE p.dev = 5
  BY <1>2, <1>3, <1>4, <1>5, <1>8, DeviceFacts, Devices7, TablesOfDevices DEF Atmels
<1>9. CASE p.dev = 6
  BY <1>2, <1>3, <1>4, <1>5, <1>9, DeviceFacts, Devices7, TablesOfDevices DEF Atmels
<1> QED
  BY <1>1, <1>6, <1>7, <1>8, <1>9

LEMMA ReadsOfSensors ==
    /\ Len(ReadDS1621) = 2 /\ ReadDS1621[1] = Write("temperature") /\ ReadDS1621[2] = Take(2)
    /\ Len(ReadDS1731) = 2 /\ ReadDS1731[1] = Write("temperature") /\ ReadDS1731[2] = Take(2)
    /\ Len(ReadTMP275) = 2 /\ ReadTMP275[1] = Write("temperature")
    /\ ReadTMP275[2] = Trust(2, Registers)
    /\ Len(ReadDigipicco) = 1 /\ ReadDigipicco[1] = Take(4)
BY DEF ReadDS1621, ReadDS1731, ReadTMP275, ReadDigipicco

LEMMA ReadSteps ==
    ASSUME at.phase = "read", NEW k \in Nat \ {0},
           NEW d \in {"ds1731", "ds1621", "tmp275", "digipicco"}, k <= Len(Reading(d))
    PROVE  k \in 1 .. 2 /\ (Sends(Reading(d)[k]) \/ Reads(Reading(d)[k]))
<1>0. "temperature" \in Registers
  BY DEF Registers, Names
<1>1. CASE d = "ds1731"
  <2>1. Reading(d) = ReadDS1731
    BY <1>1 DEF Reading
  <2>2. k = 1 \/ k = 2
    BY <2>1, ReadsOfSensors
  <2> QED
    BY <1>0, <2>1, <2>2, ReadsOfSensors DEF Sends, Reads, Write, Take
<1>2. CASE d = "ds1621"
  <2>1. Reading(d) = ReadDS1621
    BY <1>2 DEF Reading
  <2>2. k = 1 \/ k = 2
    BY <2>1, ReadsOfSensors
  <2> QED
    BY <1>0, <2>1, <2>2, ReadsOfSensors DEF Sends, Reads, Write, Take
<1>3. CASE d = "tmp275"
  <2>1. Reading(d) = ReadTMP275
    BY <1>3 DEF Reading
  <2>2. k = 1 \/ k = 2
    BY <2>1, ReadsOfSensors
  <2> QED
    BY <1>0, <2>1, <2>2, ReadsOfSensors DEF Sends, Reads, Write, Trust
<1>4. CASE d = "digipicco"
  <2>1. Reading(d) = ReadDigipicco
    BY <1>4 DEF Reading
  <2>2. k = 1
    BY <2>1, ReadsOfSensors
  <2> QED
    BY <2>1, <2>2, ReadsOfSensors DEF Reads, Take
<1> QED
  BY <1>1, <1>2, <1>3, <1>4

(* A step of read_sens() *)
LightStep(k, op) ==
    /\ k \in 1 .. 10
    /\ k = 1 => op = Write("off")
    /\ k = 2 => op = Write("up")
    /\ k = 3 => op = Read(1, {"up"})
    /\ k = 4 => op = Write(light.want)
    /\ k = 5 => op = Read(1, {"low", "high"})
    /\ k = 6 => op = Write("channel0")
    /\ k = 7 => op = Take(1)
    /\ k = 8 => op = Write("channel1")
    /\ k = 9 => op = Take(1)
    /\ k = 10 => op = Write("off")
    /\ k \in {1, 2, 4, 6, 8, 10} => Sends(op)
    /\ k \in {3, 5, 7, 9} => Reads(op)

LEMMA LightSteps ==
    ASSUME TypeOK, InLight
    PROVE  Len(Script) = 10 /\ (at.step <= 10 => LightStep(at.step, Op))
<1>1. Script = ReadSens(light.want)
  BY DEF InLight, Script, Reading
<1>2. /\ "off" \in Registers /\ "up" \in Registers /\ light.want \in Registers
      /\ "channel0" \in Registers /\ "channel1" \in Registers
  BY DEF TypeOK, Lights, Registers, Names
<1>3. at.step \in Nat \ {0}
  BY DEF TypeOK, Places
<1> DEFINE s == ReadSens(light.want)
<1>4. /\ Len(s) = 10
      /\ s[1] = Write("off") /\ s[2] = Write("up")
      /\ s[3] = Read(1, {"up"}) /\ s[4] = Write(light.want)
      /\ s[5] = Read(1, {"low", "high"})
      /\ s[6] = Write("channel0") /\ s[7] = Take(1)
      /\ s[8] = Write("channel1") /\ s[9] = Take(1)
      /\ s[10] = Write("off")
  BY ReadOfLight
<1> HIDE DEF s
<1>5. Len(Script) = 10
  BY <1>1, <1>4 DEF s
<1>6. Op = s[at.step]
  BY <1>1 DEF Op, s
<1>7. ASSUME at.step <= 10 PROVE LightStep(at.step, Op)
  <2>1. at.step \in 1 .. 10
    BY <1>3, <1>7
  <2>2. at.step \in {1, 2, 4, 6, 8, 10} => Sends(Op)
    BY <1>2, <1>4, <1>6 DEF Sends, Write
  <2>3. at.step \in {3, 5, 7, 9} => Reads(Op)
    BY <1>4, <1>6 DEF Reads, Read, Take
  <2> QED
    BY <1>4, <1>6, <2>1, <2>2, <2>3 DEF LightStep
<1> QED
  BY <1>5, <1>7

(* A step of a script *)
LEMMA StepFacts ==
    ASSUME TypeOK, InPlace, at.step <= Len(Script)
    PROVE  /\ at.phase \in {"probe", "query", "read"}
           /\ at.step \in 1 .. 10
           /\ Sends(Op) \/ Reads(Op)
           /\ Finding /\ Sends(Op) => Op.reg \in Selects(Device)
           /\ at.phase = "probe" => ProbeStep(Device, at.step, Op)
           /\ at.phase = "query" =>
                 \/ at.step = 1 /\ Op = Command(Queries[at.kind])
                 \/ at.step = 2 /\ Op = Read(8, Kinds)
<1>1. /\ at.step \in Nat \ {0} /\ at.kind \in 1 .. Len(Queries)
      /\ Device \in Devices
      /\ at.phase \in {"probe", "query", "idle", "read", "crashed"}
  BY DeviceFacts DEF TypeOK, Places, Device
<1>2. CASE at.phase \in {"idle", "crashed"}
  <2>1. Script = <<>>
    BY <1>2 DEF Script
  <2> QED
    BY <1>1, <2>1
<1>3. CASE at.phase = "probe"
  <2>1. Script = Probe(Device)
    BY <1>3 DEF Script
  <2>2. ProbeStep(Device, at.step, Op)
    BY <1>1, <2>1, ProbeSteps DEF Op
  <2> QED
    BY <1>3, <2>2 DEF ProbeStep
<1>4. CASE at.phase = "query"
  <2>1. Script = Query(at.kind)
    BY <1>4 DEF Script
  <2>2. at.step = 1 \/ at.step = 2
    <3>1. Len(Script) = 2
      BY <2>1, QueryOfAtmel
    <3> QED
      BY <1>1, <3>1
  <2>3. Queries[at.kind] \in Kinds /\ Kinds \subseteq Registers
    BY <1>1, KindFacts DEF Registers
  <2>4. \/ at.step = 1 /\ Op = Command(Queries[at.kind])
        \/ at.step = 2 /\ Op = Read(8, Kinds)
    BY <2>1, <2>2, QueryOfAtmel DEF Op
  <2>5. Sends(Op) \/ Reads(Op)
    BY <2>3, <2>4 DEF Sends, Reads, Command, Read
  <2>6. Sends(Op) => Op.reg \in Kinds
    BY <2>3, <2>4 DEF Sends, Command, Read
  <2>7. Kinds \subseteq Selects(Device)
    BY <1>4, TablesOfDevices DEF InPlace
  <2> QED
    BY <1>4, <2>2, <2>4, <2>5, <2>6, <2>7
<1>5. CASE at.phase = "read"
  <2>1. Script = Reading(Device) /\ Device \notin Atmels
    BY <1>5 DEF Script, InPlace
  <2>2. CASE InLight
    <3>1. LightStep(at.step, Op)
      BY <2>2, LightSteps
    <3>2. at.step \in 1 .. 10
      BY <3>1 DEF LightStep
    <3>3. Sends(Op) \/ Reads(Op)
      BY <3>1, <3>2 DEF LightStep
    <3> QED
      BY <1>5, <3>2, <3>3 DEF Finding
  <2>3. CASE ~InLight
    <3>1. Device \in {"ds1731", "ds1621", "tmp275", "digipicco"}
      BY <1>1, <1>5, <2>1, <2>3, Devices7 DEF InLight, Atmels
    <3>2. at.step \in 1 .. 2 /\ (Sends(Op) \/ Reads(Op))
      BY <1>1, <1>5, <2>1, <3>1, ReadSteps DEF Op
    <3> QED
      BY <1>5, <3>2 DEF Finding
  <2> QED
    BY <2>2, <2>3
<1> QED
  BY <1>1, <1>2, <1>3, <1>4, <1>5

-----------------------------------------------------------------------------
(* What is left of the line when its first n answers are gone. *)
Dropped(rest, n) ==
    /\ n \in 0 .. Len(line)
    /\ rest \in Seq(Answers)
    /\ Len(rest) = Len(line) - n
    /\ \A i \in DOMAIN rest : i + n \in DOMAIN line /\ rest[i] = line[i + n]

LEMMA DropFirst ==
    ASSUME line \in Seq(Answers), NEW n \in 0 .. Len(line)
    PROVE  Dropped(SubSeq(line, n + 1, Len(line)), n)
<1> DEFINE rest == SubSeq(line, n + 1, Len(line))
<1>1. /\ rest \in Seq(Answers)
      /\ Len(rest) = Len(line) - n
      /\ \A i \in DOMAIN rest : i + n \in DOMAIN line /\ rest[i] = line[i + n]
  OBVIOUS
<1> QED
  BY <1>1 DEF Dropped

LEMMA Backlogs ==
    ASSUME line \in Seq(Answers), NEW rest \in Backlog
    PROVE  \E n \in 0 .. Len(line) : Dropped(rest, n)
<1>1. PICK n \in 0 .. Len(line) : rest = SubSeq(line, n + 1, Len(line))
  BY DEF Backlog
<1>2. Dropped(SubSeq(line, n + 1, Len(line)), n)
  BY DropFirst
<1> QED
  BY <1>1, <1>2

(* An answer that is added comes last. *)
LEMMA Added ==
    ASSUME NEW s \in Seq(Answers), NEW a \in Answers
    PROVE  /\ Append(s, a) \in Seq(Answers) /\ Len(Append(s, a)) = Len(s) + 1
           /\ DOMAIN Append(s, a) = 1 .. Len(s) + 1
           /\ \A i \in 1 .. Len(s) : Append(s, a)[i] = s[i]
           /\ Append(s, a)[Len(s) + 1] = a
OBVIOUS

(* Where the program may be when it is done with a device, a kind or a     *)
(* read.                                                                   *)
GoesOn(p) ==
    /\ p \in Places /\ p.wait = "no" /\ p.step = 1
    /\ \/ p.phase = "idle" /\ p = Idle
       \/ Finding /\ p.phase = "probe" /\ p.dev = at.dev + 1
       \/ at.phase = "query" /\ p.phase = "query" /\ p.dev = at.dev /\ p.kind = at.kind + 1

LEMMA IdleFacts ==
    /\ Idle \in Places /\ Idle.phase = "idle" /\ Idle.dev = 1 /\ Idle.step = 1
    /\ Idle.kind = 1 /\ Idle.attempt = 0 /\ Idle.wait = "no"
<1>1. 0 \in 0 .. Attempts - 1
  BY CountAssumption
<1>2. 1 \in 1 .. Len(Queries) /\ 1 \in 1 .. Len(Order)
  BY KindFacts, Devices7
<1> QED
  BY <1>1, <1>2 DEF Idle, Places

LEMMA NextDeviceFacts ==
    ASSUME TypeOK, Finding
    PROVE  GoesOn(NextDevice)
<1>1. CASE at.dev < Len(Order)
  <2>1. at.dev + 1 \in 1 .. Len(Order)
    BY <1>1, Devices7 DEF TypeOK, Places
  <2>2. NextDevice = [Idle EXCEPT !.phase = "probe", !.dev = at.dev + 1]
    BY <1>1 DEF NextDevice
  <2>3. NextDevice \in Places
    BY <2>1, <2>2, IdleFacts DEF Places
  <2> QED
    BY <2>2, <2>3, IdleFacts DEF GoesOn, Places
<1>2. CASE ~(at.dev < Len(Order))
  BY <1>2, IdleFacts DEF NextDevice, GoesOn
<1> QED
  BY <1>1, <1>2

LEMMA NextKindFacts ==
    ASSUME TypeOK, at.phase = "query"
    PROVE  GoesOn(NextKind)
<1>1. CASE at.kind < Len(Queries)
  <2>1. at.kind + 1 \in 1 .. Len(Queries) /\ at.dev \in 1 .. Len(Order)
    BY <1>1, KindFacts DEF TypeOK, Places
  <2>2. NextKind = [Idle EXCEPT !.phase = "query", !.dev = at.dev, !.kind = at.kind + 1]
    BY <1>1 DEF NextKind
  <2>3. NextKind \in Places
    BY <2>1, <2>2, IdleFacts DEF Places
  <2> QED
    BY <2>2, <2>3, IdleFacts DEF GoesOn, Places
<1>2. CASE ~(at.kind < Len(Queries))
  BY <1>2, NextDeviceFacts DEF NextKind, Finding
<1> QED
  BY <1>1, <1>2

LEMMA GiveUpFacts ==
    ASSUME TypeOK, at.phase \in {"probe", "query", "read"}
    PROVE  GoesOn(GiveUp)
<1>1. CASE at.phase = "probe"
  BY <1>1, NextDeviceFacts DEF GiveUp, Finding
<1>2. CASE at.phase = "query"
  BY <1>2, NextKindFacts DEF GiveUp
<1>3. CASE at.phase = "read"
  BY <1>3, IdleFacts DEF GiveUp, GoesOn
<1> QED
  BY <1>1, <1>2, <1>3

(* The same device again, or on. *)
TriedAgain ==
    /\ at' \in Places
    /\ at'.wait = "no" /\ at'.step = 1
    /\ at'.phase = at.phase /\ at'.dev = at.dev /\ at'.kind = at.kind
    /\ Device = "digipicco" \/ InLight
    /\ light' = [Unread EXCEPT !.want = light.want]
    /\ lost' = {}
    /\ pending' = IF InLight THEN Len(line') ELSE 0

LEMMA FailFacts ==
    ASSUME TypeOK, at.phase \in {"probe", "query", "read"}, Fail
    PROVE  TriedAgain \/ (GoesOn(at') /\ LightDone)
<1>1. CASE TriesAgain
  <2>1. /\ at' = [at EXCEPT !.step = 1, !.attempt = @ + 1, !.wait = "no"]
        /\ LightAgain(light.want)
    BY <1>1 DEF Fail
  <2>2. at.attempt + 1 \in 0 .. Attempts - 1
    BY <1>1, CountAssumption DEF TriesAgain, TypeOK, Places
  <2>3. at' \in Places
    <3>1. at \in Places
      BY DEF TypeOK
    <3>2. at' = [phase |-> at.phase, dev |-> at.dev, step |-> 1, kind |-> at.kind,
                 attempt |-> at.attempt + 1, wait |-> "no"]
      BY <2>1, <3>1 DEF Places
    <3> QED
      BY <2>2, <3>1, <3>2 DEF Places
  <2>4. /\ at'.wait = "no" /\ at'.step = 1
        /\ at'.phase = at.phase /\ at'.dev = at.dev /\ at'.kind = at.kind
    BY <2>1 DEF TypeOK, Places
  <2> QED
    BY <1>1, <2>1, <2>3, <2>4 DEF TriedAgain, LightAgain, TriesAgain, InLight
<1>2. CASE ~TriesAgain
  BY <1>2, GiveUpFacts DEF Fail
<1> QED
  BY <1>1, <1>2

(* One step further in a script *)
LEMMA NextStepFacts ==
    ASSUME TypeOK, InPlace, at.step <= Len(Script)
    PROVE  /\ NextStep \in Places
           /\ NextStep.step = at.step + 1 /\ NextStep.wait = "no"
           /\ NextStep.phase = at.phase /\ NextStep.dev = at.dev /\ NextStep.kind = at.kind
<1>1. at.step + 1 \in 1 .. 11
  BY StepFacts
<1> QED
  BY <1>1 DEF NextStep, TypeOK, Places

LEMMA UnreadFacts ==
    /\ Unread \in Lights /\ Unread.retry = Retries /\ Unread.retry > 0
    /\ Unread.want = "low" /\ Unread.channel0 = None
    /\ \A w \in {"low", "high"} :
          LET again == [Unread EXCEPT !.want = w]
          IN  again \in Lights /\ again.want = w /\ again.retry = Retries
<1>1. Retries \in 0 .. Retries /\ Retries > 0
  BY CountAssumption
<1> QED
  BY <1>1 DEF Unread, Lights

-----------------------------------------------------------------------------
(* What the actions do to the line *)

LEMMA SendFacts ==
    ASSUME TypeOK, InPlace, Doing({"write", "command"})
    PROVE  /\ at.step <= Len(Script) /\ Sends(Op) /\ ~Reads(Op) /\ Op.reg \in Registers
           /\ at.wait = "no"
BY StepFacts DEF Doing, Sends, Reads, InPlace, TypeOK, Places

LEMMA AskFacts ==
    ASSUME TypeOK, InPlace, Doing({"read", "take", "trust"})
    PROVE  at.step <= Len(Script) /\ Reads(Op) /\ ~Sends(Op)
BY StepFacts DEF Doing, Sends, Reads

(* The answer to a request *)
Answered(rest, a) ==
    /\ Device \in present
    /\ a \in Answers
    /\ a.from = Device /\ a.reg = selected[Device] /\ a.range = AnswerRange
    /\ line' = Append(rest, a)

LEMMA AnswerFacts ==
    ASSUME TypeOK, InPlace, AskData
    PROVE  \E rest \in Backlog : line' = rest \/ \E a \in Answers : Answered(rest, a)
<1>1. Reads(Op) /\ Device \in Devices
  BY AskFacts, DeviceFacts DEF AskData, TypeOK, Device
<1>2. AnswerSize \in {1, 2, 4, 8, 24}
  BY <1>1 DEF AnswerSize, Reads
<1>3. \A v \in AnswerValues : v \in Values
  BY DEF AnswerValues, Values
<1>4. AnswerRange \in {"low", "high"} /\ selected[Device] \in Registers
  BY <1>1 DEF AnswerRange, TypeOK
<1>5. PICK rest \in Backlog :
          \/ /\ Device \in present
             /\ \E v \in AnswerValues :
                   line' = Append(rest, [from |-> Device, reg |-> selected[Device],
                                         size |-> AnswerSize, range |-> AnswerRange,
                                         value |-> v])
          \/ line' = rest
  BY DEF AskData
<1>6. ASSUME NEW v \in AnswerValues,
             Device \in present,
             line' = Append(rest, [from |-> Device, reg |-> selected[Device],
                                   size |-> AnswerSize, range |-> AnswerRange, value |-> v])
      PROVE  \E a \in Answers : Answered(rest, a)
  <2> DEFINE a == [from |-> Device, reg |-> selected[Device],
                   size |-> AnswerSize, range |-> AnswerRange, value |-> v]
  <2>1. a \in Answers
    BY <1>1, <1>2, <1>3, <1>4, <1>6 DEF Answers
  <2>2. a.from = Device /\ a.reg = selected[Device] /\ a.range = AnswerRange
    OBVIOUS
  <2>3. line' = Append(rest, a)
    BY <1>6
  <2> HIDE DEF a
  <2>4. Answered(rest, a)
    BY <1>6, <2>1, <2>2, <2>3 DEF Answered
  <2> QED
    BY <2>1, <2>4
<1> QED
  BY <1>5, <1>6

LEMMA TakeFacts ==
    ASSUME TypeOK, InPlace, NEW n, Takes(n)
    PROVE  /\ n \in 1 .. Len(line) /\ 1 \in DOMAIN line /\ line[1] \in Answers
           /\ Dropped(line', n)
           /\ at.step <= Len(Script) /\ Reads(Op) /\ ~Sends(Op) /\ at.wait = "yes"
<1>1. n \in 1 .. Len(line) /\ line' = SubSeq(line, n + 1, Len(line)) /\ at.wait = "yes"
  BY DEF Takes, TypeOK
<1>2. n \in 0 .. Len(line)
  BY <1>1
<1>3. Dropped(SubSeq(line, n + 1, Len(line)), n)
  BY <1>2, DropFirst DEF TypeOK
<1>4. 1 \in DOMAIN line /\ line[1] \in Answers
  BY <1>1 DEF TypeOK
<1> QED
  BY <1>1, <1>3, <1>4, AskFacts DEF Takes

LEMMA FailTypes ==
    ASSUME TypeOK, line' \in Seq(Answers), TriedAgain \/ (GoesOn(at') /\ LightDone)
    PROVE  at' \in Places /\ light' \in Lights /\ lost' \subseteq Registers /\ pending' \in Nat
<1>1. light.want \in {"low", "high"}
  BY DEF TypeOK, Lights
<1>2. Len(line') \in Nat
  OBVIOUS
<1> QED
  BY <1>1, <1>2, UnreadFacts DEF TriedAgain, GoesOn, LightDone

-----------------------------------------------------------------------------
(* No step leaves the types. *)
LEMMA TypeStep ==
    TypeOK /\ InPlace /\ LightIsClean /\ [Next]_vars => TypeOK'
<1> SUFFICES ASSUME TypeOK, InPlace, LightIsClean, [Next]_vars PROVE TypeOK'
  OBVIOUS
<1> USE DEF TypeOK
<1>1. CASE WriteData
  <2>1. line' \in Seq(Answers)
    BY <1>1, Backlogs DEF WriteData, Dropped
  <2>2. at.step <= Len(Script) /\ Op.reg \in Registers
    BY <1>1, SendFacts DEF WriteData
  <2>3. at' \in Places
    BY <1>1, <2>2, NextStepFacts DEF WriteData
  <2> QED
    BY <1>1, <2>1, <2>2, <2>3 DEF WriteData
<1>2. CASE WriteIsLost
  <2>1. line' \in Seq(Answers)
    BY <1>2, Backlogs DEF WriteIsLost, Dropped
  <2>2. at.step <= Len(Script) /\ Op.reg \in Registers
    BY <1>2, SendFacts DEF WriteIsLost
  <2>3. faults' \in 0 .. MaxFaults
    BY <1>2, CountAssumption DEF WriteIsLost
  <2>4. CASE Fail
    <3>1. TriedAgain \/ (GoesOn(at') /\ LightDone)
      BY <2>2, <2>4, FailFacts, StepFacts
    <3> QED
      BY <1>2, <2>1, <2>3, <3>1, FailTypes DEF WriteIsLost
  <2>5. CASE /\ at' = NextStep /\ UNCHANGED <<light, pending>>
             /\ lost' = IF InLight THEN lost \cup {Op.reg} ELSE lost
    <3>1. at' \in Places
      BY <2>2, <2>5, NextStepFacts
    <3> QED
      BY <1>2, <2>1, <2>2, <2>3, <2>5, <3>1 DEF WriteIsLost
  <2> QED
    BY <1>2, <2>4, <2>5 DEF WriteIsLost
<1>3. CASE AskData
  <2>1. PICK rest \in Backlog : line' = rest \/ \E a \in Answers : Answered(rest, a)
    BY <1>3, AnswerFacts
  <2>2. rest \in Seq(Answers)
    BY Backlogs DEF Dropped
  <2>3. line' \in Seq(Answers)
    BY <2>1, <2>2, Added DEF Answered
  <2>4. faults' \in 0 .. MaxFaults
    BY <1>3, CountAssumption DEF AskData
  <2>5. at' \in Places
    BY <1>3 DEF AskData, Places
  <2> QED
    BY <1>3, <2>3, <2>4, <2>5 DEF AskData
<1>4. CASE NoAnswer
  <2>1. line' = line /\ at.step <= Len(Script)
    BY <1>4 DEF NoAnswer, NothingComes, Doing
  <2>2. TriedAgain \/ (GoesOn(at') /\ LightDone)
    BY <1>4, <2>1, FailFacts, StepFacts DEF NoAnswer
  <2>3. faults' \in 0 .. MaxFaults
    BY <1>4, CountAssumption DEF NoAnswer, NothingComes
  <2>4. late' \subseteq Devices
    <3>1. \A i \in DOMAIN line : line[i].from \in Devices
      <4>1. \A i \in DOMAIN line : line[i] \in Answers
        OBVIOUS
      <4> QED
        BY <4>1 DEF Answers
    <3> QED
      BY <1>4, <3>1 DEF NoAnswer, NothingComes
  <2> QED
    BY <1>4, <2>1, <2>2, <2>3, <2>4, FailTypes DEF NoAnswer
<1>5. CASE WrongAnswer
  <2>1. line' \in Seq(Answers) /\ at.step <= Len(Script)
    BY <1>5, TakeFacts DEF WrongAnswer, Dropped
  <2>2. TriedAgain \/ (GoesOn(at') /\ LightDone)
    BY <1>5, <2>1, FailFacts, StepFacts DEF WrongAnswer
  <2> QED
    BY <1>5, <2>1, <2>2, FailTypes DEF WrongAnswer
<1>6. CASE Unchecked
  <2>1. line' = line /\ at.step <= Len(Script)
    BY <1>6 DEF Unchecked, NothingComes, Doing
  <2>2. GoesOn(GiveUp)
    BY <2>1, GiveUpFacts, StepFacts
  <2>3. at' \in Places
    BY <1>6, <2>2 DEF Unchecked, GoesOn, Places
  <2>4. faults' \in 0 .. MaxFaults
    BY <1>6, CountAssumption DEF Unchecked, NothingComes
  <2>5. late' \subseteq Devices
    <3>1. \A i \in DOMAIN line : line[i].from \in Devices
      <4>1. \A i \in DOMAIN line : line[i] \in Answers
        OBVIOUS
      <4> QED
        BY <4>1 DEF Answers
    <3> QED
      BY <1>6, <3>1 DEF Unchecked, NothingComes
  <2> QED
    BY <1>6, <2>1, <2>3, <2>4, <2>5 DEF Unchecked
<1>7. CASE RightAnswer
  <2>1. line' \in Seq(Answers) /\ at.step <= Len(Script) /\ line[1] \in Answers
    BY <1>7, TakeFacts DEF RightAnswer, Dropped
  <2>2. at' \in Places
    BY <1>7, <2>1, NextStepFacts DEF RightAnswer
  <2>3. controls' \in [Atmels -> [Kinds -> Answers \cup {None}]]
    <3>1. at.phase = "query" => Device \in Atmels /\ Queries[at.kind] \in Kinds
      BY KindFacts DEF InPlace, Places
    <3> QED
      BY <1>7, <2>1, <3>1 DEF RightAnswer
  <2> QED
    BY <1>7, <2>1, <2>2, <2>3 DEF RightAnswer
<1>8. CASE NoValue
  <2>1. line' \in Seq(Answers) /\ at.step <= Len(Script)
    BY <1>8, TakeFacts DEF NoValue, Dropped
  <2>2. at' \in Places
    BY <1>8, <2>1, GiveUpFacts, StepFacts DEF NoValue, GoesOn
  <2> QED
    BY <1>8, <2>1, <2>2 DEF NoValue
<1>9. CASE Channel0
  <2>1. line' \in Seq(Answers) /\ at.step <= Len(Script) /\ line[1] \in Answers
    BY <1>9, TakeFacts DEF Channel0, Dropped
  <2>2. at' \in Places
    BY <1>9, <2>1, NextStepFacts DEF Channel0
  <2>3. light' \in Lights
    BY <1>9, <2>1 DEF Channel0, Lights
  <2> QED
    BY <1>9, <2>1, <2>2, <2>3 DEF Channel0
<1>10. CASE ReadAgain
  <2>1. line' \in Seq(Answers) /\ at.step <= Len(Script)
    BY <1>10, TakeFacts DEF ReadAgain, TakesChannel1, Dropped
  <2>2. at' \in Places
    <3>1. NextStep \in Places
      BY <2>1, NextStepFacts
    <3>2. [at EXCEPT !.step = Channels, !.wait = "no"] \in Places
      <4>1. Channels \in 1 .. 11
        BY DEF Channels
      <4> QED
        BY <4>1 DEF Places
    <3> QED
      BY <1>10, <3>1, <3>2 DEF ReadAgain
  <2>3. light' \in Lights
    <3>1. InLight /\ at.step = 9
      BY <1>10 DEF ReadAgain, TakesChannel1, Channels
    <3>2. light.retry \in 0 .. Retries /\ light.retry > 0
      BY <3>1 DEF LightIsClean, Lights
    <3>3. light.retry - 1 \in 0 .. Retries
      BY <3>2, CountAssumption
    <3> QED
      BY <1>10, <3>3 DEF ReadAgain, Lights
  <2> QED
    BY <1>10, <2>1, <2>2, <2>3 DEF ReadAgain
<1>11. CASE Overflows
  <2>1. line' \in Seq(Answers)
    BY <1>11, TakeFacts DEF Overflows, TakesChannel1, Dropped
  <2> QED
    BY <1>11, <2>1, IdleFacts, UnreadFacts DEF Overflows, LightDone
<1>12. CASE Measured
  <2>1. line' \in Seq(Answers) /\ at.step <= Len(Script)
    BY <1>12, TakeFacts DEF Measured, TakesChannel1, Dropped
  <2>2. at' \in Places
    BY <1>12, <2>1, NextStepFacts DEF Measured
  <2>3. light' \in Lights
    BY <1>12 DEF Measured, Lights
  <2> QED
    BY <1>12, <2>1, <2>2, <2>3 DEF Measured
<1>13. CASE LightEnds
  <2>1. line' = line /\ at.phase = "read"
    BY <1>13 DEF LightEnds, InLight
  <2>2. CASE Fail
    <3>1. TriedAgain \/ (GoesOn(at') /\ LightDone)
      BY <2>1, <2>2, FailFacts
    <3> QED
      BY <1>13, <2>1, <3>1, FailTypes DEF LightEnds
  <2>3. CASE at' = Idle /\ LightDone
    BY <1>13, <2>1, <2>3, IdleFacts, UnreadFacts DEF LightEnds, LightDone
  <2>4. CASE /\ at' = [at EXCEPT !.step = 1, !.attempt = 0]
             /\ LightAgain("high")
    <3>1. 0 \in 0 .. Attempts - 1
      BY CountAssumption
    <3>2. at' \in Places
      <4>1. 1 \in 1 .. 11
        OBVIOUS
      <4> QED
        BY <2>4, <3>1, <4>1 DEF Places
    <3>3. pending' \in Nat
      BY <2>1, <2>4 DEF LightAgain
    <3> QED
      BY <1>13, <2>1, <2>4, <3>2, <3>3, UnreadFacts DEF LightEnds, LightAgain
  <2> QED
    BY <1>13, <2>2, <2>3, <2>4 DEF LightEnds
<1>14. CASE DeviceFound
  <2>1. Device \in Devices /\ GoesOn(NextDevice)
    BY <1>14, DeviceFacts, NextDeviceFacts DEF DeviceFound, Finding, Device
  <2>2. [Idle EXCEPT !.phase = "query", !.dev = at.dev] \in Places
    BY IdleFacts DEF Places
  <2>3. at' \in Places
    BY <1>14, <2>1, <2>2 DEF DeviceFound, GoesOn
  <2> QED
    BY <1>14, <2>1, <2>3 DEF DeviceFound
<1>15. CASE KindDone
  <2>1. at' \in Places
    BY <1>15, NextKindFacts DEF KindDone, GoesOn
  <2> QED
    BY <1>15, <2>1 DEF KindDone
<1>16. CASE ReadDone
  BY <1>16, IdleFacts DEF ReadDone
<1>17. ASSUME NEW d \in DOMAIN Order, BeginRead(d) PROVE TypeOK'
  <2>1. at' \in Places
    <3>1. d \in 1 .. Len(Order)
      BY Devices7
    <3> QED
      BY <1>17, <3>1, IdleFacts DEF BeginRead, Places
  <2>2. pending' \in Nat
    BY <1>17 DEF BeginRead
  <2> QED
    BY <1>17, <2>1, <2>2 DEF BeginRead
<1>18. CASE UNCHANGED vars
  BY <1>18 DEF vars
<1> QED
  BY <1>1, <1>2, <1>3, <1>4, <1>5, <1>6, <1>7, <1>8, <1>9, <1>10,
     <1>11, <1>12, <1>13, <1>14, <1>15, <1>16, <1>17, <1>18
     DEF Next, Program

(* Where the program has moved to it has not asked yet. *)
Stays(p) == p.phase = at.phase /\ p.dev = at.dev /\ p.kind = at.kind

LEMMA MovesInPlace ==
    ASSUME TypeOK, InPlace, at'.wait = "no", GoesOn(at') \/ Stays(at')
    PROVE  InPlace'
BY IdleFacts DEF InPlace, GoesOn, Stays, Device

LEMMA FailMoves ==
    ASSUME TypeOK, at.phase \in {"probe", "query", "read"}, Fail
    PROVE  at'.wait = "no" /\ at'.step = 1 /\ (GoesOn(at') \/ Stays(at'))
BY FailFacts DEF TriedAgain, GoesOn, Stays

LEMMA StepMoves ==
    ASSUME TypeOK, InPlace, at.step <= Len(Script), at' = NextStep
    PROVE  at'.wait = "no" /\ at'.step = at.step + 1 /\ Stays(at')
BY NextStepFacts DEF Stays

(* Controls are asked of an Atmel, values are read of a sensor. *)
LEMMA InPlaceStep ==
    TypeOK /\ InPlace /\ [Next]_vars => InPlace'
<1> SUFFICES ASSUME TypeOK, InPlace, [Next]_vars PROVE InPlace'
  OBVIOUS
<1>1. CASE WriteData
  <2>1. at.step <= Len(Script)
    BY <1>1, SendFacts DEF WriteData
  <2> QED
    BY <1>1, <2>1, StepMoves, MovesInPlace DEF WriteData
<1>2. CASE WriteIsLost
  <2>1. at.step <= Len(Script) /\ at.phase \in {"probe", "query", "read"}
    BY <1>2, SendFacts, StepFacts DEF WriteIsLost
  <2> QED
    BY <1>2, <2>1, FailMoves, StepMoves, MovesInPlace DEF WriteIsLost
<1>3. CASE AskData
  <2>1. at' = [at EXCEPT !.wait = "yes"] /\ light' = light /\ at \in Places
    BY <1>3 DEF AskData, TypeOK
  <2>2. at'.phase = at.phase /\ at'.dev = at.dev /\ at'.kind = at.kind /\ at'.step = at.step
    BY <2>1 DEF Places
  <2>3. Device' = Device
    BY <2>2 DEF Device
  <2>4. Script' = Script
    BY <2>1, <2>2, <2>3 DEF Script, Reading
  <2>5. Op' = Op
    BY <2>2, <2>4 DEF Op
  <2>6. Doing({"read", "take", "trust"})'
    BY <1>3, <2>2, <2>4, <2>5 DEF AskData, Doing
  <2> QED
    BY <2>2, <2>3, <2>6 DEF InPlace
<1>4. CASE NoAnswer
  <2>1. at.step <= Len(Script) /\ at.phase \in {"probe", "query", "read"}
    BY <1>4, AskFacts, StepFacts DEF NoAnswer, NothingComes
  <2> QED
    BY <1>4, <2>1, FailMoves, MovesInPlace DEF NoAnswer
<1>5. CASE WrongAnswer
  <2>1. at.step <= Len(Script) /\ at.phase \in {"probe", "query", "read"}
    BY <1>5, TakeFacts, StepFacts DEF WrongAnswer
  <2> QED
    BY <1>5, <2>1, FailMoves, MovesInPlace DEF WrongAnswer
<1>6. CASE Unchecked
  <2>1. at.step <= Len(Script) /\ at.phase \in {"probe", "query", "read"}
    BY <1>6, AskFacts, StepFacts DEF Unchecked, NothingComes
  <2>2. CASE at' = GiveUp
    BY <2>1, <2>2, GiveUpFacts, MovesInPlace DEF GoesOn
  <2>3. CASE at.phase = "read" /\ at' = [at EXCEPT !.phase = "crashed"]
    <3>1. at'.phase = "crashed"
      BY <2>3 DEF TypeOK, Places
    <3> QED
      BY <3>1 DEF InPlace
  <2> QED
    BY <1>6, <2>2, <2>3 DEF Unchecked
<1>7. CASE RightAnswer
  <2>1. at.step <= Len(Script)
    BY <1>7, TakeFacts DEF RightAnswer
  <2> QED
    BY <1>7, <2>1, StepMoves, MovesInPlace DEF RightAnswer
<1>8. CASE NoValue
  <2>1. at.step <= Len(Script) /\ at.phase \in {"probe", "query", "read"}
    BY <1>8, TakeFacts, StepFacts DEF NoValue
  <2> QED
    BY <1>8, <2>1, GiveUpFacts, MovesInPlace DEF NoValue, GoesOn
<1>9. CASE Channel0
  <2>1. at.step <= Len(Script)
    BY <1>9, TakeFacts DEF Channel0
  <2> QED
    BY <1>9, <2>1, StepMoves, MovesInPlace DEF Channel0
<1>10. CASE ReadAgain
  <2>1. at.step <= Len(Script)
    BY <1>10, TakeFacts DEF ReadAgain, TakesChannel1
  <2>2. CASE at' = NextStep
    BY <2>1, <2>2, StepMoves, MovesInPlace
  <2>3. CASE at' = [at EXCEPT !.step = Channels, !.wait = "no"]
    <3>1. at'.wait = "no" /\ Stays(at')
      BY <2>3 DEF TypeOK, Places, Stays
    <3> QED
      BY <3>1, MovesInPlace
  <2> QED
    BY <1>10, <2>2, <2>3 DEF ReadAgain
<1>11. CASE Overflows
  BY <1>11, IdleFacts DEF Overflows, InPlace
<1>12. CASE Measured
  <2>1. at.step <= Len(Script)
    BY <1>12, TakeFacts DEF Measured, TakesChannel1
  <2> QED
    BY <1>12, <2>1, StepMoves, MovesInPlace DEF Measured
<1>13. CASE LightEnds
  <2>1. at.phase = "read"
    BY <1>13 DEF LightEnds, InLight
  <2>2. CASE Fail
    BY <2>1, <2>2, FailMoves, MovesInPlace
  <2>3. CASE at' = Idle
    BY <2>3, IdleFacts DEF InPlace
  <2>4. CASE at' = [at EXCEPT !.step = 1, !.attempt = 0]
    <3>1. Stays(at')
      BY <2>4 DEF TypeOK, Places, Stays
    <3>2. at'.wait = "no"
      <4>1. at'.wait = at.wait /\ at.phase # "crashed"
        BY <2>1, <2>4 DEF TypeOK, Places
      <4>2. ~Doing({"read", "take", "trust"})
        BY <1>13 DEF LightEnds, Doing, TypeOK, Places
      <4> QED
        BY <4>1, <4>2 DEF InPlace, TypeOK, Places
    <3> QED
      BY <3>1, <3>2, MovesInPlace
  <2> QED
    BY <1>13, <2>2, <2>3, <2>4 DEF LightEnds
<1>14. CASE DeviceFound
  <2>1. CASE at' = NextDevice
    BY <1>14, <2>1, NextDeviceFacts, MovesInPlace DEF DeviceFound, Finding, GoesOn
  <2>2. CASE Device \in Atmels /\ at' = [Idle EXCEPT !.phase = "query", !.dev = at.dev]
    <3>1. at'.phase = "query" /\ at'.dev = at.dev /\ at'.wait = "no"
      BY <2>2, IdleFacts DEF Places
    <3>2. Device' = Device
      BY <3>1 DEF Device
    <3> QED
      BY <2>2, <3>1, <3>2 DEF InPlace
  <2> QED
    BY <1>14, <2>1, <2>2 DEF DeviceFound
<1>15. CASE KindDone
  BY <1>15, NextKindFacts, MovesInPlace DEF KindDone, GoesOn
<1>16. CASE ReadDone
  BY <1>16, IdleFacts DEF ReadDone, InPlace
<1>17. ASSUME NEW d \in DOMAIN Order, BeginRead(d) PROVE InPlace'
  <2>1. at' = [Idle EXCEPT !.phase = "read", !.dev = d] /\ Order[d] \notin Atmels
    BY <1>17 DEF BeginRead
  <2>2. at'.phase = "read" /\ at'.wait = "no" /\ at'.dev = d
    BY <2>1, IdleFacts DEF Places
  <2>3. Device' \notin Atmels
    BY <2>1, <2>2 DEF Device
  <2> QED
    BY <2>2, <2>3 DEF InPlace
<1>18. CASE UNCHANGED vars
  BY <1>18 DEF vars, InPlace, Doing, Op, Script, Reading, Device
<1> QED
  BY <1>1, <1>2, <1>3, <1>4, <1>5, <1>6, <1>7, <1>8, <1>9, <1>10,
     <1>11, <1>12, <1>13, <1>14, <1>15, <1>16, <1>17, <1>18
     DEF Next, Program

-----------------------------------------------------------------------------
(* While the devices are looked for no read is done. *)
LEMMA ReadingGoesOn ==
    ASSUME TypeOK, InPlace, at.phase = "read", GoesOn(at') \/ Stays(at')
    PROVE  ~Finding'
BY DEF Finding, GoesOn, Stays

LEMMA FoundBefore ==
    ASSUME TypeOK, InPlace, [Next]_vars, Finding'
    PROVE  \/ Finding /\ (WriteData \/ WriteIsLost \/ AskData \/ NoAnswer \/ WrongAnswer)
           \/ Finding /\ (Unchecked \/ RightAnswer \/ NoValue \/ DeviceFound \/ KindDone)
           \/ UNCHANGED vars
<1>1. ASSUME Channel0 \/ Measured PROVE FALSE
  <2>1. at.phase = "read" /\ at.step <= Len(Script) /\ at' = NextStep
    BY <1>1, TakeFacts DEF Channel0, Measured, TakesChannel1, InLight
  <2> QED
    BY <2>1, StepMoves, ReadingGoesOn
<1>2. ASSUME ReadAgain PROVE FALSE
  <2>1. at.phase = "read" /\ at.step <= Len(Script)
    BY <1>2, TakeFacts DEF ReadAgain, TakesChannel1, InLight
  <2>2. CASE at' = NextStep
    BY <2>1, <2>2, StepMoves, ReadingGoesOn
  <2>3. CASE at' = [at EXCEPT !.step = Channels, !.wait = "no"]
    BY <2>1, <2>3 DEF TypeOK, Places, Finding
  <2> QED
    BY <1>2, <2>2, <2>3 DEF ReadAgain
<1>3. ASSUME Overflows \/ ReadDone PROVE FALSE
  BY <1>3, IdleFacts DEF Overflows, ReadDone, Finding
<1>4. ASSUME LightEnds PROVE FALSE
  <2>1. at.phase = "read"
    BY <1>4 DEF LightEnds, InLight
  <2>2. CASE Fail
    BY <2>1, <2>2, FailMoves, ReadingGoesOn
  <2>3. CASE at' = Idle
    BY <2>3, IdleFacts DEF Finding
  <2>4. CASE at' = [at EXCEPT !.step = 1, !.attempt = 0]
    BY <2>1, <2>4 DEF TypeOK, Places, Finding
  <2> QED
    BY <1>4, <2>2, <2>3, <2>4 DEF LightEnds
<1>5. ASSUME NEW d \in DOMAIN Order, BeginRead(d) PROVE FALSE
  <2>1. at'.phase = "read"
    BY <1>5, IdleFacts DEF BeginRead, Places
  <2> QED
    BY <2>1 DEF Finding
<1>6. ASSUME WriteData \/ RightAnswer PROVE Finding
  <2>1. at.step <= Len(Script) /\ at' = NextStep
    BY <1>6, SendFacts, TakeFacts DEF WriteData, RightAnswer
  <2> QED
    BY <2>1, StepMoves DEF Stays, Finding
<1>7. ASSUME AskData PROVE Finding
  BY <1>7 DEF AskData, TypeOK, Places, Finding
<1>8. ASSUME WriteIsLost PROVE Finding
  <2>1. at.step <= Len(Script) /\ at.phase \in {"probe", "query", "read"}
    BY <1>8, SendFacts, StepFacts DEF WriteIsLost
  <2>2. GoesOn(at') \/ Stays(at')
    BY <1>8, <2>1, FailMoves, StepMoves DEF WriteIsLost
  <2> QED
    BY <2>1, <2>2, ReadingGoesOn DEF Finding
<1>9. ASSUME NoAnswer \/ WrongAnswer PROVE Finding
  <2>1. at.step <= Len(Script) /\ at.phase \in {"probe", "query", "read"}
    BY <1>9, AskFacts, TakeFacts, StepFacts DEF NoAnswer, NothingComes, WrongAnswer
  <2>2. GoesOn(at') \/ Stays(at')
    BY <1>9, <2>1, FailMoves DEF NoAnswer, WrongAnswer
  <2> QED
    BY <2>1, <2>2, ReadingGoesOn DEF Finding
<1>10. ASSUME Unchecked \/ NoValue PROVE Finding
  <2>1. at.step <= Len(Script) /\ at.phase \in {"probe", "query", "read"}
    BY <1>10, AskFacts, TakeFacts, StepFacts DEF Unchecked, NothingComes, NoValue
  <2>2. CASE at' = GiveUp
    BY <2>1, <2>2, GiveUpFacts, ReadingGoesOn DEF Finding
  <2>3. CASE at' = [at EXCEPT !.phase = "crashed"]
    BY <2>3 DEF TypeOK, Places, Finding
  <2> QED
    BY <1>10, <2>2, <2>3 DEF Unchecked, NoValue
<1>11. ASSUME DeviceFound \/ KindDone PROVE Finding
  BY <1>11 DEF DeviceFound, KindDone, Finding
<1> QED
  BY <1>1, <1>2, <1>3, <1>4, <1>5, <1>6, <1>7, <1>8, <1>9, <1>10, <1>11 DEF Next, Program

Advances ==
    /\ at.step <= Len(Script)
    /\ at'.step = at.step + 1 /\ at'.wait = "no" /\ Stays(at')

Restarts ==
    /\ at'.step = 1 /\ at'.wait = "no"
    /\ \/ at'.phase = "probe" /\ at'.dev = at.dev + 1
       \/ at'.phase = "probe" /\ at.phase = "probe" /\ at'.dev = at.dev /\ Device = "digipicco"
       \/ at'.phase = "query" /\ at.phase = "query" /\ at'.dev = at.dev

LEMMA Moves ==
    ASSUME TypeOK, InPlace, Finding, Finding'
    PROVE  /\ WriteData \/ RightAnswer => Advances
           /\ WriteIsLost => \/ Advances /\ Op.do = "write"
                             \/ Restarts /\ Op.do = "command"
           /\ NoAnswer \/ WrongAnswer \/ Unchecked \/ NoValue \/ KindDone => Restarts
           /\ DeviceFound =>
                 \/ Restarts
                 \/ /\ at.phase = "probe" /\ at'.phase = "query" /\ at'.dev = at.dev
                    /\ at'.step = 1 /\ at'.wait = "no" /\ at.step > Len(Script)
                    /\ Device \in Atmels
<1>1. ASSUME GoesOn(at') PROVE Restarts
  BY <1>1, IdleFacts DEF GoesOn, Restarts, Finding
<1>2. ASSUME Fail, at.phase \in {"probe", "query", "read"} PROVE Restarts
  <2>1. CASE GoesOn(at')
    BY <1>1, <2>1
  <2>2. CASE TriedAgain
    <3>1. Device = "digipicco" /\ at.phase = "probe"
      BY <2>2 DEF TriedAgain, InLight, Finding, InPlace, Atmels
    <3> QED
      BY <2>2, <3>1 DEF TriedAgain, Restarts
  <2> QED
    BY <1>2, <2>1, <2>2, FailFacts
<1>3. at.phase \in {"probe", "query", "read"}
  BY DEF Finding
<1>4. ASSUME WriteData \/ RightAnswer PROVE Advances
  <2>1. at.step <= Len(Script) /\ at' = NextStep
    BY <1>4, SendFacts, TakeFacts DEF WriteData, RightAnswer
  <2> QED
    BY <2>1, StepMoves DEF Advances
<1>5. ASSUME WriteIsLost PROVE (Advances /\ Op.do = "write") \/ (Restarts /\ Op.do = "command")
  <2>1. at.step <= Len(Script) /\ Op.do \in {"write", "command"}
    BY <1>5, SendFacts DEF WriteIsLost, Doing
  <2>2. CASE Op.do = "command"
    BY <1>2, <1>3, <1>5, <2>2 DEF WriteIsLost
  <2>3. CASE Op.do # "command"
    BY <1>5, <2>1, <2>3, StepMoves DEF WriteIsLost, Advances
  <2> QED
    BY <2>2, <2>3
<1>6. ASSUME NoAnswer \/ WrongAnswer PROVE Restarts
  BY <1>2, <1>3, <1>6 DEF NoAnswer, WrongAnswer
<1>7. ASSUME Unchecked \/ NoValue \/ KindDone PROVE Restarts
  <2>1. at' = GiveUp \/ (at.phase = "query" /\ at' = NextKind)
    BY <1>7 DEF Unchecked, NoValue, KindDone, Finding
  <2> QED
    BY <1>1, <1>3, <2>1, GiveUpFacts, NextKindFacts
<1>8. ASSUME DeviceFound
      PROVE  \/ Restarts
             \/ /\ at.phase = "probe" /\ at'.phase = "query" /\ at'.dev = at.dev
                /\ at'.step = 1 /\ at'.wait = "no" /\ at.step > Len(Script)
                /\ Device \in Atmels
  <2>1. CASE at' = NextDevice
    BY <1>1, <2>1, NextDeviceFacts
  <2>2. CASE Device \in Atmels /\ at' = [Idle EXCEPT !.phase = "query", !.dev = at.dev]
    BY <1>8, <2>2, IdleFacts DEF DeviceFound, Places
  <2> QED
    BY <1>8, <2>1, <2>2 DEF DeviceFound
<1> QED
  BY <1>4, <1>5, <1>6, <1>7, <1>8

(* What all steps but AskData do to the line *)
LEMMA LineShrinks ==
    ASSUME TypeOK, InPlace
    PROVE  /\ WriteData \/ WriteIsLost => \E n \in 0 .. Len(line) : Dropped(line', n)
           /\ RightAnswer \/ WrongAnswer \/ NoValue =>
                 \E n \in 1 .. Len(line) : Dropped(line', n)
           /\ NoAnswer \/ Unchecked \/ DeviceFound \/ KindDone => line' = line
<1>1. ASSUME WriteData \/ WriteIsLost PROVE \E n \in 0 .. Len(line) : Dropped(line', n)
  BY <1>1, Backlogs DEF WriteData, WriteIsLost, TypeOK
<1>2. ASSUME RightAnswer \/ WrongAnswer \/ NoValue
      PROVE  \E n \in 1 .. Len(line) : Dropped(line', n)
  BY <1>2, TakeFacts DEF RightAnswer, WrongAnswer, NoValue
<1>3. ASSUME NoAnswer \/ Unchecked \/ DeviceFound \/ KindDone PROVE line' = line
  BY <1>3 DEF NoAnswer, Unchecked, DeviceFound, KindDone
<1> QED
  BY <1>1, <1>2, <1>3

LEMMA DevicesPass ==
    ASSUME TypeOK, at'.dev \in {at.dev, at.dev + 1}
    PROVE  Passed \subseteq Passed'
<1>1. \A k \in 1 .. at.dev : k \in 1 .. at'.dev
  BY DEF TypeOK, Places
<1> QED
  BY <1>1 DEF Passed

(* A device answers with its own registers. *)
LEMMA OwnRegistersStep ==
    TypeOK /\ InPlace /\ OwnRegisters /\ [Next]_vars => OwnRegisters'
<1> SUFFICES ASSUME TypeOK, InPlace, OwnRegisters, [Next]_vars, Finding'
             PROVE  OwnRegisters'
  BY DEF Finding, OwnRegisters
<1>1. CASE Finding /\ WriteData
  <2>1. PICK n \in 0 .. Len(line) : Dropped(line', n)
    BY <1>1, LineShrinks
  <2>2. Op.reg \in Selects(Device) /\ Device \in Devices
    BY <1>1, SendFacts, StepFacts, DeviceFacts DEF WriteData, TypeOK, Device
  <2>3. \A d \in Devices : selected'[d] \in Selects(d)
    BY <1>1, <2>2 DEF WriteData, OwnRegisters, TypeOK
  <2> QED
    BY <1>1, <2>1, <2>3 DEF Dropped, OwnRegisters
<1>2. CASE Finding /\ WriteIsLost
  <2>1. PICK n \in 0 .. Len(line) : Dropped(line', n)
    BY <1>2, LineShrinks
  <2>2. selected' = selected
    BY <1>2 DEF WriteIsLost
  <2> QED
    BY <1>2, <2>1, <2>2 DEF Dropped, OwnRegisters
<1>3. CASE Finding /\ AskData
  <2>1. PICK rest \in Backlog : line' = rest \/ \E a \in Answers : Answered(rest, a)
    BY <1>3, AnswerFacts
  <2>2. PICK n \in 0 .. Len(line) : Dropped(rest, n)
    BY Backlogs DEF TypeOK
  <2>3. \A i \in DOMAIN rest : rest[i].reg \in Selects(rest[i].from)
    BY <1>3, <2>2 DEF Dropped, OwnRegisters
  <2>4. Device \in Devices
    BY DeviceFacts DEF TypeOK, Device
  <2>5. \A i \in DOMAIN line' : line'[i].reg \in Selects(line'[i].from)
    <3>1. CASE line' = rest
      BY <2>3, <3>1
    <3>2. ASSUME NEW a \in Answers, Answered(rest, a)
          PROVE  \A i \in DOMAIN line' : line'[i].reg \in Selects(line'[i].from)
      <4>1. a.reg \in Selects(a.from)
        BY <1>3, <2>4, <3>2 DEF Answered, OwnRegisters
      <4>2. rest \in Seq(Answers) /\ line' = Append(rest, a)
        BY <2>2, <3>2 DEF Dropped, Answered
      <4> QED
        BY <2>3, <4>1, <4>2
    <3> QED
      BY <2>1, <3>1, <3>2
  <2> QED
    BY <1>3, <2>5 DEF AskData, OwnRegisters
<1>4. CASE Finding /\ NoAnswer
  BY <1>4, LineShrinks DEF NoAnswer, OwnRegisters, Finding
<1>5. CASE Finding /\ WrongAnswer
  <2>1. PICK n \in 0 .. Len(line) : Dropped(line', n)
    BY <1>5, LineShrinks
  <2>2. selected' = selected
    BY <1>5 DEF WrongAnswer
  <2> QED
    BY <1>5, <2>1, <2>2 DEF Dropped, OwnRegisters
<1>6. CASE Finding /\ Unchecked
  BY <1>6, LineShrinks DEF Unchecked, OwnRegisters, Finding
<1>7. CASE Finding /\ RightAnswer
  <2>1. PICK n \in 0 .. Len(line) : Dropped(line', n)
    BY <1>7, LineShrinks
  <2>2. selected' = selected
    BY <1>7 DEF RightAnswer
  <2> QED
    BY <1>7, <2>1, <2>2 DEF Dropped, OwnRegisters
<1>8. CASE Finding /\ NoValue
  <2>1. PICK n \in 0 .. Len(line) : Dropped(line', n)
    BY <1>8, LineShrinks
  <2>2. selected' = selected
    BY <1>8 DEF NoValue
  <2> QED
    BY <1>8, <2>1, <2>2 DEF Dropped, OwnRegisters
<1>9. CASE Finding /\ DeviceFound
  BY <1>9, LineShrinks DEF DeviceFound, OwnRegisters, Finding
<1>10. CASE Finding /\ KindDone
  BY <1>10, LineShrinks DEF KindDone, OwnRegisters, Finding
<1>11. CASE UNCHANGED vars
  BY <1>11 DEF vars, OwnRegisters, Finding
<1> QED
  BY <1>1, <1>2, <1>3, <1>4, <1>5, <1>6, <1>7, <1>8, <1>9, <1>10, <1>11, FoundBefore

(* Answers that are left on the line were late, if none is waited for or   *)
(* the one that was is gone.                                               *)
LEMMA LeftIsKnown ==
    ASSUME TypeOK, Finding, LateIsKnown,
           NEW n \in 0 .. Len(line), NEW rest, Dropped(rest, n), at.wait = "no" \/ n > 0
    PROVE  \A i \in DOMAIN rest : rest[i].from \in present \cap Passed /\ Known(rest[i])
<1> SUFFICES ASSUME NEW i \in DOMAIN rest
             PROVE  rest[i].from \in present \cap Passed /\ Known(rest[i])
  OBVIOUS
<1>1. i \in Nat /\ i > 0 /\ i + n \in DOMAIN line /\ rest[i] = line[i + n]
  BY DEF Dropped
<1>2. ~Awaited(i + n)
  BY <1>1 DEF Awaited
<1> QED
  BY <1>1, <1>2 DEF LateIsKnown

LEMMA KnownStays ==
    ASSUME present' = present, late \subseteq late', NEW a, Known(a)
    PROVE  Known(a)'
BY DEF Known

(* Whose answers are on the line while the devices are looked for. *)
LEMMA LateStep ==
    TypeOK /\ InPlace /\ LateIsKnown /\ [Next]_vars => LateIsKnown'
<1> SUFFICES ASSUME TypeOK, InPlace, LateIsKnown, [Next]_vars, Finding' PROVE LateIsKnown'
  BY DEF Finding, LateIsKnown
<1>1. CASE Finding /\ WriteData
  <2>1. /\ at'.dev \in {at.dev, at.dev + 1}
        /\ present' = present /\ late \subseteq late'
    BY <1>1, Moves DEF WriteData, Advances, Restarts, Stays
  <2>2. PICK n \in 0 .. Len(line) : Dropped(line', n) /\ (at.wait = "no" \/ n > 0)
    BY <1>1, LineShrinks, SendFacts DEF WriteData
  <2> QED
    BY <1>1, <2>1, <2>2, LeftIsKnown, DevicesPass, KnownStays DEF LateIsKnown
<1>2. CASE Finding /\ WriteIsLost
  <2>1. /\ at'.dev \in {at.dev, at.dev + 1}
        /\ present' = present /\ late \subseteq late'
    BY <1>2, Moves DEF WriteIsLost, Advances, Restarts, Stays
  <2>2. PICK n \in 0 .. Len(line) : Dropped(line', n) /\ (at.wait = "no" \/ n > 0)
    BY <1>2, LineShrinks, SendFacts DEF WriteIsLost
  <2> QED
    BY <1>2, <2>1, <2>2, LeftIsKnown, DevicesPass, KnownStays DEF LateIsKnown
<1>3. CASE Finding /\ AskData
  <2>1. PICK rest \in Backlog : line' = rest \/ \E a \in Answers : Answered(rest, a)
    BY <1>3, AnswerFacts
  <2>2. PICK n \in 0 .. Len(line) : Dropped(rest, n)
    BY Backlogs DEF TypeOK
  <2>3. /\ at.wait = "no" /\ at'.wait = "yes" /\ at'.dev = at.dev
        /\ present' = present /\ late' = late
    BY <1>3 DEF AskData, TypeOK, Places
  <2>4. Passed' = Passed /\ Device' = Device
    BY <2>3 DEF Passed, Device
  <2>5. \A i \in DOMAIN rest : rest[i].from \in present \cap Passed /\ Known(rest[i])
    BY <1>3, <2>2, <2>3, LeftIsKnown
  <2>6. CASE line' = rest
    BY <2>3, <2>4, <2>5, <2>6 DEF LateIsKnown, Known
  <2>7. ASSUME NEW a \in Answers, Answered(rest, a) PROVE LateIsKnown'
    <3>1. /\ rest \in Seq(Answers) /\ line' = Append(rest, a)
          /\ a.from = Device /\ Device \in present
      BY <2>2, <2>7 DEF Dropped, Answered
    <3>2. Device \in Passed
      <4>1. at.dev \in 1 .. at.dev
        BY DEF TypeOK, Places
      <4> QED
        BY <4>1 DEF Device, Passed
    <3>3. Known(a) \/ rest = <<>>
      <4>1. ASSUME rest # <<>>, Device = "atmel2" PROVE "atmel2" \in late
        <5>1. at.dev = 1
          BY <4>1, DeviceFacts DEF TypeOK, Device
        <5>2. Passed = {"atmel2"}
          BY <5>1, Devices7 DEF Passed
        <5>3. 1 \in DOMAIN rest
          BY <3>1, <4>1
        <5> QED
          BY <2>5, <5>2, <5>3 DEF Known
      <4>2. ASSUME rest # <<>> PROVE late # {}
        <5>1. 1 \in DOMAIN rest
          BY <3>1, <4>2
        <5> QED
          BY <2>5, <5>1 DEF Known
      <4> QED
        BY <3>1, <4>1, <4>2 DEF Known
    <3>4. /\ DOMAIN line' = 1 .. Len(rest) + 1 /\ Len(line') = Len(rest) + 1 /\ Len(rest) \in Nat
          /\ \A i \in 1 .. Len(rest) : line'[i] = rest[i]
          /\ line'[Len(rest) + 1] = a
      BY <3>1, Added
    <3>5. ASSUME NEW i \in DOMAIN line'
          PROVE  /\ line'[i].from \in present \cap Passed
                 /\ Known(line'[i]) \/ Awaited(i)'
      <4>1. CASE i \in 1 .. Len(rest)
        <5>1. i \in DOMAIN rest
          BY <3>1, <4>1
        <5> QED
          BY <2>5, <3>4, <4>1, <5>1
      <4>2. CASE i = Len(rest) + 1
        <5>1. rest = <<>> => i = 1 /\ Len(line') = 1
          BY <3>4, <4>2
        <5> QED
          BY <2>3, <2>4, <3>1, <3>2, <3>3, <3>4, <4>2, <5>1 DEF Awaited
      <4> QED
        BY <3>4, <4>1, <4>2
    <3> QED
      BY <2>3, <2>4, <3>5 DEF LateIsKnown, Known
  <2> QED
    BY <2>1, <2>6, <2>7
<1>4. CASE Finding /\ NoAnswer
  <2>1. /\ at'.dev \in {at.dev, at.dev + 1}
        /\ present' = present /\ line' = line
        /\ late' = late \cup {line[i].from : i \in DOMAIN line}
    BY <1>4, Moves, LineShrinks DEF NoAnswer, NothingComes, Advances, Restarts, Stays, Finding
  <2>2. \A i \in DOMAIN line : line[i].from \in late'
    BY <2>1
  <2> QED
    BY <1>4, <2>1, <2>2, DevicesPass DEF LateIsKnown, Known
<1>5. CASE Finding /\ WrongAnswer
  <2>1. /\ at'.dev \in {at.dev, at.dev + 1}
        /\ present' = present /\ late \subseteq late'
    BY <1>5, Moves DEF WrongAnswer, Advances, Restarts, Stays
  <2>2. PICK n \in 0 .. Len(line) : Dropped(line', n) /\ (at.wait = "no" \/ n > 0)
    BY <1>5, LineShrinks, SendFacts DEF WrongAnswer
  <2> QED
    BY <1>5, <2>1, <2>2, LeftIsKnown, DevicesPass, KnownStays DEF LateIsKnown
<1>6. CASE Finding /\ Unchecked
  <2>1. /\ at'.dev \in {at.dev, at.dev + 1}
        /\ present' = present /\ line' = line
        /\ late' = late \cup {line[i].from : i \in DOMAIN line}
    BY <1>6, Moves, LineShrinks DEF Unchecked, NothingComes, Advances, Restarts, Stays, Finding
  <2>2. \A i \in DOMAIN line : line[i].from \in late'
    BY <2>1
  <2> QED
    BY <1>6, <2>1, <2>2, DevicesPass DEF LateIsKnown, Known
<1>7. CASE Finding /\ RightAnswer
  <2>1. /\ at'.dev \in {at.dev, at.dev + 1}
        /\ present' = present /\ late \subseteq late'
    BY <1>7, Moves DEF RightAnswer, Advances, Restarts, Stays
  <2>2. PICK n \in 0 .. Len(line) : Dropped(line', n) /\ (at.wait = "no" \/ n > 0)
    BY <1>7, LineShrinks, SendFacts DEF RightAnswer
  <2> QED
    BY <1>7, <2>1, <2>2, LeftIsKnown, DevicesPass, KnownStays DEF LateIsKnown
<1>8. CASE Finding /\ NoValue
  <2>1. /\ at'.dev \in {at.dev, at.dev + 1}
        /\ present' = present /\ late \subseteq late'
    BY <1>8, Moves DEF NoValue, Advances, Restarts, Stays
  <2>2. PICK n \in 0 .. Len(line) : Dropped(line', n) /\ (at.wait = "no" \/ n > 0)
    BY <1>8, LineShrinks, SendFacts DEF NoValue
  <2> QED
    BY <1>8, <2>1, <2>2, LeftIsKnown, DevicesPass, KnownStays DEF LateIsKnown
<1>9. CASE Finding /\ DeviceFound
  <2>1. /\ at'.dev \in {at.dev, at.dev + 1}
        /\ present' = present /\ late' = late /\ line' = line
    BY <1>9, Moves DEF DeviceFound, Restarts
  <2>2. at.wait = "no"
    BY <1>9 DEF DeviceFound, InPlace, Doing, TypeOK, Places
  <2>3. \A i \in DOMAIN line : ~Awaited(i)
    BY <2>2 DEF Awaited
  <2> QED
    BY <1>9, <2>1, <2>3, DevicesPass DEF LateIsKnown, Known
<1>10. CASE Finding /\ KindDone
  <2>1. /\ at'.dev \in {at.dev, at.dev + 1}
        /\ present' = present /\ late' = late /\ line' = line
    BY <1>10, Moves DEF KindDone, Restarts
  <2>2. at.wait = "no"
    BY <1>10 DEF KindDone, InPlace, Doing, TypeOK, Places
  <2>3. \A i \in DOMAIN line : ~Awaited(i)
    BY <2>2 DEF Awaited
  <2> QED
    BY <1>10, <2>1, <2>3, DevicesPass DEF LateIsKnown, Known
<1>11. CASE UNCHANGED vars
  BY <1>11 DEF vars, LateIsKnown, Finding, Awaited, Known, Passed, Device
<1> QED
  BY <1>1, <1>2, <1>3, <1>4, <1>5, <1>6, <1>7, <1>8, <1>9, <1>10, <1>11, FoundBefore

LEMMA ProbesAreLonger ==
    ASSUME NEW d \in Devices
    PROVE  /\ FirstRead(d) \in Nat /\ FirstRead(d) > 0
           /\ Len(Probe(d)) \in Nat /\ FirstRead(d) <= Len(Probe(d))
<1>1. CASE d \in Atmels
  BY <1>1, TablesOfDevices, ProbeOfAtmel
<1>2. CASE d = "tsl2550"
  BY <1>2, TablesOfDevices, ProbeOfLight
<1>3. CASE d = "ds1731"
  <2>1. Probe(d) = ProbeDS1731 /\ FirstRead(d) = 4
    BY <1>3, TablesOfDevices
  <2>2. Len(Probe(d)) = 7
    BY <2>1, ProbeOfDS1731
  <2> QED
    BY <2>1, <2>2
<1>4. CASE d = "tmp275"
  BY <1>4, TablesOfDevices, ProbeOfTMP275
<1>5. CASE d = "ds1621"
  BY <1>5, TablesOfDevices, ProbeOfDS1621
<1>6. CASE d = "digipicco"
  BY <1>6, TablesOfDevices, ProbeOfDigipicco
<1> QED
  BY <1>1, <1>2, <1>3, <1>4, <1>5, <1>6, Devices7 DEF Atmels

(* No probe passes its first read where no device is. *)
LEMMA NotFooledStep ==
    /\ TypeOK /\ InPlace /\ OwnRegisters /\ LateIsKnown /\ NotFooled /\ TypeOK'
    /\ [Next]_vars
    => NotFooled'
<1> SUFFICES ASSUME TypeOK, InPlace, OwnRegisters, LateIsKnown, NotFooled, TypeOK',
                    [Next]_vars, at'.phase = "probe", (Device \notin present)'
             PROVE  NotFooled'
  BY DEF Finding, NotFooled
<1>a. FirstRead(Device') \in Nat /\ FirstRead(Device') > 0
  BY DeviceFacts, ProbesAreLonger DEF TypeOK, Device
<1>b. at.step \in Nat /\ FirstRead(Device) \in Nat /\ Device \in Devices
  <2>1. Device \in Devices
    BY DeviceFacts DEF TypeOK, Device
  <2>2. at.step \in Nat
    BY DEF TypeOK, Places
  <2> QED
    BY <2>1, <2>2, ProbesAreLonger
<1>0. Finding'
  BY DEF Finding
<1>1. CASE Finding /\ WriteData
  <2>1. Advances
    BY <1>1, <1>0, Moves DEF WriteData
  <2>2. /\ at'.phase = at.phase /\ Device' = Device /\ at'.step = at.step + 1
        /\ present' = present /\ late' = late /\ at.step <= Len(Script)
    BY <1>1, <2>1 DEF Advances, Stays, Device, WriteData
  <2>3. at.step \in Nat /\ FirstRead(Device) \in Nat
    BY <1>b
  <2>4. at.step # FirstRead(Device)
    BY <1>1, <2>2, SendFacts, StepFacts DEF WriteData, ProbeStep
  <2> QED
    BY <2>2, <2>3, <2>4 DEF NotFooled
<1>2. CASE Finding /\ WriteIsLost
  <2>0. CASE Restarts
    BY <2>0, <1>a DEF NotFooled, Restarts
  <2>1. CASE Advances
    <3>2. /\ at'.phase = at.phase /\ Device' = Device /\ at'.step = at.step + 1
          /\ present' = present /\ late' = late /\ at.step <= Len(Script)
      BY <1>2, <2>1 DEF Advances, Stays, Device, WriteIsLost
    <3>3. at.step \in Nat /\ FirstRead(Device) \in Nat
      BY <1>b
    <3>4. at.step # FirstRead(Device)
      BY <1>2, <3>2, SendFacts, StepFacts DEF WriteIsLost, ProbeStep
    <3> QED
      BY <3>2, <3>3, <3>4 DEF NotFooled
  <2> QED
    BY <1>2, <1>0, <2>0, <2>1, Moves
<1>3. CASE Finding /\ AskData
  <2>1. /\ at'.phase = at.phase /\ at'.dev = at.dev /\ at'.step = at.step
        /\ present' = present /\ late' = late
    BY <1>3 DEF AskData, TypeOK, Places
  <2> QED
    BY <2>1 DEF NotFooled, Device
<1>4. CASE Finding /\ NoAnswer
  <2>1. at'.step = 1
    BY <1>4, <1>0, Moves DEF Restarts
  <2> QED
    BY <2>1, <1>a DEF NotFooled
<1>5. CASE Finding /\ WrongAnswer
  <2>1. at'.step = 1
    BY <1>5, <1>0, Moves DEF Restarts
  <2> QED
    BY <2>1, <1>a DEF NotFooled
<1>6. CASE Finding /\ Unchecked
  <2>1. at'.step = 1
    BY <1>6, <1>0, Moves DEF Restarts
  <2> QED
    BY <2>1, <1>a DEF NotFooled
<1>7. CASE Finding /\ RightAnswer
  <2>1. Advances
    BY <1>7, <1>0, Moves
  <2>2. /\ at'.phase = at.phase /\ Device' = Device /\ at'.step = at.step + 1
        /\ present' = present /\ late' = late /\ at.step <= Len(Script)
    BY <1>7, <2>1 DEF Advances, Stays, Device, RightAnswer
  <2>3. at.step \in Nat /\ FirstRead(Device) \in Nat /\ Device \in Devices
    BY <1>b
  <2>4. PICK n \in 1 .. Len(line) : Takes(n) /\ Passes(n)
    BY <1>7 DEF RightAnswer
  <2>5. ASSUME at.step <= FirstRead(Device), Device \notin present
        PROVE  \/ Device = "atmel3" /\ "atmel2" \in late
               \/ Device = "digipicco" /\ late # {}
    <3>1. Reads(Op) /\ 1 \in DOMAIN line /\ at.phase = "probe"
      BY <2>2, <2>4, TakeFacts
    <3>2. ProbeStep(Device, at.step, Op) /\ at.step = FirstRead(Device)
      BY <2>2, <2>3, <2>5, <3>1, StepFacts DEF ProbeStep
    <3>3. line[1].from \in present \cap Passed /\ line[1].reg \in Selects(line[1].from)
      BY <1>7, <3>1 DEF LateIsKnown, OwnRegisters
    <3>4. line[1].from # Device /\ Known(line[1])
      BY <1>7, <2>5, <3>1, <3>3 DEF LateIsKnown, Awaited
    <3>5. PICK k \in 1 .. at.dev : line[1].from = Order[k]
      BY <3>3 DEF Passed
    <3>6. k # at.dev
      BY <3>4, <3>5 DEF Device
    <3>7. CASE Device = "atmel2"
      BY <3>5, <3>6, <3>7, DeviceFacts DEF Device, TypeOK
    <3>8. CASE Device = "atmel3"
      <4>1. k = 1
        BY <3>5, <3>6, <3>8, DeviceFacts DEF Device, TypeOK
      <4> QED
        BY <3>4, <3>5, <3>8, <4>1, Devices7 DEF Known
    <3>9. CASE Device = "digipicco"
      BY <3>4, <3>9 DEF Known
    <3>10. CASE Device \notin Atmels \cup {"digipicco"}
      <4>1. Op.do = "read" /\ Op.want \cap Selects(Order[k]) = {}
        BY <3>2, <3>6, <3>10, OthersAnswersFail DEF Device, TypeOK
      <4>2. line[1].reg \in Op.want
        BY <2>4, <4>1 DEF Passes
      <4> QED
        BY <3>3, <3>5, <4>1, <4>2
    <3> QED
      BY <3>7, <3>8, <3>9, <3>10 DEF Atmels
  <2> QED
    BY <2>2, <2>3, <2>5 DEF NotFooled
<1>8. CASE Finding /\ NoValue
  <2>1. at'.step = 1
    BY <1>8, <1>0, Moves DEF Restarts
  <2> QED
    BY <2>1, <1>a DEF NotFooled
<1>9. CASE Finding /\ DeviceFound
  <2>1. at'.step = 1
    BY <1>9, <1>0, Moves DEF Restarts
  <2> QED
    BY <2>1, <1>a DEF NotFooled
<1>10. CASE Finding /\ KindDone
  <2>1. at'.step = 1
    BY <1>10, <1>0, Moves DEF Restarts
  <2> QED
    BY <2>1, <1>a DEF NotFooled
<1>11. CASE UNCHANGED vars
  BY <1>11 DEF vars, NotFooled, Device
<1> QED
  BY <1>0, <1>1, <1>2, <1>3, <1>4, <1>5, <1>6, <1>7, <1>8, <1>9, <1>10, <1>11, FoundBefore

(* Nothing is registered where nothing is. *)
LEMMA LongEnough ==
    ASSUME TypeOK, at.phase = "probe", at.step > Len(Script)
    PROVE  at.step > FirstRead(Device)
<1>1. Device \in Devices /\ Script = Probe(Device)
  BY DeviceFacts DEF TypeOK, Device, Script
<1>2. at.step \in Nat
  BY DEF TypeOK, Places
<1>3. Len(Probe(Device)) \in Nat
  BY <1>1, ProbesAreLonger
<1> QED
  BY <1>1, <1>2, <1>3, ProbesAreLonger

(* Only what is there is registered, with the two exceptions. *)
LEMMA FoundStep ==
    TypeOK /\ InPlace /\ NotFooled /\ FoundIsThere /\ [Next]_vars => FoundIsThere'
<1> SUFFICES ASSUME TypeOK, InPlace, NotFooled, FoundIsThere, [Next]_vars
             PROVE  FoundIsThere'
  OBVIOUS
<1>1. CASE WriteData
  BY <1>1 DEF WriteData, NothingComes, FoundIsThere
<1>2. CASE WriteIsLost
  BY <1>2 DEF WriteIsLost, NothingComes, FoundIsThere
<1>3. CASE AskData
  BY <1>3 DEF AskData, NothingComes, FoundIsThere
<1>4. CASE NoAnswer
  BY <1>4 DEF NoAnswer, NothingComes, FoundIsThere
<1>5. CASE WrongAnswer
  BY <1>5 DEF WrongAnswer, NothingComes, FoundIsThere
<1>6. CASE Unchecked
  BY <1>6 DEF Unchecked, NothingComes, FoundIsThere
<1>7. CASE RightAnswer
  BY <1>7 DEF RightAnswer, NothingComes, FoundIsThere
<1>8. CASE NoValue
  BY <1>8 DEF NoValue, NothingComes, FoundIsThere
<1>9. CASE Channel0
  BY <1>9 DEF Channel0, NothingComes, FoundIsThere
<1>10. CASE ReadAgain
  BY <1>10 DEF ReadAgain, NothingComes, FoundIsThere
<1>11. CASE Overflows
  BY <1>11 DEF Overflows, NothingComes, FoundIsThere
<1>12. CASE Measured
  BY <1>12 DEF Measured, NothingComes, FoundIsThere
<1>13. CASE LightEnds
  BY <1>13 DEF LightEnds, NothingComes, FoundIsThere
<1>14. CASE DeviceFound
  <2>1. at.step > FirstRead(Device) /\ at.step \in Nat /\ FirstRead(Device) \in Nat
    <3>1. at.phase = "probe" /\ at.step > Len(Script)
      BY <1>14 DEF DeviceFound
    <3>2. Device \in Devices
      BY DeviceFacts DEF TypeOK, Device
    <3>3. at.step \in Nat
      BY DEF TypeOK, Places
    <3> QED
      BY <3>1, <3>2, <3>3, LongEnough, ProbesAreLonger
  <2>2. \/ Device \in present
        \/ Device = "atmel3" /\ "atmel2" \in late
        \/ Device = "digipicco" /\ late # {}
    BY <1>14, <2>1 DEF DeviceFound, NotFooled
  <2>3. present' = present /\ late' = late /\ found' = found \cup {Device}
    BY <1>14 DEF DeviceFound
  <2> QED
    BY <2>2, <2>3 DEF FoundIsThere
<1>15. CASE KindDone
  BY <1>15 DEF KindDone, NothingComes, FoundIsThere
<1>16. CASE ReadDone
  BY <1>16 DEF ReadDone, NothingComes, FoundIsThere
<1>17. ASSUME NEW d \in DOMAIN Order, BeginRead(d) PROVE FoundIsThere'
  BY <1>17 DEF BeginRead, NothingComes, FoundIsThere
<1>18. CASE UNCHANGED vars
  BY <1>18 DEF vars, FoundIsThere
<1> QED
  BY <1>1, <1>2, <1>3, <1>4, <1>5, <1>6, <1>7, <1>8, <1>9, <1>10,
     <1>11, <1>12, <1>13, <1>14, <1>15, <1>16, <1>17, <1>18
     DEF Next, Program

(* What is on the line after a step was there before, but for an answer.    *)
LEMMA LineLeft ==
    ASSUME TypeOK, InPlace,
           \/ WriteData \/ WriteIsLost \/ NoAnswer \/ WrongAnswer
           \/ Unchecked \/ RightAnswer \/ NoValue \/ DeviceFound \/ KindDone
    PROVE  /\ line' \in Seq(Answers) /\ Len(line') <= Len(line)
           /\ \A i \in DOMAIN line' : \E j \in DOMAIN line : line'[i] = line[j]
<1>1. line \in Seq(Answers)
  BY DEF TypeOK
<1>2. CASE line' = line
  BY <1>1, <1>2
<1>3. ASSUME NEW n \in 0 .. Len(line), Dropped(line', n)
      PROVE  /\ line' \in Seq(Answers) /\ Len(line') <= Len(line)
             /\ \A i \in DOMAIN line' : \E j \in DOMAIN line : line'[i] = line[j]
  BY <1>1, <1>3 DEF Dropped
<1> QED
  BY <1>2, <1>3, LineShrinks

(* Where the program is when the devices are looked for *)
LEMMA WhereItGoes ==
    ASSUME TypeOK, InPlace, Finding, Finding',
           \/ WriteData \/ WriteIsLost \/ AskData \/ NoAnswer \/ WrongAnswer
           \/ Unchecked \/ RightAnswer \/ NoValue \/ DeviceFound \/ KindDone
    PROVE  /\ at.dev \in Nat /\ at.dev >= 1 /\ at.step \in Nat /\ at.step >= 1
           /\ at'.dev \in {at.dev, at.dev + 1}
           /\ at'.dev = at.dev + 1 => at'.phase = "probe" /\ at'.step = 1 /\ ~AskData
           /\ present' = present /\ late \subseteq late'
           /\ at'.wait = "no" \/ AskData
<1>1. at.dev \in Nat /\ at.dev >= 1 /\ at.step \in Nat /\ at.step >= 1
  BY DEF TypeOK, Places
<1>2. CASE AskData
  <2>1. at'.dev = at.dev
    BY <1>2 DEF AskData, TypeOK, Places
  <2>2. present' = present /\ late' = late
    BY <1>2 DEF AskData
  <2> QED
    BY <1>1, <1>2, <2>1, <2>2
<1>3. ASSUME WriteData \/ RightAnswer PROVE at'.dev = at.dev /\ at'.wait = "no"
  BY <1>3, Moves DEF Advances, Stays
<1>4. ASSUME \/ NoAnswer \/ WrongAnswer \/ Unchecked \/ NoValue
             \/ KindDone \/ DeviceFound \/ WriteIsLost
      PROVE  /\ at'.dev \in {at.dev, at.dev + 1} /\ at'.wait = "no"
             /\ at'.dev = at.dev + 1 => at'.phase = "probe" /\ at'.step = 1
  BY <1>1, <1>4, Moves DEF Advances, Stays, Restarts
<1>5. ASSUME WriteData PROVE present' = present /\ late' = late /\ ~AskData
  BY <1>5 DEF WriteData, AskData, Doing
<1>6. ASSUME WriteIsLost PROVE present' = present /\ late' = late /\ ~AskData
  BY <1>6 DEF WriteIsLost, AskData, Doing
<1>7. ASSUME NoAnswer \/ Unchecked PROVE present' = present /\ late \subseteq late'
  BY <1>7 DEF NoAnswer, Unchecked, NothingComes
<1>8. ASSUME WrongAnswer \/ RightAnswer \/ NoValue PROVE present' = present /\ late' = late
  BY <1>8 DEF WrongAnswer, RightAnswer, NoValue
<1>9. ASSUME DeviceFound \/ KindDone PROVE present' = present /\ late' = late
  BY <1>9 DEF DeviceFound, KindDone
<1>10. ASSUME AskData PROVE at'.dev = at.dev
  BY <1>10 DEF AskData, TypeOK, Places
<1> QED
  BY <1>1, <1>2, <1>3, <1>4, <1>5, <1>6, <1>7, <1>8, <1>9, <1>10

(* What the first Atmel has on the line is about what it is asked. *)
LEMMA FirstAtmelStep ==
    TypeOK /\ InPlace /\ Commanded /\ FirstAtmel /\ [Next]_vars => FirstAtmel'
<1> SUFFICES ASSUME TypeOK, InPlace, Commanded, FirstAtmel, [Next]_vars, at'.dev = 1,
                    at'.phase \in {"probe", "query"}
             PROVE  FirstAtmel'
  BY DEF Finding, FirstAtmel
<1>0. Finding'
  BY DEF Finding
<1>1. CASE Finding /\ WriteData
  <2>1. /\ line' \in Seq(Answers) /\ Len(line') <= Len(line)
        /\ \A i \in DOMAIN line' : \E j \in DOMAIN line : line'[i] = line[j]
    BY <1>1, LineLeft
  <2>2. at.dev = 1 /\ at'.phase = at.phase
    BY <1>1, <1>0, WhereItGoes, Moves DEF Advances, Stays
  <2>3. at.phase = "probe" => line = <<>>
    BY <1>1, <2>2, SendFacts DEF WriteData, FirstAtmel
  <2>4. at.phase = "probe" => line' = <<>>
    BY <2>1, <2>3
  <2> QED
    BY <2>1, <2>2, <2>4 DEF FirstAtmel
<1>2. CASE Finding /\ WriteIsLost
  <2>1. /\ line' \in Seq(Answers) /\ Len(line') <= Len(line)
        /\ \A i \in DOMAIN line' : \E j \in DOMAIN line : line'[i] = line[j]
    BY <1>2, LineLeft
  <2>2. at.dev = 1
    BY <1>2, <1>0, WhereItGoes
  <2>3. Device # "digipicco"
    BY <2>2, DeviceFacts DEF TypeOK, Device
  <2>4. at'.phase = at.phase
    BY <1>2, <1>0, <2>2, <2>3, Moves DEF Restarts, Advances, Stays
  <2>5. at.phase = "probe" => line = <<>>
    BY <1>2, <2>2, SendFacts DEF WriteIsLost, FirstAtmel
  <2>6. at.phase = "probe" => line' = <<>>
    BY <2>1, <2>5
  <2> QED
    BY <2>1, <2>2, <2>4, <2>6 DEF FirstAtmel
<1>3. CASE Finding /\ AskData
  <2>1. PICK rest \in Backlog : line' = rest \/ \E a \in Answers : Answered(rest, a)
    BY <1>3, AnswerFacts
  <2>2. PICK n \in 0 .. Len(line) : Dropped(rest, n)
    BY Backlogs DEF TypeOK
  <2>3. at.dev = 1 /\ Device \in Atmels
    <3>1. at.dev = 1
      BY <1>3, <1>0, WhereItGoes
    <3> QED
      BY <3>1, DeviceFacts DEF TypeOK, Device, Atmels
  <2>4. /\ at.wait = "no" /\ at'.wait = "yes" /\ at'.phase = at.phase /\ at'.step = at.step
    BY <1>3 DEF AskData, TypeOK, Places
  <2>5. at.step = 2
    <3>1. Reads(Op) /\ ~Sends(Op) /\ at.step <= Len(Script)
      BY <1>3, AskFacts DEF AskData
    <3> QED
      BY <1>3, <2>3, <3>1, StepFacts DEF ProbeStep, Finding, Reads, Command
  <2>6. \A i \in DOMAIN rest : \E j \in DOMAIN line : rest[i] = line[j]
    BY <2>2 DEF Dropped
  <2>7. ASSUME NEW a \in Answers, Answered(rest, a)
        PROVE  /\ at.phase = "probe" => a.reg = "identification"
               /\ at.phase = "query" => a.reg \in Kinds
    <3>1. at.kind \in 1 .. Len(Queries)
      BY DEF TypeOK, Places
    <3> QED
      BY <2>3, <2>5, <2>7, <3>1, KindFacts DEF Answered, Commanded
  <2>8. CASE at.phase = "probe"
    <3>1. line = <<>>
      BY <2>3, <2>4, <2>8 DEF FirstAtmel
    <3>2. rest = <<>>
      BY <2>2, <3>1 DEF Dropped
    <3>3. CASE line' = rest
      BY <2>4, <2>8, <3>2, <3>3 DEF FirstAtmel
    <3>4. ASSUME NEW a \in Answers, Answered(rest, a) PROVE FirstAtmel'
      <4>1. line' = <<a>> /\ a.reg = "identification"
        BY <2>7, <2>8, <3>2, <3>4 DEF Answered
      <4> QED
        BY <2>4, <2>5, <2>8, <4>1 DEF FirstAtmel
    <3> QED
      BY <2>1, <3>3, <3>4
  <2>9. CASE at.phase = "query"
    <3>1. \A i \in DOMAIN rest : rest[i].reg \in Kinds
      BY <2>3, <2>6, <2>9 DEF FirstAtmel
    <3>2. CASE line' = rest
      BY <2>4, <2>9, <3>1, <3>2 DEF FirstAtmel
    <3>3. ASSUME NEW a \in Answers, Answered(rest, a) PROVE FirstAtmel'
      <4>1. rest \in Seq(Answers) /\ line' = Append(rest, a) /\ a.reg \in Kinds
        BY <2>2, <2>7, <2>9, <3>3 DEF Answered, Dropped
      <4>2. \A i \in DOMAIN line' : line'[i].reg \in Kinds
        BY <3>1, <4>1
      <4> QED
        BY <2>4, <2>9, <4>2 DEF FirstAtmel
    <3> QED
      BY <2>1, <3>2, <3>3
  <2> QED
    BY <1>3, <2>8, <2>9 DEF Finding
<1>4. CASE Finding /\ NoAnswer
  <2>1. /\ line' \in Seq(Answers)
        /\ \A i \in DOMAIN line' : \E j \in DOMAIN line : line'[i] = line[j]
    BY <1>4, LineLeft
  <2>2. at.dev = 1
    BY <1>4, <1>0, WhereItGoes
  <2>3. Device # "digipicco"
    BY <2>2, DeviceFacts DEF TypeOK, Device
  <2>4. at.phase = "query" /\ at'.phase = "query"
    BY <1>4, <1>0, <2>2, <2>3, Moves DEF Restarts
  <2> QED
    BY <2>1, <2>2, <2>4 DEF FirstAtmel
<1>5. CASE Finding /\ WrongAnswer
  <2>1. /\ line' \in Seq(Answers)
        /\ \A i \in DOMAIN line' : \E j \in DOMAIN line : line'[i] = line[j]
    BY <1>5, LineLeft
  <2>2. at.dev = 1
    BY <1>5, <1>0, WhereItGoes
  <2>3. Device # "digipicco"
    BY <2>2, DeviceFacts DEF TypeOK, Device
  <2>4. at.phase = "query" /\ at'.phase = "query"
    BY <1>5, <1>0, <2>2, <2>3, Moves DEF Restarts
  <2> QED
    BY <2>1, <2>2, <2>4 DEF FirstAtmel
<1>6. CASE Finding /\ Unchecked
  <2>1. /\ line' \in Seq(Answers)
        /\ \A i \in DOMAIN line' : \E j \in DOMAIN line : line'[i] = line[j]
    BY <1>6, LineLeft
  <2>2. at.dev = 1
    BY <1>6, <1>0, WhereItGoes
  <2>3. Device # "digipicco"
    BY <2>2, DeviceFacts DEF TypeOK, Device
  <2>4. at.phase = "query" /\ at'.phase = "query"
    BY <1>6, <1>0, <2>2, <2>3, Moves DEF Restarts
  <2> QED
    BY <2>1, <2>2, <2>4 DEF FirstAtmel
<1>7. CASE Finding /\ RightAnswer
  <2>1. /\ line' \in Seq(Answers)
        /\ \A i \in DOMAIN line' : \E j \in DOMAIN line : line'[i] = line[j]
    BY <1>7, LineLeft
  <2>2. at.dev = 1 /\ at'.phase = at.phase
    BY <1>7, <1>0, WhereItGoes, Moves DEF Advances, Stays
  <2>3. PICK n \in 1 .. Len(line) : Dropped(line', n)
    BY <1>7, LineShrinks
  <2>4. at.phase = "probe" => line' = <<>>
    <3>1. SUFFICES ASSUME at.phase = "probe" PROVE line' = <<>>
      OBVIOUS
    <3>2. (line \in Seq(Answers) /\ Len(line) = 1) \/ line = <<>>
      BY <2>2, <3>1 DEF FirstAtmel, TypeOK
    <3> QED
      BY <2>1, <2>3, <3>2 DEF Dropped
  <2> QED
    BY <2>1, <2>2, <2>4 DEF FirstAtmel
<1>8. CASE Finding /\ NoValue
  <2>1. /\ line' \in Seq(Answers)
        /\ \A i \in DOMAIN line' : \E j \in DOMAIN line : line'[i] = line[j]
    BY <1>8, LineLeft
  <2>2. at.dev = 1
    BY <1>8, <1>0, WhereItGoes
  <2>3. Device # "digipicco"
    BY <2>2, DeviceFacts DEF TypeOK, Device
  <2>4. at.phase = "query" /\ at'.phase = "query"
    BY <1>8, <1>0, <2>2, <2>3, Moves DEF Restarts
  <2> QED
    BY <2>1, <2>2, <2>4 DEF FirstAtmel
<1>9. CASE Finding /\ DeviceFound
  <2>1. line' = line /\ at.dev = 1 /\ at'.dev = 1 /\ at.phase = "probe"
    BY <1>9, <1>0, WhereItGoes DEF DeviceFound
  <2>2. Device \in Atmels /\ Device # "digipicco" /\ Script = ProbeAtmel
    BY <2>1, DeviceFacts, TablesOfDevices DEF TypeOK, Device, Atmels, Script
  <2>3. at'.phase = "query" /\ at.step > Len(Script)
    BY <1>9, <1>0, <2>1, <2>2, Moves DEF Restarts
  <2>4. at.step # 2
    BY <2>2, <2>3, ProbeOfAtmel
  <2>5. line = <<>>
    BY <2>1, <2>4 DEF FirstAtmel
  <2> QED
    BY <2>1, <2>3, <2>5 DEF FirstAtmel
<1>10. CASE Finding /\ KindDone
  <2>1. /\ line' \in Seq(Answers)
        /\ \A i \in DOMAIN line' : \E j \in DOMAIN line : line'[i] = line[j]
    BY <1>10, LineLeft
  <2>2. at.dev = 1
    BY <1>10, <1>0, WhereItGoes
  <2>3. Device # "digipicco"
    BY <2>2, DeviceFacts DEF TypeOK, Device
  <2>4. at.phase = "query" /\ at'.phase = "query"
    BY <1>10, <1>0, <2>2, <2>3, Moves DEF Restarts
  <2> QED
    BY <2>1, <2>2, <2>4 DEF FirstAtmel
<1>11. CASE UNCHANGED vars
  BY <1>11 DEF vars, FirstAtmel
<1> QED
  BY <1>0, <1>1, <1>2, <1>3, <1>4, <1>5, <1>6, <1>7, <1>8, <1>9, <1>10, <1>11, FoundBefore

(* The second Atmel is reached with what the first has left on the line.    *)
LEMMA SecondBegins ==
    ASSUME TypeOK, FirstAtmel, LateIsKnown, Finding, at.dev = 1,
           line' \in Seq(Answers),
           \A i \in DOMAIN line' : \E j \in DOMAIN line : line'[i] = line[j],
           at'.phase = "probe", at'.step = 1
    PROVE  SecondAtmel'
<1>1. Passed = {"atmel2"}
  BY Devices7 DEF Passed
<1>2. \A i \in DOMAIN line' : line'[i].from = "atmel2"
  BY <1>1 DEF LateIsKnown
<1>3. \/ \A i \in DOMAIN line' : line'[i].reg \notin Kinds
      \/ \A i \in DOMAIN line' : line'[i].reg \in Kinds
  <2>1. "identification" \notin Kinds
    BY KindFacts DEF Names
  <2> QED
    BY <2>1 DEF FirstAtmel, Finding
<1> QED
  BY <1>2, <1>3 DEF SecondAtmel

(* Which replies of the first Atmel the second may find on the line. *)
LEMMA SecondAtmelStep ==
    /\ TypeOK /\ InPlace /\ LateIsKnown /\ FirstAtmel /\ SecondAtmel
    /\ [Next]_vars
    => SecondAtmel'
<1> SUFFICES ASSUME TypeOK, InPlace, LateIsKnown, FirstAtmel, SecondAtmel, [Next]_vars,
                    at'.dev = 2, at'.phase \in {"probe", "query"}
             PROVE  SecondAtmel'
  BY DEF Finding, SecondAtmel
<1>0. Finding'
  BY DEF Finding
<1>1. CASE Finding /\ WriteData
  <2>1. /\ line' \in Seq(Answers)
        /\ \A i \in DOMAIN line' : \E j \in DOMAIN line : line'[i] = line[j]
    BY <1>1, LineLeft
  <2>2. CASE at.dev = 1
    BY <1>1, <1>0, <2>1, <2>2, WhereItGoes, SecondBegins
  <2>3. CASE at.dev = 2
    <3>1. Device \in Atmels
      BY <2>3, DeviceFacts DEF TypeOK, Device, Atmels
    <3>2. at'.phase = at.phase /\ at'.step = at.step + 1 /\ at.wait = "no" /\ at.step \in Nat
      BY <1>1, <1>0, WhereItGoes, Moves, SendFacts DEF Advances, Stays, WriteData
    <3>3. at.phase = "probe" => at.step = 1
      BY <1>1, <3>1, SendFacts, StepFacts DEF WriteData, ProbeStep, Sends, Read
    <3>4. at.phase = "probe" => \A i \in DOMAIN line' : line'[i].from # "atmel3"
      BY <1>1, <2>1, <2>3, <3>2, <3>3 DEF SecondAtmel
    <3> QED
      BY <1>1, <2>1, <2>3, <3>2, <3>3, <3>4 DEF SecondAtmel
  <2> QED
    BY <1>1, <1>0, <2>2, <2>3, WhereItGoes
<1>2. CASE Finding /\ WriteIsLost
  <2>1. /\ line' \in Seq(Answers)
        /\ \A i \in DOMAIN line' : \E j \in DOMAIN line : line'[i] = line[j]
    BY <1>2, LineLeft
  <2>2. CASE at.dev = 1
    BY <1>2, <1>0, <2>1, <2>2, WhereItGoes, SecondBegins
  <2>3. CASE at.dev = 2
    <3>1. Device \in Atmels /\ Device # "digipicco"
      BY <2>3, DeviceFacts DEF TypeOK, Device, Atmels
    <3>2. Op.do = "command"
      BY <1>2, <3>1, SendFacts, StepFacts DEF WriteIsLost, ProbeStep, Finding, Sends, Read, Command
    <3>3. at.phase = "query" /\ at'.phase = "query"
      BY <1>2, <1>0, <2>3, <3>1, <3>2, Moves DEF Restarts
    <3> QED
      BY <2>1, <2>3, <3>3 DEF SecondAtmel, Finding
  <2> QED
    BY <1>2, <1>0, <2>2, <2>3, WhereItGoes
<1>3. CASE Finding /\ AskData
  <2>1. PICK rest \in Backlog : line' = rest \/ \E a \in Answers : Answered(rest, a)
    BY <1>3, AnswerFacts
  <2>2. PICK n \in 0 .. Len(line) : Dropped(rest, n)
    BY Backlogs DEF TypeOK
  <2>3. at.dev = 2 /\ Device = "atmel3"
    <3>1. at.dev = 2
      BY <1>3, <1>0, WhereItGoes
    <3> QED
      BY <3>1, DeviceFacts DEF TypeOK, Device
  <2>4. /\ at.wait = "no" /\ at'.wait = "yes" /\ at'.phase = at.phase /\ at'.step = at.step
    BY <1>3 DEF AskData, TypeOK, Places
  <2>5. rest \in Seq(Answers) /\ \A i \in DOMAIN rest : \E j \in DOMAIN line : rest[i] = line[j]
    BY <2>2 DEF Dropped
  <2>6. at.phase = "probe" /\ at.step <= 2 => \A i \in DOMAIN rest : rest[i].from # "atmel3"
    BY <1>3, <2>3, <2>4, <2>5 DEF SecondAtmel
  <2>7. \/ \A i \in DOMAIN rest : rest[i].from = "atmel2" => rest[i].reg \notin Kinds
        \/ /\ at.phase = "probe" /\ at.step <= 2
           /\ \A i \in DOMAIN rest : rest[i].from = "atmel2" => rest[i].reg \in Kinds
    BY <1>3, <2>3, <2>5 DEF SecondAtmel
  <2>8. CASE line' = rest
    BY <2>4, <2>6, <2>7, <2>8 DEF SecondAtmel
  <2>9. ASSUME NEW a \in Answers, Answered(rest, a) PROVE SecondAtmel'
    <3>1. a.from = "atmel3" /\ line' = Append(rest, a)
      BY <2>3, <2>9 DEF Answered
    <3>2. /\ DOMAIN line' = 1 .. Len(rest) + 1 /\ Len(line') = Len(rest) + 1 /\ Len(rest) \in Nat
          /\ \A i \in 1 .. Len(rest) : line'[i] = rest[i]
          /\ line'[Len(rest) + 1] = a
          /\ DOMAIN rest = 1 .. Len(rest)
      BY <2>5, <3>1, Added
    <3>3. \A i \in DOMAIN line' :
              \/ i \in DOMAIN rest /\ line'[i] = rest[i]
              \/ i = Len(line') /\ line'[i] = a
      <4> SUFFICES ASSUME NEW i \in 1 .. Len(rest) + 1
                   PROVE  \/ i \in DOMAIN rest /\ line'[i] = rest[i]
                          \/ i = Len(line') /\ line'[i] = a
        BY <3>2
      <4>1. i \in 1 .. Len(rest) \/ i = Len(rest) + 1
        BY <3>2
      <4> QED
        BY <3>2, <4>1
    <3>4. at.phase = "probe" /\ at.step <= 2 =>
              \A i \in DOMAIN line' : line'[i].from = "atmel3" => i = Len(line')
      BY <2>6, <3>3
    <3>5. \/ \A i \in DOMAIN line' : line'[i].from = "atmel2" => line'[i].reg \notin Kinds
          \/ /\ at.phase = "probe" /\ at.step <= 2
             /\ \A i \in DOMAIN line' : line'[i].from = "atmel2" => line'[i].reg \in Kinds
      BY <2>7, <3>1, <3>3
    <3> QED
      BY <2>4, <3>4, <3>5 DEF SecondAtmel
  <2> QED
    BY <2>1, <2>8, <2>9
<1>4. CASE Finding /\ NoAnswer
  <2>1. /\ line' \in Seq(Answers)
        /\ \A i \in DOMAIN line' : \E j \in DOMAIN line : line'[i] = line[j]
    BY <1>4, LineLeft
  <2>2. CASE at.dev = 1
    BY <1>4, <1>0, <2>1, <2>2, WhereItGoes, SecondBegins
  <2>3. CASE at.dev = 2
    <3>1. Device \in Atmels /\ Device # "digipicco"
      BY <2>3, DeviceFacts DEF TypeOK, Device, Atmels
    <3>2. at.phase = "query" /\ at'.phase = "query"
      BY <1>4, <1>0, <2>3, <3>1, Moves DEF Restarts
    <3> QED
      BY <2>1, <2>3, <3>2 DEF SecondAtmel, Finding
  <2> QED
    BY <1>4, <1>0, <2>2, <2>3, WhereItGoes
<1>5. CASE Finding /\ WrongAnswer
  <2>1. /\ line' \in Seq(Answers)
        /\ \A i \in DOMAIN line' : \E j \in DOMAIN line : line'[i] = line[j]
    BY <1>5, LineLeft
  <2>2. CASE at.dev = 1
    BY <1>5, <1>0, <2>1, <2>2, WhereItGoes, SecondBegins
  <2>3. CASE at.dev = 2
    <3>1. Device \in Atmels /\ Device # "digipicco"
      BY <2>3, DeviceFacts DEF TypeOK, Device, Atmels
    <3>2. at.phase = "query" /\ at'.phase = "query"
      BY <1>5, <1>0, <2>3, <3>1, Moves DEF Restarts
    <3> QED
      BY <2>1, <2>3, <3>2 DEF SecondAtmel, Finding
  <2> QED
    BY <1>5, <1>0, <2>2, <2>3, WhereItGoes
<1>6. CASE Finding /\ Unchecked
  <2>1. /\ line' \in Seq(Answers)
        /\ \A i \in DOMAIN line' : \E j \in DOMAIN line : line'[i] = line[j]
    BY <1>6, LineLeft
  <2>2. CASE at.dev = 1
    BY <1>6, <1>0, <2>1, <2>2, WhereItGoes, SecondBegins
  <2>3. CASE at.dev = 2
    <3>1. Device \in Atmels /\ Device # "digipicco"
      BY <2>3, DeviceFacts DEF TypeOK, Device, Atmels
    <3>2. at.phase = "query" /\ at'.phase = "query"
      BY <1>6, <1>0, <2>3, <3>1, Moves DEF Restarts
    <3> QED
      BY <2>1, <2>3, <3>2 DEF SecondAtmel, Finding
  <2> QED
    BY <1>6, <1>0, <2>2, <2>3, WhereItGoes
<1>7. CASE Finding /\ RightAnswer
  <2>1. /\ line' \in Seq(Answers)
        /\ \A i \in DOMAIN line' : \E j \in DOMAIN line : line'[i] = line[j]
    BY <1>7, LineLeft
  <2>2. CASE at.dev = 1
    BY <1>7, <1>0, <2>1, <2>2, WhereItGoes, SecondBegins
  <2>3. CASE at.dev = 2
    <3>1. Device \in Atmels
      BY <2>3, DeviceFacts DEF TypeOK, Device, Atmels
    <3>2. at'.phase = at.phase /\ at'.step = at.step + 1 /\ at.step \in Nat
      BY <1>7, <1>0, WhereItGoes, Moves DEF Advances, Stays
    <3>3. CASE at.phase = "query"
      BY <2>1, <2>3, <3>2, <3>3 DEF SecondAtmel, Finding
    <3>4. CASE at.phase = "probe"
      <4>1. PICK n \in 1 .. Len(line) : Takes(n) /\ Passes(n)
        BY <1>7 DEF RightAnswer
      <4>2. Reads(Op) /\ 1 \in DOMAIN line /\ Dropped(line', n) /\ at.step <= Len(Script)
        BY <4>1, TakeFacts
      <4>3. at.step = 2 /\ Op = Read(24, {"identification"})
        BY <3>1, <3>4, <4>2, StepFacts DEF ProbeStep, Reads, Command
      <4>4. n = 1 /\ line[1].reg = "identification"
        BY <4>1, <4>3 DEF Passes, Read
      <4>5. \A i \in DOMAIN line' : line'[i].from = "atmel2" => line'[i].reg \notin Kinds
        <5>1. CASE \A i \in DOMAIN line : line[i].from = "atmel2" => line[i].reg \notin Kinds
          BY <2>1, <5>1
        <5>2. CASE \A i \in DOMAIN line : line[i].from = "atmel2" => line[i].reg \in Kinds
          <6>1. line[1].from # "atmel2"
            BY <4>2, <4>4, <5>2, KindFacts DEF Names
          <6>2. line[1].from = "atmel3"
            <7>1. line[1].from \in Passed
              BY <1>7, <4>2 DEF LateIsKnown
            <7>2. \A k \in 1 .. 2 : k = 1 \/ k = 2
              OBVIOUS
            <7> QED
              BY <2>3, <6>1, <7>1, <7>2, Devices7 DEF Passed
          <6>3. Len(line) = 1
            <7>1. at.step <= 2
              BY <4>3
            <7> QED
              BY <1>7, <2>3, <3>4, <4>2, <6>2, <7>1 DEF SecondAtmel
          <6>4. DOMAIN line' = {}
            <7>1. Len(line') = 0
              BY <4>2, <4>4, <6>3 DEF Dropped
            <7> QED
              BY <2>1, <7>1
          <6> QED
            BY <6>4
        <5> QED
          BY <1>7, <2>3, <5>1, <5>2 DEF SecondAtmel
      <4> QED
        BY <3>2, <4>3, <4>5 DEF SecondAtmel
    <3> QED
      BY <1>7, <3>3, <3>4 DEF Finding
  <2> QED
    BY <1>7, <1>0, <2>2, <2>3, WhereItGoes
<1>8. CASE Finding /\ NoValue
  <2>1. /\ line' \in Seq(Answers)
        /\ \A i \in DOMAIN line' : \E j \in DOMAIN line : line'[i] = line[j]
    BY <1>8, LineLeft
  <2>2. CASE at.dev = 1
    BY <1>8, <1>0, <2>1, <2>2, WhereItGoes, SecondBegins
  <2>3. CASE at.dev = 2
    <3>1. Device \in Atmels /\ Device # "digipicco"
      BY <2>3, DeviceFacts DEF TypeOK, Device, Atmels
    <3>2. at.phase = "query" /\ at'.phase = "query"
      BY <1>8, <1>0, <2>3, <3>1, Moves DEF Restarts
    <3> QED
      BY <2>1, <2>3, <3>2 DEF SecondAtmel, Finding
  <2> QED
    BY <1>8, <1>0, <2>2, <2>3, WhereItGoes
<1>9. CASE Finding /\ DeviceFound
  <2>1. /\ line' \in Seq(Answers)
        /\ \A i \in DOMAIN line' : \E j \in DOMAIN line : line'[i] = line[j]
    BY <1>9, LineLeft
  <2>2. CASE at.dev = 1
    BY <1>9, <1>0, <2>1, <2>2, WhereItGoes, SecondBegins
  <2>3. CASE at.dev = 2
    <3>1. Device \in Atmels /\ Device # "digipicco" /\ at.phase = "probe" /\ Script = ProbeAtmel
      BY <1>9, <2>3, DeviceFacts, TablesOfDevices DEF TypeOK, Device, Atmels, Script, DeviceFound
    <3>2. at'.phase = "query" /\ at.step > Len(Script)
      BY <1>9, <1>0, <2>3, <3>1, Moves DEF Restarts
    <3>3. ~(at.step <= 2)
      <4>1. at.step \in Nat /\ Len(Script) = 2
        BY <1>9, <1>0, <3>1, WhereItGoes, ProbeOfAtmel
      <4> QED
        BY <3>2, <4>1
    <3> QED
      BY <2>1, <2>3, <3>1, <3>2, <3>3 DEF SecondAtmel, Finding
  <2> QED
    BY <1>9, <1>0, <2>2, <2>3, WhereItGoes
<1>10. CASE Finding /\ KindDone
  <2>1. /\ line' \in Seq(Answers)
        /\ \A i \in DOMAIN line' : \E j \in DOMAIN line : line'[i] = line[j]
    BY <1>10, LineLeft
  <2>2. CASE at.dev = 1
    BY <1>10, <1>0, <2>1, <2>2, WhereItGoes, SecondBegins
  <2>3. CASE at.dev = 2
    <3>1. Device \in Atmels /\ Device # "digipicco"
      BY <2>3, DeviceFacts DEF TypeOK, Device, Atmels
    <3>2. at.phase = "query" /\ at'.phase = "query"
      BY <1>10, <1>0, <2>3, <3>1, Moves DEF Restarts
    <3> QED
      BY <2>1, <2>3, <3>2 DEF SecondAtmel, Finding
  <2> QED
    BY <1>10, <1>0, <2>2, <2>3, WhereItGoes
<1>11. CASE UNCHANGED vars
  BY <1>11 DEF vars, SecondAtmel, Finding
<1> QED
  BY <1>0, <1>1, <1>2, <1>3, <1>4, <1>5, <1>6, <1>7, <1>8, <1>9, <1>10, <1>11, FoundBefore

(* Of the answers that are left after a step, none is left if none was late. *)
LEMMA NoneLeft ==
    ASSUME TypeOK', LateIsKnown', Finding', at'.wait = "no", late' = {}
    PROVE  \A i \in DOMAIN line' : FALSE
BY DEF LateIsKnown, Awaited, Known

(* An Atmel answers the command it was sent last. *)
LEMMA CommandedStep ==
    /\ TypeOK /\ InPlace /\ LateIsKnown /\ Commanded /\ TypeOK' /\ LateIsKnown'
    /\ [Next]_vars
    => Commanded'
<1> SUFFICES ASSUME TypeOK, InPlace, LateIsKnown, Commanded, TypeOK', LateIsKnown',
                    [Next]_vars, at'.phase \in {"probe", "query"}
             PROVE  Commanded'
  BY DEF Finding, Commanded
<1>0. Finding'
  BY DEF Finding
<1>1. CASE Finding /\ WriteData
  <2>1. /\ at'.phase = at.phase /\ at'.step = at.step + 1 /\ at.step \in Nat
        /\ Device' = Device /\ at'.kind = at.kind /\ at'.wait = "no"
    BY <1>1, <1>0, WhereItGoes, Moves DEF Advances, Stays, Device
  <2>2. Device \in Devices /\ Sends(Op) /\ at.step <= Len(Script)
    BY <1>1, SendFacts, DeviceFacts DEF WriteData, TypeOK, Device
  <2>3. present' = present /\ (Device \in present => selected'[Device] = Op.reg)
    BY <1>1, <2>2 DEF WriteData, TypeOK
  <2>4. at.phase = "probe" /\ Device \in Atmels /\ at.step = 1 => Op.reg = "identification"
    BY <2>2, StepFacts DEF ProbeStep, Command
  <2>5. at.phase = "query" /\ at.step = 1 => Op.reg = Queries[at.kind]
    BY <2>2, StepFacts DEF Command
  <2> QED
    BY <1>0, <2>1, <2>3, <2>4, <2>5, NoneLeft DEF Commanded
<1>2. CASE Finding /\ WriteIsLost
  <2>1. CASE Restarts
    <3>1. at'.step = 1 /\ at'.wait = "no"
      BY <2>1 DEF Restarts
    <3> QED
      BY <1>0, <3>1, NoneLeft DEF Commanded
  <2>2. CASE Advances /\ Op.do = "write"
    <3>1. Device' = Device /\ at'.phase = at.phase
      BY <2>2 DEF Advances, Stays, Device
    <3>2. Sends(Op) /\ at.step <= Len(Script)
      BY <1>2, SendFacts DEF WriteIsLost
    <3>3. at.phase = "probe" /\ Device \notin Atmels
      BY <1>2, <2>2, <3>2, StepFacts DEF Finding, ProbeStep, Command, Read
    <3> QED
      BY <3>1, <3>3 DEF Commanded
  <2> QED
    BY <1>2, <1>0, <2>1, <2>2, Moves
<1>3. CASE Finding /\ AskData
  <2>1. PICK rest \in Backlog : line' = rest \/ \E a \in Answers : Answered(rest, a)
    BY <1>3, AnswerFacts
  <2>2. PICK n \in 0 .. Len(line) : Dropped(rest, n)
    BY Backlogs DEF TypeOK
  <2>3. /\ at.wait = "no" /\ at'.wait = "yes" /\ at'.phase = at.phase /\ at'.step = at.step
        /\ Device' = Device /\ at'.kind = at.kind
        /\ present' = present /\ selected' = selected /\ late' = late
    <3>1. /\ at'.wait = "yes" /\ at'.phase = at.phase /\ at'.step = at.step
          /\ at'.dev = at.dev /\ at'.kind = at.kind
      BY <1>3 DEF AskData, TypeOK, Places
    <3> QED
      BY <1>3, <3>1 DEF AskData, Device
  <2>4. at.phase = "query" => at.step = 2
    <3>1. Reads(Op) /\ at.step <= Len(Script)
      BY <1>3, AskFacts DEF AskData
    <3> QED
      BY <3>1, StepFacts DEF Reads, Command
  <2>5. late = {} => rest = <<>>
    <3>1. SUFFICES ASSUME late = {} PROVE rest = <<>>
      OBVIOUS
    <3>2. \A i \in DOMAIN rest : FALSE
      BY <1>3, <2>2, <2>3, <3>1, LeftIsKnown DEF Known
    <3> QED
      BY <2>2, <3>2 DEF Dropped
  <2>6. at.phase = "query" /\ late = {} =>
            \A i \in DOMAIN line' : line'[i].reg = Queries[at.kind]
    <3>1. SUFFICES ASSUME at.phase = "query", late = {}
                   PROVE  \A i \in DOMAIN line' : line'[i].reg = Queries[at.kind]
      OBVIOUS
    <3>2. ASSUME NEW a \in Answers, Answered(rest, a)
          PROVE  \A i \in DOMAIN line' : line'[i].reg = Queries[at.kind]
      <4>1. a.reg = Queries[at.kind]
        BY <2>4, <3>1, <3>2 DEF Answered, Commanded
      <4>2. line' = <<a>>
        BY <2>5, <3>1, <3>2 DEF Answered
      <4> QED
        BY <4>1, <4>2
    <3>3. CASE line' = rest
      BY <2>5, <3>1, <3>3
    <3> QED
      BY <2>1, <3>2, <3>3
  <2> QED
    BY <2>3, <2>4, <2>6 DEF Commanded
<1>4. CASE Finding /\ NoAnswer
  <2>1. at'.step = 1 /\ at'.wait = "no"
    BY <1>4, <1>0, Moves DEF Restarts
  <2> QED
    BY <1>0, <2>1, NoneLeft DEF Commanded
<1>5. CASE Finding /\ WrongAnswer
  <2>1. at'.step = 1 /\ at'.wait = "no"
    BY <1>5, <1>0, Moves DEF Restarts
  <2> QED
    BY <1>0, <2>1, NoneLeft DEF Commanded
<1>6. CASE Finding /\ Unchecked
  <2>1. at'.step = 1 /\ at'.wait = "no"
    BY <1>6, <1>0, Moves DEF Restarts
  <2> QED
    BY <1>0, <2>1, NoneLeft DEF Commanded
<1>7. CASE Finding /\ RightAnswer
  <2>1. /\ at'.phase = at.phase /\ at'.step = at.step + 1 /\ at.step \in Nat
        /\ Device' = Device /\ at'.wait = "no"
    BY <1>7, <1>0, WhereItGoes, Moves DEF Advances, Stays, Device
  <2>2. Reads(Op) /\ ~Sends(Op) /\ at.step <= Len(Script)
    BY <1>7, TakeFacts DEF RightAnswer
  <2>3. at.phase = "probe" /\ Device \in Atmels => at.step # 1
    BY <2>2, StepFacts DEF ProbeStep, Reads, Command
  <2>4. at.phase = "query" => at.step # 1
    BY <2>2, StepFacts DEF Reads, Command
  <2> QED
    BY <1>0, <2>1, <2>3, <2>4, NoneLeft DEF Commanded
<1>8. CASE Finding /\ NoValue
  <2>1. at'.step = 1 /\ at'.wait = "no"
    BY <1>8, <1>0, Moves DEF Restarts
  <2> QED
    BY <1>0, <2>1, NoneLeft DEF Commanded
<1>9. CASE Finding /\ DeviceFound
  <2>1. at'.step = 1 /\ at'.wait = "no"
    BY <1>9, <1>0, Moves DEF Restarts
  <2> QED
    BY <1>0, <2>1, NoneLeft DEF Commanded
<1>10. CASE Finding /\ KindDone
  <2>1. at'.step = 1 /\ at'.wait = "no"
    BY <1>10, <1>0, Moves DEF Restarts
  <2> QED
    BY <1>0, <2>1, NoneLeft DEF Commanded
<1>11. CASE UNCHANGED vars
  BY <1>11 DEF vars, Commanded, Device
<1> QED
  BY <1>0, <1>1, <1>2, <1>3, <1>4, <1>5, <1>6, <1>7, <1>8, <1>9, <1>10, <1>11, FoundBefore

(* Controls are made from answers of their own board. *)
LEMMA ControlsStep ==
    /\ TypeOK /\ InPlace /\ LateIsKnown /\ SecondAtmel /\ Commanded
    /\ ControlsAreOwn /\ [Next]_vars
    => ControlsAreOwn'
<1> SUFFICES ASSUME TypeOK, InPlace, LateIsKnown, SecondAtmel, Commanded, ControlsAreOwn,
                    [Next]_vars
             PROVE  ControlsAreOwn'
  OBVIOUS
<1>1. CASE WriteData
  BY <1>1 DEF WriteData, NothingComes, ControlsAreOwn
<1>2. CASE WriteIsLost
  BY <1>2 DEF WriteIsLost, NothingComes, ControlsAreOwn
<1>3. CASE AskData
  BY <1>3 DEF AskData, NothingComes, ControlsAreOwn
<1>4. CASE NoAnswer
  BY <1>4 DEF NoAnswer, NothingComes, ControlsAreOwn
<1>5. CASE WrongAnswer
  BY <1>5 DEF WrongAnswer, NothingComes, ControlsAreOwn
<1>6. CASE Unchecked
  BY <1>6 DEF Unchecked, NothingComes, ControlsAreOwn
<1>7. CASE RightAnswer
  <2>1. CASE at.phase # "query"
    BY <1>7, <2>1 DEF RightAnswer, ControlsAreOwn
  <2>2. CASE at.phase = "query"
    <3>1. PICK n \in 1 .. Len(line) : Takes(n) /\ Passes(n)
      BY <1>7 DEF RightAnswer
    <3>2. Reads(Op) /\ 1 \in DOMAIN line /\ at.step <= Len(Script)
      BY <3>1, TakeFacts
    <3>3. at.step = 2 /\ Op = Read(8, Kinds)
      BY <2>2, <3>2, StepFacts DEF Reads, Command
    <3>4. line[1].reg \in Kinds
      BY <3>1, <3>3 DEF Passes, Read
    <3>5. Device \in Atmels /\ at.dev \in 1 .. 2
      <4>1. Device \in Atmels
        BY <2>2 DEF InPlace
      <4> QED
        BY <4>1, DeviceFacts DEF Atmels, Device, TypeOK
    <3>6. line[1].from = Device
      <4>1. line[1].from \in Passed
        BY <2>2, <3>2 DEF LateIsKnown, Finding
      <4>2. CASE at.dev = 1
        BY <4>1, <4>2 DEF Passed, Device
      <4>3. CASE at.dev = 2
        <5>1. line[1].from # "atmel2"
          BY <2>2, <3>2, <3>4, <4>3 DEF SecondAtmel, Finding
        <5>2. \A k \in 1 .. 2 : k = 1 \/ k = 2
          OBVIOUS
        <5> QED
          BY <4>1, <4>3, <5>1, <5>2, Devices7 DEF Passed, Device
      <4> QED
        BY <3>5, <4>2, <4>3
    <3>7. late = {} => line[1].reg = Queries[at.kind]
      BY <2>2, <3>2 DEF Commanded
    <3>8. /\ controls' = [controls EXCEPT ![Device][Queries[at.kind]] = line[1]]
          /\ late' = late
      BY <1>7, <2>2 DEF RightAnswer
    <3> DEFINE q == Queries[at.kind]
    <3>9. controls \in [Atmels -> [Kinds -> Answers \cup {None}]]
      BY DEF TypeOK
    <3> HIDE DEF q
    <3>10. ASSUME NEW a \in Atmels, NEW k \in Kinds
           PROVE  \/ controls'[a][k] = controls[a][k]
                  \/ a = Device /\ k = q /\ controls'[a][k] = line[1]
      <4>1. controls[a] \in [Kinds -> Answers \cup {None}]
        BY <3>9
      <4>2. controls' = [controls EXCEPT ![Device] = [controls[Device] EXCEPT ![q] = line[1]]]
        BY <3>8 DEF q
      <4>3. controls'[a] = IF a = Device THEN [controls[a] EXCEPT ![q] = line[1]] ELSE controls[a]
        BY <3>9, <4>2
      <4> QED
        BY <4>1, <4>3
    <3> QED
      BY <3>6, <3>7, <3>8, <3>10 DEF ControlsAreOwn, q
  <2> QED
    BY <2>1, <2>2
<1>8. CASE NoValue
  BY <1>8 DEF NoValue, NothingComes, ControlsAreOwn
<1>9. CASE Channel0
  BY <1>9 DEF Channel0, NothingComes, ControlsAreOwn
<1>10. CASE ReadAgain
  BY <1>10 DEF ReadAgain, NothingComes, ControlsAreOwn
<1>11. CASE Overflows
  BY <1>11 DEF Overflows, NothingComes, ControlsAreOwn
<1>12. CASE Measured
  BY <1>12 DEF Measured, NothingComes, ControlsAreOwn
<1>13. CASE LightEnds
  BY <1>13 DEF LightEnds, NothingComes, ControlsAreOwn
<1>14. CASE DeviceFound
  BY <1>14 DEF DeviceFound, NothingComes, ControlsAreOwn
<1>15. CASE KindDone
  BY <1>15 DEF KindDone, NothingComes, ControlsAreOwn
<1>16. CASE ReadDone
  BY <1>16 DEF ReadDone, NothingComes, ControlsAreOwn
<1>17. ASSUME NEW d \in DOMAIN Order, BeginRead(d) PROVE ControlsAreOwn'
  BY <1>17 DEF BeginRead, NothingComes, ControlsAreOwn
<1>18. CASE UNCHANGED vars
  BY <1>18 DEF vars, ControlsAreOwn
<1> QED
  BY <1>1, <1>2, <1>3, <1>4, <1>5, <1>6, <1>7, <1>8, <1>9, <1>10,
     <1>11, <1>12, <1>13, <1>14, <1>15, <1>16, <1>17, <1>18
     DEF Next, Program

-----------------------------------------------------------------------------
(* The reading of the light *)

LEMMA LightStays ==
    ASSUME Stays(at') PROVE InLight' <=> InLight
BY DEF Stays, InLight, Device

LEMMA LightFails ==
    ASSUME TypeOK, LightIsClean, at.phase \in {"probe", "query", "read"}, Fail
    PROVE  LightIsClean'
<1>1. CASE GoesOn(at') /\ LightDone
  <2>1. ~InLight'
    BY <1>1, IdleFacts DEF GoesOn, InLight
  <2> QED
    BY <1>1, <2>1 DEF LightDone, LightIsClean
<1>2. CASE TriedAgain
  <2>1. InLight' <=> InLight
    BY <1>2 DEF TriedAgain, InLight, Device
  <2>2. light.want \in {"low", "high"}
    BY DEF TypeOK, Lights
  <2>3. light'.retry > 0
    BY <1>2, <2>2, UnreadFacts DEF TriedAgain
  <2>4. ~InLight => light' = Unread
    <3>1. ~InLight => light' = [Unread EXCEPT !.want = Unread.want]
      BY <1>2 DEF TriedAgain, LightIsClean
    <3>2. [Unread EXCEPT !.want = Unread.want] = Unread
      BY DEF Unread
    <3> QED
      BY <3>1, <3>2
  <2> QED
    BY <1>2, <2>1, <2>3, <2>4 DEF TriedAgain, LightIsClean
<1> QED
  BY <1>1, <1>2, FailFacts

(* The locals of read() are its own. *)
LEMMA CleanStep ==
    TypeOK /\ InPlace /\ LightIsClean /\ [Next]_vars => LightIsClean'
<1> SUFFICES ASSUME TypeOK, InPlace, LightIsClean, [Next]_vars PROVE LightIsClean'
  OBVIOUS
<1>1. CASE WriteData
  <2>1. at.step <= Len(Script) /\ at' = NextStep
    BY <1>1, SendFacts, TakeFacts DEF WriteData, TakesChannel1
  <2>2. at'.step = at.step + 1 /\ (InLight' <=> InLight) /\ at.step \in Nat
    BY <2>1, StepMoves, StepFacts, LightStays
  <2> QED
    BY <1>1, <2>2 DEF WriteData, LightIsClean
<1>2. CASE WriteIsLost
  <2>1. at.step <= Len(Script) /\ at.phase \in {"probe", "query", "read"}
    BY <1>2, SendFacts, StepFacts DEF WriteIsLost
  <2>2. CASE Fail
    BY <2>1, <2>2, LightFails
  <2>3. CASE /\ at' = NextStep /\ UNCHANGED <<light, pending>>
             /\ lost' = IF InLight THEN lost \cup {Op.reg} ELSE lost
    <3>1. at'.step = at.step + 1 /\ (InLight' <=> InLight) /\ at.step \in Nat
      BY <2>1, <2>3, StepMoves, StepFacts, LightStays
    <3> QED
      BY <2>3, <3>1 DEF LightIsClean
  <2> QED
    BY <1>2, <2>2, <2>3 DEF WriteIsLost
<1>3. CASE AskData
  <2>1. at'.step = at.step /\ Stays(at')
    BY <1>3 DEF AskData, TypeOK, Places, Stays
  <2>2. InLight' <=> InLight
    BY <2>1, LightStays
  <2> QED
    BY <1>3, <2>1, <2>2 DEF AskData, LightIsClean
<1>4. CASE NoAnswer
  <2>1. at.phase \in {"probe", "query", "read"}
    BY <1>4, AskFacts, TakeFacts, StepFacts DEF NoAnswer, NothingComes
  <2> QED
    BY <1>4, <2>1, LightFails DEF NoAnswer
<1>5. CASE WrongAnswer
  <2>1. at.phase \in {"probe", "query", "read"}
    BY <1>5, AskFacts, TakeFacts, StepFacts DEF WrongAnswer, NothingComes
  <2> QED
    BY <1>5, <2>1, LightFails DEF WrongAnswer
<1>6. CASE Unchecked
  <2>1. at.step <= Len(Script) /\ at.phase \in {"probe", "query", "read"} /\ Op.do = "trust"
    BY <1>6, AskFacts, StepFacts DEF Unchecked, NothingComes
  <2>2. ~InLight
    <3>1. InLight => at.step \in {3, 5, 7, 9}
      BY <1>6, <2>1, LightSteps, StepFacts, AskFacts DEF LightStep, Unchecked, NothingComes
    <3>2. InLight => Op.do \in {"read", "take"}
      BY <3>1, LightSteps DEF LightStep, Read, Take
    <3> QED
      BY <2>1, <3>2
  <2>3. ~InLight'
    <3>1. CASE at' = GiveUp
      BY <2>1, <3>1, GiveUpFacts, IdleFacts DEF GoesOn, InLight
    <3>2. CASE at' = [at EXCEPT !.phase = "crashed"]
      <4>1. at'.phase = "crashed"
        BY <3>2 DEF TypeOK, Places
      <4> QED
        BY <4>1 DEF InLight
    <3> QED
      BY <1>6, <3>1, <3>2 DEF Unchecked
  <2> QED
    BY <1>6, <2>2, <2>3 DEF Unchecked, LightIsClean
<1>7. CASE RightAnswer
  <2>1. at.step <= Len(Script) /\ at' = NextStep
    BY <1>7, SendFacts, TakeFacts DEF RightAnswer, TakesChannel1
  <2>2. at'.step = at.step + 1 /\ (InLight' <=> InLight) /\ at.step \in Nat
    BY <2>1, StepMoves, StepFacts, LightStays
  <2> QED
    BY <1>7, <2>2 DEF RightAnswer, LightIsClean
<1>8. CASE NoValue
  <2>1. at.phase \in {"probe", "query", "read"} /\ ~InLight
    BY <1>8, TakeFacts, StepFacts DEF NoValue, InLight
  <2>2. ~InLight'
    BY <1>8, <2>1, GiveUpFacts, IdleFacts DEF NoValue, GoesOn, InLight
  <2> QED
    BY <1>8, <2>1, <2>2 DEF NoValue, LightIsClean
<1>9. CASE Channel0
  <2>1. at.step <= Len(Script) /\ at' = NextStep /\ at.step = 7
    BY <1>9, TakeFacts DEF Channel0, Channels
  <2>2. InLight /\ InLight'
    BY <1>9, <2>1, StepMoves, LightStays DEF Channel0
  <2>3. light'.retry = light.retry
    BY <1>9 DEF Channel0, TypeOK, Lights
  <2> QED
    BY <2>1, <2>2, <2>3 DEF LightIsClean
<1>10. CASE ReadAgain
  <2>1. at.step <= Len(Script) /\ at.step = 9 /\ InLight
    BY <1>10, TakeFacts DEF ReadAgain, TakesChannel1, Channels
  <2>2. light'.retry = light.retry - 1 /\ light.retry \in Nat
    BY <1>10 DEF ReadAgain, TypeOK, Lights
  <2>3. CASE light.retry > 1 /\ at' = [at EXCEPT !.step = Channels, !.wait = "no"]
    <3>1. Stays(at')
      BY <2>3 DEF TypeOK, Places, Stays
    <3> QED
      BY <2>1, <2>2, <2>3, <3>1, LightStays DEF LightIsClean
  <2>4. CASE at' = NextStep
    <3>1. at'.step = 10 /\ InLight'
      BY <2>1, <2>4, StepMoves, LightStays
    <3> QED
      BY <3>1 DEF LightIsClean
  <2> QED
    BY <1>10, <2>3, <2>4 DEF ReadAgain
<1>11. CASE Overflows
  BY <1>11, IdleFacts DEF Overflows, LightDone, LightIsClean, InLight
<1>12. CASE Measured
  <2>1. at.step <= Len(Script) /\ at' = NextStep /\ at.step = 9 /\ InLight
    BY <1>12, TakeFacts DEF Measured, TakesChannel1, Channels
  <2>2. InLight' /\ at'.step = 10
    BY <2>1, StepMoves, LightStays
  <2> QED
    BY <2>2 DEF LightIsClean
<1>13. CASE LightEnds
  <2>1. at.phase = "read" /\ InLight
    BY <1>13 DEF LightEnds, InLight
  <2>2. CASE Fail
    BY <2>1, <2>2, LightFails
  <2>3. CASE at' = Idle /\ LightDone
    BY <2>3, IdleFacts DEF LightDone, LightIsClean, InLight
  <2>4. CASE at' = [at EXCEPT !.step = 1, !.attempt = 0] /\ LightAgain("high")
    <3>1. Stays(at')
      BY <2>4 DEF TypeOK, Places, Stays
    <3>2. light'.retry > 0
      BY <2>4, UnreadFacts DEF LightAgain
    <3> QED
      BY <2>1, <3>1, <3>2, LightStays DEF LightIsClean
  <2> QED
    BY <1>13, <2>2, <2>3, <2>4 DEF LightEnds
<1>14. CASE DeviceFound
  <2>1. ~InLight /\ GoesOn(NextDevice)
    BY <1>14, NextDeviceFacts DEF DeviceFound, InLight, Finding
  <2>2. at'.phase # "read"
    <3>1. [Idle EXCEPT !.phase = "query", !.dev = at.dev].phase = "query"
      BY IdleFacts DEF Places
    <3> QED
      BY <1>14, <2>1, <3>1, IdleFacts DEF DeviceFound, GoesOn
  <2> QED
    BY <1>14, <2>1, <2>2 DEF DeviceFound, InLight, LightIsClean
<1>15. CASE KindDone
  <2>1. ~InLight /\ GoesOn(NextKind)
    BY <1>15, NextKindFacts DEF KindDone, InLight
  <2>2. ~InLight'
    BY <1>15, <2>1, IdleFacts DEF KindDone, GoesOn, InLight
  <2> QED
    BY <1>15, <2>1, <2>2 DEF KindDone, LightIsClean
<1>16. CASE ReadDone
  BY <1>16, IdleFacts DEF ReadDone, InLight, LightIsClean
<1>17. ASSUME NEW d \in DOMAIN Order, BeginRead(d) PROVE LightIsClean'
  <2>1. ~InLight /\ light' = Unread /\ lost' = {} /\ light' = light
    BY <1>17 DEF BeginRead, InLight, LightIsClean
  <2>2. at'.dev = d /\ at'.phase = "read"
    BY <1>17, IdleFacts DEF BeginRead, Places
  <2>3. InLight' <=> Order[d] = "tsl2550"
    BY <2>2 DEF InLight, Device
  <2> QED
    BY <1>17, <2>1, <2>3, UnreadFacts DEF BeginRead, LightIsClean
<1>18. CASE UNCHANGED vars
  BY <1>18 DEF vars, LightIsClean, InLight, Device
<1> QED
  BY <1>1, <1>2, <1>3, <1>4, <1>5, <1>6, <1>7, <1>8, <1>9, <1>10,
     <1>11, <1>12, <1>13, <1>14, <1>15, <1>16, <1>17, <1>18
     DEF Next, Program

(* A reading begins without an answer it has asked for. *)
Begins == at'.step = 1 /\ at'.wait = "no" /\ pending' = Len(line')

(* One write is lost, and nobody notices. *)
GoesUnsent ==
    /\ WriteIsLost
    /\ at' = NextStep /\ light' = light /\ pending' = pending
    /\ lost' = lost \cup {Op.reg}

LEMMA FailBegins ==
    ASSUME TypeOK, at.phase \in {"probe", "query", "read"}, Fail, InLight'
    PROVE  Begins
<1>1. ~(GoesOn(at') /\ LightDone)
  BY IdleFacts DEF GoesOn, InLight
<1>2. TriedAgain
  BY <1>1, FailFacts
<1>3. InLight
  BY <1>2 DEF TriedAgain, InLight, Device
<1> QED
  BY <1>2, <1>3 DEF TriedAgain, Begins

LEMMA LightBefore ==
    ASSUME TypeOK, InPlace, [Next]_vars, InLight'
    PROVE  \/ Begins
           \/ /\ InLight
              /\ \/ WriteData \/ GoesUnsent \/ AskData \/ RightAnswer
                 \/ Channel0 \/ ReadAgain \/ Measured
           \/ UNCHANGED vars
<1>1. ASSUME WriteData \/ RightAnswer PROVE InLight
  <2>1. at.step <= Len(Script) /\ at' = NextStep
    BY <1>1, SendFacts, TakeFacts DEF WriteData, RightAnswer
  <2> QED
    BY <2>1, StepMoves, LightStays
<1>2. ASSUME AskData PROVE InLight
  <2>1. Stays(at')
    BY <1>2 DEF AskData, TypeOK, Places, Stays
  <2> QED
    BY <2>1, LightStays
<1>3. ASSUME WriteIsLost PROVE Begins \/ (InLight /\ GoesUnsent)
  <2>1. at.step <= Len(Script) /\ at.phase \in {"probe", "query", "read"}
    BY <1>3, SendFacts, StepFacts DEF WriteIsLost
  <2>2. CASE Fail
    BY <2>1, <2>2, FailBegins
  <2>3. CASE /\ at' = NextStep /\ UNCHANGED <<light, pending>>
             /\ lost' = IF InLight THEN lost \cup {Op.reg} ELSE lost
    <3>1. InLight
      BY <2>1, <2>3, StepMoves, LightStays
    <3> QED
      BY <1>3, <2>3, <3>1 DEF GoesUnsent
  <2> QED
    BY <1>3, <2>2, <2>3 DEF WriteIsLost
<1>4. ASSUME NoAnswer \/ WrongAnswer PROVE Begins
  <2>1. at.phase \in {"probe", "query", "read"} /\ Fail
    BY <1>4, AskFacts, TakeFacts, StepFacts DEF NoAnswer, NothingComes, WrongAnswer
  <2> QED
    BY <2>1, FailBegins
<1>5. ~Unchecked /\ ~NoValue
  <2>1. ASSUME Unchecked \/ NoValue PROVE FALSE
    <3>1. at.phase \in {"probe", "query", "read"}
      BY <2>1, AskFacts, TakeFacts, StepFacts DEF Unchecked, NothingComes, NoValue
    <3>2. CASE at' = GiveUp
      BY <3>1, <3>2, GiveUpFacts, IdleFacts DEF GoesOn, InLight
    <3>3. CASE at' = [at EXCEPT !.phase = "crashed"]
      <4>1. at'.phase = "crashed"
        BY <3>3 DEF TypeOK, Places
      <4> QED
        BY <4>1 DEF InLight
    <3> QED
      BY <2>1, <3>2, <3>3 DEF Unchecked, NoValue
  <2> QED
    BY <2>1
<1>6. ~Overflows /\ ~ReadDone
  BY IdleFacts DEF Overflows, ReadDone, InLight
<1>7. ASSUME Channel0 \/ ReadAgain \/ Measured PROVE InLight
  BY <1>7 DEF Channel0, ReadAgain, Measured, TakesChannel1
<1>8. ASSUME LightEnds PROVE Begins
  <2>1. at.phase = "read"
    BY <1>8 DEF LightEnds, InLight
  <2>2. CASE Fail
    BY <2>1, <2>2, FailBegins
  <2>3. CASE at' = Idle
    BY <2>3, IdleFacts DEF InLight
  <2>4. CASE at' = [at EXCEPT !.step = 1, !.attempt = 0] /\ LightAgain("high")
    <3>1. at'.step = 1 /\ at'.wait = at.wait /\ line' = line
      BY <1>8, <2>4 DEF LightEnds, TypeOK, Places
    <3>2. InLight
      BY <1>8 DEF LightEnds
    <3>3. ~Doing({"read", "take", "trust"})
      BY <1>8 DEF LightEnds, Doing, TypeOK, Places
    <3>4. at.wait = "no"
      BY <2>1, <3>3 DEF InPlace, TypeOK, Places
    <3> QED
      BY <2>4, <3>1, <3>2, <3>4 DEF LightAgain, Begins
  <2> QED
    BY <1>8, <2>2, <2>3, <2>4 DEF LightEnds
<1>9. ~DeviceFound
  <2>1. [Idle EXCEPT !.phase = "query", !.dev = at.dev].phase = "query"
    BY IdleFacts DEF Places
  <2> QED
    BY <2>1, NextDeviceFacts, IdleFacts DEF DeviceFound, Finding, GoesOn, InLight
<1>10. ~KindDone
  BY NextKindFacts, IdleFacts DEF KindDone, GoesOn, InLight
<1>11. ASSUME NEW d \in DOMAIN Order, BeginRead(d) PROVE Begins
  <2>1. at'.dev = d /\ at'.step = 1 /\ at'.wait = "no"
    BY <1>11, IdleFacts DEF BeginRead, Places
  <2>2. Order[d] = "tsl2550"
    BY <2>1 DEF InLight, Device
  <2> QED
    BY <1>11, <2>1, <2>2 DEF BeginRead, Begins
<1> QED
  BY <1>1, <1>2, <1>3, <1>4, <1>5, <1>6, <1>7, <1>8, <1>9, <1>10, <1>11
     DEF Next, Program

LEMMA BeginsInStep ==
    ASSUME TypeOK', Begins
    PROVE  LightIsInStep'
<1>1. Len(line') \in Nat
  BY DEF TypeOK
<1> QED
  BY <1>1 DEF Begins, LightIsInStep, PowerUp, RangeCheck, ChannelsRead, Waiting

(* A reading that would notice now would have noticed before. *)
LEMMA WouldNotice ==
    ASSUME TypeOK, LightIsInStep, InLight, Noticed', pending' = pending, lost \subseteq lost'
    PROVE  PowerUp /\ RangeCheck /\ ChannelsRead /\ pending \in {0, 1}
BY DEF LightIsInStep, Noticed

Held == PowerUp /\ RangeCheck /\ ChannelsRead

(* What a write does to the line and to the sensor *)
LEMMA LightSends ==
    ASSUME TypeOK, InPlace, InLight, Doing({"write", "command"}), line' \in Backlog,
           at' = NextStep
    PROVE  /\ at.step \in {1, 2, 4, 6, 8, 10} /\ LightStep(at.step, Op)
           /\ at'.step = at.step + 1 /\ at.wait = "no" /\ at'.wait = "no"
           /\ Waiting = 0 /\ Waiting' = 0
           /\ line' \in Seq(Answers) /\ Len(line') \in Nat /\ Len(line') <= Len(line)
           /\ line' # <<>> /\ Len(line) <= 1 => Len(line') = 1 /\ line'[1] = line[1]
<1>1. at.step <= Len(Script) /\ Sends(Op) /\ ~Reads(Op) /\ at.wait = "no"
  BY SendFacts
<1>2. at.step \in 1 .. 10 /\ LightStep(at.step, Op)
  BY <1>1, LightSteps, StepFacts
<1>3. at.step \in {1, 2, 4, 6, 8, 10}
  <2>1. at.step \notin {3, 5, 7, 9}
    BY <1>1, <1>2 DEF LightStep
  <2> QED
    BY <1>2, <2>1
<1>4. at'.step = at.step + 1 /\ at'.wait = "no"
  BY <1>1, StepMoves
<1>5. PICK n \in 0 .. Len(line) : Dropped(line', n)
  BY Backlogs DEF TypeOK
<1>6. line' \in Seq(Answers) /\ Len(line') \in Nat /\ Len(line') <= Len(line) /\ Len(line) \in Nat
  BY <1>5 DEF Dropped, TypeOK
<1>7. ASSUME line' # <<>>, Len(line) <= 1 PROVE Len(line') = 1 /\ line'[1] = line[1]
  <2>1. Len(line') > 0
    BY <1>6, <1>7
  <2>2. n = 0 /\ Len(line') = 1
    BY <1>5, <1>6, <1>7, <2>1 DEF Dropped
  <2>3. 1 \in DOMAIN line' /\ 1 + n = 1
    BY <1>6, <2>2
  <2>4. line'[1] = line[1 + n]
    BY <1>5, <2>3 DEF Dropped
  <2> QED
    BY <2>2, <2>3, <2>4
<1>8. Waiting = 0 /\ Waiting' = 0
  BY <1>1, <1>4 DEF Waiting
<1> QED
  BY <1>1, <1>2, <1>3, <1>4, <1>6, <1>7, <1>8

LEMMA LightWrites ==
    ASSUME TypeOK, InPlace, InLight, LightIsInStep, WriteData, Noticed'
    PROVE  Held'
<1>0. /\ PowerUp /\ RangeCheck /\ ChannelsRead /\ pending \in {0, 1}
      /\ pending' = pending /\ lost' = lost /\ light' = light
  BY WouldNotice DEF WriteData
<1>1. /\ at.step \in {1, 2, 4, 6, 8, 10} /\ LightStep(at.step, Op)
      /\ at'.step = at.step + 1 /\ at.wait = "no" /\ at'.wait = "no"
      /\ Waiting = 0 /\ Waiting' = 0
      /\ line' \in Seq(Answers) /\ Len(line') \in Nat /\ Len(line') <= Len(line)
      /\ line' # <<>> /\ Len(line) <= 1 => Len(line') = 1 /\ line'[1] = line[1]
  BY LightSends DEF WriteData
<1>2. light.want \in {"low", "high"} /\ Len(line) \in Nat
  BY DEF TypeOK, Lights
<1>3. /\ Answering' <=> Answering
      /\ Answering => Sensor' = Op.reg
      /\ range' = IF Answering /\ Op.reg \in {"low", "high"} THEN Op.reg ELSE range
  BY Devices7 DEF WriteData, Answering, Sensor, InLight, TypeOK
<1>4. CASE at.step = 1
  <2>1. at'.step = 2 /\ Op.do = "write" /\ Op.reg = "off"
    BY <1>1, <1>4 DEF LightStep, Write
  <2> QED
    BY <1>0, <1>1, <1>2, <1>3, <1>4, <2>1
       DEF Held, PowerUp, RangeCheck, ChannelsRead, IsChannel, Noticed
<1>5. CASE at.step = 2
  <2>1. at'.step = 3 /\ Op.do = "write" /\ Op.reg = "up"
    BY <1>1, <1>5 DEF LightStep, Write
  <2> QED
    BY <1>0, <1>1, <1>2, <1>3, <1>5, <2>1
       DEF Held, PowerUp, RangeCheck, ChannelsRead, IsChannel, Noticed
<1>6. CASE at.step = 4
  <2>1. at'.step = 5 /\ Op.do = "write" /\ Op.reg = light.want
    BY <1>1, <1>6 DEF LightStep, Write
  <2> QED
    BY <1>0, <1>1, <1>2, <1>3, <1>6, <2>1
       DEF Held, PowerUp, RangeCheck, ChannelsRead, IsChannel, Noticed
<1>7. CASE at.step = 6
  <2>1. at'.step = 7 /\ Op.do = "write" /\ Op.reg = "channel0"
    BY <1>1, <1>7 DEF LightStep, Write
  <2> QED
    BY <1>0, <1>1, <1>2, <1>3, <1>7, <2>1
       DEF Held, PowerUp, RangeCheck, ChannelsRead, IsChannel, Noticed
<1>8. CASE at.step = 8
  <2>1. at'.step = 9 /\ Op.do = "write" /\ Op.reg = "channel1"
    BY <1>1, <1>8 DEF LightStep, Write
  <2> QED
    BY <1>0, <1>1, <1>2, <1>3, <1>8, <2>1
       DEF Held, PowerUp, RangeCheck, ChannelsRead, IsChannel, Noticed
<1>9. CASE at.step = 10
  <2>1. at'.step = 11 /\ Op.do = "write" /\ Op.reg = "off"
    BY <1>1, <1>9 DEF LightStep, Write
  <2> QED
    BY <1>0, <1>1, <1>2, <1>3, <1>9, <2>1
       DEF Held, PowerUp, RangeCheck, ChannelsRead, IsChannel, Noticed
<1> QED
  BY <1>1, <1>4, <1>5, <1>6, <1>7, <1>8, <1>9

LEMMA LightLosesWrites ==
    ASSUME TypeOK, InPlace, InLight, LightIsInStep, GoesUnsent, Noticed'
    PROVE  Held'
<1>0. /\ PowerUp /\ RangeCheck /\ ChannelsRead /\ pending \in {0, 1}
      /\ pending' = pending /\ lost' = lost \cup {Op.reg} /\ light' = light
  BY WouldNotice DEF GoesUnsent
<1>1. /\ at.step \in {1, 2, 4, 6, 8, 10} /\ LightStep(at.step, Op)
      /\ at'.step = at.step + 1 /\ at.wait = "no" /\ at'.wait = "no"
      /\ Waiting = 0 /\ Waiting' = 0
      /\ line' \in Seq(Answers) /\ Len(line') \in Nat /\ Len(line') <= Len(line)
      /\ line' # <<>> /\ Len(line) <= 1 => Len(line') = 1 /\ line'[1] = line[1]
  BY LightSends DEF GoesUnsent, WriteIsLost
<1>2. light.want \in {"low", "high"} /\ Len(line) \in Nat
  BY DEF TypeOK, Lights
<1>3. /\ Answering' <=> Answering
      /\ Sensor' = Sensor
      /\ range' = range
  BY DEF GoesUnsent, WriteIsLost, Answering, Sensor
<1>4. CASE at.step = 1
  <2>1. at'.step = 2 /\ Op.do = "write" /\ Op.reg = "off"
    BY <1>1, <1>4 DEF LightStep, Write
  <2> QED
    BY <1>0, <1>1, <1>2, <1>3, <1>4, <2>1
       DEF Held, PowerUp, RangeCheck, ChannelsRead, IsChannel, Noticed
<1>5. CASE at.step = 2
  <2>1. at'.step = 3 /\ Op.do = "write" /\ Op.reg = "up"
    BY <1>1, <1>5 DEF LightStep, Write
  <2> QED
    BY <1>0, <1>1, <1>2, <1>3, <1>5, <2>1
       DEF Held, PowerUp, RangeCheck, ChannelsRead, IsChannel, Noticed
<1>6. CASE at.step = 4
  <2>1. at'.step = 5 /\ Op.do = "write" /\ Op.reg = light.want
    BY <1>1, <1>6 DEF LightStep, Write
  <2> QED
    BY <1>0, <1>1, <1>2, <1>3, <1>6, <2>1
       DEF Held, PowerUp, RangeCheck, ChannelsRead, IsChannel, Noticed
<1>7. CASE at.step = 6
  <2>1. at'.step = 7 /\ Op.do = "write" /\ Op.reg = "channel0"
    BY <1>1, <1>7 DEF LightStep, Write
  <2> QED
    BY <1>0, <1>1, <1>2, <1>3, <1>7, <2>1
       DEF Held, PowerUp, RangeCheck, ChannelsRead, IsChannel, Noticed
<1>8. CASE at.step = 8
  <2>1. at'.step = 9 /\ Op.do = "write" /\ Op.reg = "channel1"
    BY <1>1, <1>8 DEF LightStep, Write
  <2> QED
    BY <1>0, <1>1, <1>2, <1>3, <1>8, <2>1
       DEF Held, PowerUp, RangeCheck, ChannelsRead, IsChannel, Noticed
<1>9. CASE at.step = 10
  <2>1. at'.step = 11 /\ Op.do = "write" /\ Op.reg = "off"
    BY <1>1, <1>9 DEF LightStep, Write
  <2> QED
    BY <1>0, <1>1, <1>2, <1>3, <1>9, <2>1
       DEF Held, PowerUp, RangeCheck, ChannelsRead, IsChannel, Noticed
<1> QED
  BY <1>1, <1>4, <1>5, <1>6, <1>7, <1>8, <1>9

LEMMA LightAsks ==
    ASSUME TypeOK, InPlace, InLight, LightIsInStep, AskData, Noticed'
    PROVE  Held'
<1>0. /\ PowerUp /\ RangeCheck /\ ChannelsRead /\ pending \in {0, 1}
      /\ pending' = pending /\ lost' = lost /\ light' = light
  BY WouldNotice DEF AskData
<1>1. /\ at.step \in {3, 5, 7, 9} /\ at'.step = at.step
      /\ at.wait = "no" /\ at'.wait = "yes" /\ Waiting = 0 /\ Waiting' = 1
  <2>1. at.step <= Len(Script) /\ Reads(Op) /\ ~Sends(Op)
    BY AskFacts DEF AskData
  <2>2. at.step \in 1 .. 10 /\ LightStep(at.step, Op)
    BY <2>1, LightSteps, StepFacts
  <2>3. at.step \notin {1, 2, 4, 6, 8, 10}
    BY <2>1, <2>2 DEF LightStep
  <2>4. at'.step = at.step /\ at.wait = "no" /\ at'.wait = "yes"
    BY DEF AskData, TypeOK, Places
  <2> QED
    BY <2>2, <2>3, <2>4 DEF Waiting
<1>2. light.want \in {"low", "high"} /\ Len(line) \in Nat
  BY DEF TypeOK, Lights
<1>3. (Answering' <=> Answering) /\ Sensor' = Sensor /\ range' = range
  BY DEF AskData, Answering, Sensor
<1>4. PICK rest \in Backlog : line' = rest \/ \E a \in Answers : Answered(rest, a)
  BY AnswerFacts
<1>5. PICK n \in 0 .. Len(line) : Dropped(rest, n)
  BY Backlogs DEF TypeOK
<1>6. rest \in Seq(Answers) /\ Len(rest) \in Nat /\ Len(rest) <= Len(line)
  BY <1>2, <1>5 DEF Dropped
<1>7. ASSUME Len(line) <= 1, rest # <<>> PROVE Len(rest) = 1 /\ rest[1] = line[1] /\ line # <<>>
  <2>1. Len(rest) > 0
    BY <1>6, <1>7
  <2>2. n = 0 /\ Len(rest) = 1 /\ Len(line) = 1
    BY <1>2, <1>5, <1>6, <1>7, <2>1 DEF Dropped
  <2>3. 1 \in DOMAIN rest /\ 1 + n = 1
    BY <1>6, <2>2
  <2>4. rest[1] = line[1 + n]
    BY <1>5, <2>3 DEF Dropped
  <2>5. line # <<>>
    BY <2>2
  <2> QED
    BY <2>2, <2>3, <2>4, <2>5
(* The answer, if there is one *)
<1>8. ASSUME NEW a \in Answers, Answered(rest, a)
      PROVE  /\ Answering /\ a.reg = Sensor
             /\ Sensor \in {"channel0", "channel1"} => a.range = range
             /\ line' \in Seq(Answers) /\ Len(line') = Len(rest) + 1
             /\ line'[Len(line')] = a
             /\ rest = <<>> => line'[1] = a
             /\ rest # <<>> => line'[1] = rest[1]
  <2>1. Answering /\ a.reg = Sensor /\ line' = Append(rest, a) /\ a.range = AnswerRange
    BY <1>8 DEF Answered, Answering, Sensor, InLight
  <2>2. Sensor \in {"channel0", "channel1"} => a.range = range
    BY <2>1 DEF AnswerRange, Sensor, InLight
  <2>3. /\ line' \in Seq(Answers) /\ Len(line') = Len(rest) + 1
        /\ line'[Len(rest) + 1] = a
        /\ \A i \in 1 .. Len(rest) : line'[i] = rest[i]
    BY <1>6, <2>1, Added
  <2>4. rest = <<>> => Len(rest) + 1 = 1
    OBVIOUS
  <2>5. rest # <<>> => 1 \in 1 .. Len(rest)
    BY <1>6
  <2> QED
    BY <2>1, <2>2, <2>3, <2>4, <2>5
<1>9. CASE at.step = 3
  <2>1. Len(rest) <= pending
    BY <1>0, <1>1, <1>2, <1>6, <1>9 DEF PowerUp
  <2>2. CASE line' = rest
    BY <1>0, <1>1, <1>2, <1>3, <1>6, <1>9, <2>1, <2>2 DEF Held, PowerUp, RangeCheck, ChannelsRead
  <2>3. ASSUME NEW a \in Answers, Answered(rest, a) PROVE Held'
    BY <1>0, <1>1, <1>2, <1>3, <1>6, <1>8, <1>9, <2>1, <2>3
       DEF Held, PowerUp, RangeCheck, ChannelsRead
  <2> QED
    BY <1>4, <2>2, <2>3
<1>10. CASE at.step = 5
  <2>1. Len(line) <= 1 /\ (line # <<>> => line[1].reg \in {"off", "up"})
    BY <1>0, <1>1, <1>10 DEF RangeCheck
  <2>2. rest # <<>> => Len(rest) = 1 /\ rest[1].reg \in {"off", "up"}
    BY <1>7, <2>1
  <2>3. rest = <<>> => Len(rest) = 0
    OBVIOUS
  <2>4. CASE line' = rest
    BY <1>0, <1>1, <1>2, <1>3, <1>6, <1>10, <2>2, <2>3, <2>4
       DEF Held, PowerUp, RangeCheck, ChannelsRead
  <2>5. ASSUME NEW a \in Answers, Answered(rest, a) PROVE Held'
    <3>1. /\ Len(line') = Len(rest) + 1 /\ Answering /\ a.reg = Sensor
          /\ rest = <<>> => line'[1] = a
          /\ rest # <<>> => line'[1] = rest[1]
      BY <1>8, <2>5
    <3>2. \/ Sensor \in {"off", "up"}
          \/ Sensor = light.want /\ range = light.want
      BY <1>0, <1>10, <3>1 DEF RangeCheck
    <3>3. CASE rest = <<>>
      <4>1. Len(line') = 1 /\ line'[1].reg = Sensor
        BY <2>3, <3>1, <3>3
      <4>2. light' = light /\ at'.step = 5 /\ at'.wait = "yes" /\ Waiting' = 1
        BY <1>0, <1>1, <1>10
      <4>3. RangeCheck'
        <5>1. Len(line') <= 1 + Waiting'
          BY <4>1, <4>2
        <5>2. Answering' /\ line'[1].reg = Sensor'
          BY <1>3, <3>1, <4>1
        <5>3. \/ Sensor' \in {"off", "up"}
              \/ Sensor' = light'.want /\ range' = light'.want
          BY <1>3, <3>2, <4>2
        <5> QED
          BY <4>1, <4>2, <5>1, <5>2, <5>3 DEF RangeCheck
      <4> QED
        BY <4>2, <4>3 DEF Held, PowerUp, ChannelsRead
    <3>4. CASE rest # <<>>
      <4>1. Len(rest) = 1 /\ rest[1].reg \in {"off", "up"}
        BY <2>2, <3>4
      <4>2. line'[1] = rest[1]
        BY <3>1, <3>4
      <4>3. Len(line') = 2
        BY <3>1, <4>1
      <4>4. light' = light /\ at'.step = 5 /\ Waiting' = 1
        BY <1>0, <1>1, <1>10
      <4>5. RangeCheck'
        BY <1>3, <3>2, <4>1, <4>2, <4>3, <4>4 DEF RangeCheck
      <4> QED
        BY <4>4, <4>5 DEF Held, PowerUp, ChannelsRead
    <3> QED
      BY <3>3, <3>4
  <2> QED
    BY <1>4, <2>4, <2>5
<1>11. CASE at.step \in {7, 9}
  <2>1. Len(line) = 0
    BY <1>0, <1>1, <1>2, <1>11 DEF ChannelsRead
  <2>2. rest = <<>> /\ Len(rest) = 0
    <3>1. Len(rest) = 0
      BY <1>6, <2>1
    <3> QED
      BY <1>6, <3>1
  <2>3. CASE line' = rest
    BY <1>0, <1>1, <1>2, <1>3, <1>11, <2>2, <2>3
       DEF Held, PowerUp, RangeCheck, ChannelsRead, IsChannel
  <2>4. ASSUME NEW a \in Answers, Answered(rest, a) PROVE Held'
    <3>1. /\ Answering /\ a.reg = Sensor /\ Len(line') = 1 /\ line'[1] = a
          /\ Sensor \in {"channel0", "channel1"} => a.range = range
      BY <1>8, <2>2, <2>4
    <3>2. /\ range = light.want
          /\ Sensor \in {"low", "high", "channel0", "channel1"}
          /\ at.step = 7 => Sensor = "channel0" \/ "channel0" \in lost
          /\ at.step = 9 => Sensor = "channel1" \/ "channel1" \in lost
          /\ at.step = 9 => IsChannel(light.channel0, "channel0")
      BY <1>0, <1>2, <1>11, <3>1 DEF ChannelsRead
    <3>3. CASE at.step = 7
      BY <1>0, <1>1, <1>2, <1>3, <3>1, <3>2, <3>3
         DEF Held, PowerUp, RangeCheck, ChannelsRead, IsChannel
    <3>4. CASE at.step = 9
      BY <1>0, <1>1, <1>2, <1>3, <3>1, <3>2, <3>4
         DEF Held, PowerUp, RangeCheck, ChannelsRead, IsChannel
    <3> QED
      BY <1>11, <3>3, <3>4
  <2> QED
    BY <1>4, <2>3, <2>4
<1> QED
  BY <1>1, <1>9, <1>10, <1>11

(* What the read of an answer does to the line *)
LEMMA LightTakes ==
    ASSUME TypeOK, InPlace, InLight, NEW n, Takes(n)
    PROVE  /\ at.step \in {3, 5, 7, 9} /\ LightStep(at.step, Op)
           /\ at.wait = "yes" /\ Waiting = 1
           /\ n \in 1 .. Len(line) /\ Len(line) \in Nat
           /\ line' \in Seq(Answers) /\ Len(line') = Len(line) - n
           /\ Len(line) = 2 /\ n = 1 => line'[1] = line[2]
           /\ Len(line) = 2 \/ Len(line) < 2 \/ Len(line) > 2
<1>1. /\ n \in 1 .. Len(line) /\ Dropped(line', n)
      /\ at.step <= Len(Script) /\ Reads(Op) /\ ~Sends(Op) /\ at.wait = "yes"
  BY TakeFacts
<1>2. at.step \in 1 .. 10 /\ LightStep(at.step, Op)
  BY <1>1, LightSteps, StepFacts
<1>3. at.step \notin {1, 2, 4, 6, 8, 10}
  BY <1>1, <1>2 DEF LightStep
<1>4. Len(line) \in Nat
  BY DEF TypeOK
<1>5. line' \in Seq(Answers) /\ Len(line') = Len(line) - n
  BY <1>1 DEF Dropped
<1>6. ASSUME Len(line) = 2, n = 1 PROVE line'[1] = line[2]
  <2>1. 1 \in DOMAIN line' /\ 1 + n = 2
    BY <1>5, <1>6
  <2>2. line'[1] = line[1 + n]
    BY <1>1, <2>1 DEF Dropped
  <2> QED
    BY <2>1, <2>2
<1> QED
  BY <1>1, <1>2, <1>3, <1>4, <1>5, <1>6 DEF Waiting

LEMMA LightChecks ==
    ASSUME TypeOK, InPlace, InLight, LightIsInStep, RightAnswer, Noticed'
    PROVE  Held'
<1>0. /\ PowerUp /\ RangeCheck /\ ChannelsRead /\ pending \in {0, 1}
      /\ pending' = pending /\ lost' = lost /\ light' = light
  BY WouldNotice DEF RightAnswer
<1>1. PICK n \in 1 .. Len(line) : Takes(n) /\ Passes(n) /\ ~(at.step > Channels)
  BY DEF RightAnswer
<1>2. /\ at.step \in {3, 5} /\ LightStep(at.step, Op)
      /\ at.wait = "yes" /\ Waiting = 1 /\ Len(line) \in Nat
      /\ line' \in Seq(Answers) /\ Len(line') = Len(line) - n
      /\ Len(line) = 2 /\ n = 1 => line'[1] = line[2]
  BY <1>1, LightTakes DEF Channels
<1>3. at'.step = at.step + 1 /\ at'.wait = "no" /\ Waiting' = 0
  <2>1. at' = NextStep /\ at.step <= Len(Script)
    BY <1>1, TakeFacts DEF RightAnswer
  <2> QED
    BY <2>1, StepMoves DEF Waiting
<1>4. (Answering' <=> Answering) /\ Sensor' = Sensor /\ range' = range
  BY DEF RightAnswer, Answering, Sensor
<1>5. light.want \in {"low", "high"}
  BY DEF TypeOK, Lights
<1>6. CASE at.step = 3
  <2>1. n = 1 /\ line[1].reg = "up"
    <3>1. Op = Read(1, {"up"})
      BY <1>2, <1>6 DEF LightStep
    <3>2. Op.do = "read" /\ Op.want = {"up"}
      BY <3>1 DEF Read
    <3> QED
      BY <1>1, <3>2 DEF Passes
  <2>2. Len(line) = 1 \/ Len(line) = 2
    <3>1. Len(line) >= 1 /\ Len(line) \in Nat
      BY <1>2
    <3>2. Len(line) <= pending + 1
      BY <1>0, <1>2, <1>6 DEF PowerUp
    <3>3. pending \in {0, 1}
      BY <1>0
    <3>4. Len(line) <= 2
      BY <3>1, <3>2, <3>3
    <3>5. \A x \in Nat : x >= 1 /\ x <= 2 => x = 1 \/ x = 2
      OBVIOUS
    <3> QED
      BY <3>1, <3>4, <3>5
  <2>3. ASSUME Answering PROVE Sensor \in {"off", "up"}
    <3>1. CASE pending = 1
      BY <1>0, <1>6, <2>3, <3>1 DEF PowerUp
    <3>2. CASE pending = 0
      <4>1. Len(line) = pending + 1
        BY <1>0, <1>2, <1>6, <2>2, <3>2 DEF PowerUp
      <4> QED
        BY <1>0, <1>2, <1>6, <2>1, <3>2, <4>1 DEF PowerUp
    <3> QED
      BY <1>0, <3>1, <3>2
  <2>4. ASSUME Len(line) = 2 PROVE Answering /\ line'[1].reg \in {"off", "up"}
    <3>1. pending = 1 /\ Len(line) = pending + 1
      BY <1>0, <1>2, <1>6, <2>4 DEF PowerUp
    <3> QED
      BY <1>0, <1>2, <1>6, <2>1, <2>3, <2>4, <3>1 DEF PowerUp
  <2>5. Len(line) = 1 => line' = <<>>
    BY <1>2, <2>1
  <2>6. Len(line') <= 1
    BY <1>2, <2>1, <2>2
  <2> QED
    BY <1>3, <1>4, <1>6, <2>2, <2>3, <2>4, <2>5, <2>6 DEF Held, PowerUp, RangeCheck, ChannelsRead
<1>7. CASE at.step = 5
  <2>1. n = 1 /\ line[1].reg \in {"low", "high"} /\ line # <<>>
    <3>1. Op = Read(1, {"low", "high"})
      BY <1>2, <1>7 DEF LightStep
    <3>2. Op.do = "read" /\ Op.want = {"low", "high"}
      BY <3>1 DEF Read
    <3>3. line # <<>>
      BY <1>2
    <3> QED
      BY <1>1, <3>2, <3>3 DEF Passes
  <2>2. Len(line) = 1 /\ Answering /\ line[1].reg = Sensor
    BY <1>0, <1>7, <2>1 DEF RangeCheck
  <2>3. Sensor = light.want /\ range = light.want
    BY <1>0, <1>7, <2>1, <2>2 DEF RangeCheck
  <2>4. Len(line') = 0
    BY <1>2, <2>1, <2>2
  <2> QED
    BY <1>3, <1>4, <1>0, <1>7, <2>3, <2>4 DEF Held, PowerUp, RangeCheck, ChannelsRead
<1> QED
  BY <1>2, <1>6, <1>7

(* What is known at the channels *)
LEMMA ChannelFacts ==
    ASSUME TypeOK, InPlace, InLight, LightIsInStep, Noticed,
           at.step \in {7, 9}, Takes(1)
    PROVE  /\ ChannelsRead /\ Len(line) = 1 /\ Len(line') = 0
           /\ at.step = 7 => IsChannel(line[1], "channel0")
           /\ at.step = 9 =>
                 /\ IsChannel(light.channel0, "channel0")
                 /\ IsChannel(line[1], "channel1")
<1>1. /\ Waiting = 1 /\ 1 \in 1 .. Len(line) /\ Len(line) \in Nat
      /\ Len(line') = Len(line) - 1
  BY LightTakes
<1>2. ChannelsRead
  BY DEF LightIsInStep
<1>3. Len(line) = 1 /\ line # <<>>
  BY <1>1, <1>2 DEF ChannelsRead
<1> QED
  BY <1>1, <1>2, <1>3 DEF ChannelsRead

LEMMA LightReadsChannels ==
    ASSUME TypeOK, InPlace, InLight, LightIsInStep, Noticed', Channel0 \/ ReadAgain \/ Measured
    PROVE  Held'
<1>0. pending' = pending /\ lost' = lost /\ Noticed /\ range' = range
  BY DEF Channel0, ReadAgain, Measured, Noticed
<1>1. (Answering' <=> Answering) /\ Sensor' = Sensor
  BY DEF Channel0, ReadAgain, Measured, Answering, Sensor
<1>2. light \in Lights /\ light.want \in {"low", "high"}
  BY DEF TypeOK, Lights
<1>3. light'.want = light.want
  BY <1>2 DEF Channel0, ReadAgain, Measured, Lights
<1>4. Takes(1) /\ at.step \in {7, 9} /\ at.step <= Len(Script)
  BY TakeFacts DEF Channel0, ReadAgain, Measured, TakesChannel1, Channels
<1>5. ChannelsRead /\ Len(line) = 1 /\ Len(line') = 0
  BY <1>0, <1>4, ChannelFacts
<1>6. CASE Channel0
  <2>1. at.step = 7 /\ light'.channel0 = line[1]
    BY <1>2, <1>6 DEF Channel0, Channels, Lights
  <2>2. at'.step = 8 /\ at'.wait = "no" /\ Waiting' = 0
    BY <1>4, <1>6, <2>1, StepMoves DEF Channel0, Waiting
  <2>3. IsChannel(line[1], "channel0")
    BY <1>0, <1>4, <2>1, ChannelFacts
  <2> QED
    BY <1>0, <1>1, <1>3, <1>5, <2>1, <2>2, <2>3
       DEF Held, PowerUp, RangeCheck, ChannelsRead, IsChannel
<1>7. CASE ReadAgain \/ Measured
  <2>1. at.step = 9
    BY <1>7 DEF ReadAgain, Measured, TakesChannel1, Channels
  <2>2. CASE at' = NextStep
    <3>1. at'.step = 10
      BY <1>4, <2>1, <2>2, StepMoves
    <3> QED
      BY <3>1 DEF Held, PowerUp, RangeCheck, ChannelsRead
  <2>3. CASE at' = [at EXCEPT !.step = Channels, !.wait = "no"]
    <3>1. at'.step = 6 /\ at'.wait = "no"
      BY <2>3 DEF TypeOK, Places, Channels
    <3>2. Waiting' = 0
      BY <3>1 DEF Waiting
    <3> QED
      BY <1>0, <1>1, <1>3, <1>5, <2>1, <3>1, <3>2 DEF Held, PowerUp, RangeCheck, ChannelsRead
  <2> QED
    BY <1>7, <2>2, <2>3 DEF ReadAgain, Measured
<1> QED
  BY <1>6, <1>7

(* The reading stays in step. *)
LEMMA InStepStep ==
    /\ TypeOK /\ InPlace /\ LightIsClean /\ LightIsInStep /\ TypeOK'
    /\ [Next]_vars
    => LightIsInStep'
<1> SUFFICES ASSUME TypeOK, InPlace, LightIsClean, LightIsInStep, TypeOK', [Next]_vars,
                    InLight', Noticed'
             PROVE  Held'
  BY DEF LightIsInStep, Held
<1>1. CASE Begins
  BY <1>1, BeginsInStep DEF LightIsInStep, Held
<1>2. CASE InLight /\ WriteData
  BY <1>2, LightWrites
<1>3. CASE InLight /\ GoesUnsent
  BY <1>3, LightLosesWrites
<1>4. CASE InLight /\ AskData
  BY <1>4, LightAsks
<1>5. CASE InLight /\ RightAnswer
  BY <1>5, LightChecks
<1>6. CASE InLight /\ (Channel0 \/ ReadAgain \/ Measured)
  BY <1>6, LightReadsChannels
<1>7. CASE UNCHANGED vars
  <2>1. InLight /\ Noticed
    BY <1>7 DEF vars, InLight, Device, Noticed
  <2>2. Held
    BY <2>1 DEF LightIsInStep, Held
  <2> QED
    BY <1>7, <2>2
       DEF vars, Held, PowerUp, RangeCheck, ChannelsRead, IsChannel, Sensor, Answering, Waiting
<1> QED
  BY <1>1, <1>2, <1>3, <1>4, <1>5, <1>6, <1>7, LightBefore

-----------------------------------------------------------------------------
(* The invariant *)

LEMMA InitInvariant == Init => IInv
<1> SUFFICES ASSUME Init PROVE IInv
  OBVIOUS
<1> USE DEF Init
<1>1. /\ at \in Places /\ at.phase = "probe" /\ at.dev = 1 /\ at.step = 1 /\ at.wait = "no"
  BY IdleFacts DEF Places
<1>2. ~InLight
  BY <1>1 DEF InLight
<1>3. Device = "atmel2" /\ Device \in Devices
  BY <1>1, Devices7 DEF Device
<1>4. TypeOK
  <2>1. present \in Buses /\ "start" \in Registers
    BY DEF Registers, Names
  <2>2. light \in Lights
    BY UnreadFacts
  <2>3. controls \in [Atmels -> [Kinds -> Answers \cup {None}]]
    OBVIOUS
  <2>4. faults \in 0 .. MaxFaults
    BY CountAssumption
  <2> QED
    BY <1>1, <2>1, <2>2, <2>3, <2>4 DEF TypeOK
<1>5. InPlace /\ LateIsKnown /\ FoundIsThere
  BY <1>1 DEF InPlace, LateIsKnown, FoundIsThere
<1>6. OwnRegisters
  BY OwnSelections DEF OwnRegisters
<1>7. NotFooled
  BY <1>1, <1>3, TablesOfDevices DEF NotFooled, Atmels
<1>8. FirstAtmel /\ SecondAtmel /\ Commanded
  BY <1>1 DEF FirstAtmel, SecondAtmel, Commanded
<1>9. ControlsAreOwn
  BY DEF ControlsAreOwn
<1>10. LightIsClean /\ LightIsInStep
  BY <1>2 DEF LightIsClean, LightIsInStep
<1> QED
  BY <1>4, <1>5, <1>6, <1>7, <1>8, <1>9, <1>10 DEF IInv

LEMMA StepInvariant == IInv /\ [Next]_vars => IInv'
<1> SUFFICES ASSUME IInv, [Next]_vars PROVE IInv'
  OBVIOUS
<1> USE DEF IInv
<1>1. TypeOK' /\ InPlace' /\ OwnRegisters'
  BY TypeStep, InPlaceStep, OwnRegistersStep
<1>2. LateIsKnown'
  BY LateStep
<1>3. NotFooled' /\ FoundIsThere'
  BY <1>1, NotFooledStep, FoundStep
<1>4. FirstAtmel' /\ SecondAtmel'
  BY FirstAtmelStep, SecondAtmelStep
<1>5. Commanded' /\ ControlsAreOwn'
  BY <1>1, <1>2, CommandedStep, ControlsStep
<1>6. LightIsClean' /\ LightIsInStep'
  BY <1>1, CleanStep, InStepStep
<1> QED
  BY <1>1, <1>2, <1>3, <1>4, <1>5, <1>6

(* Whatever is lost or late, the invariant holds. *)
THEOREM Invariant == Spec => []IInv
<1>1. Init => IInv
  BY InitInvariant
<1>2. IInv /\ [Next]_vars => IInv'
  BY StepInvariant
<1> QED
  BY <1>1, <1>2, PTL DEF Spec

(* Everything stays what it is: no script is left at its end, the readings *)
(* of the channels are counted down to nothing and no further.             *)
THEOREM TypeCorrect == Spec => []TypeOK
<1>1. IInv => TypeOK
  BY DEF IInv
<1> QED
  BY <1>1, Invariant, PTL

(* probe_single_device registers a device only where there is one, but for *)
(* the second Atmel and the Digipicco after answers that were late.        *)
THEOREM FoundAreThere == Spec => []FoundIsThere
<1>1. IInv => FoundIsThere
  BY DEF IInv
<1> QED
  BY <1>1, Invariant, PTL

(* DeviceAtmel::find_controls() makes the controls of a board from answers *)
(* of that board, and of a kind from the answer about it unless one was    *)
(* late.                                                                   *)
THEOREM ControlsAreTheirOwn == Spec => []ControlsAreOwn
<1>1. IInv => ControlsAreOwn
  BY DEF IInv
<1> QED
  BY <1>1, Invariant, PTL

(* What a reading that would notice has for its channels                   *)
LEMMA MeasuredFacts ==
    ASSUME IInv, Measured, Noticed
    PROVE  /\ IsChannel(light.channel0, "channel0") /\ IsChannel(line[1], "channel1")
           /\ light.channel0.reg \in {"channel0", "channel1"}
           /\ line[1].reg \in {"channel0", "channel1"}
<1>1. InLight /\ at.step = 9 /\ Takes(1)
  BY DEF Measured, TakesChannel1, Channels
<1>2. IsChannel(light.channel0, "channel0") /\ IsChannel(line[1], "channel1")
  BY <1>1, ChannelFacts DEF IInv
<1>3. Count(light.channel0) = "count" /\ Count(line[1]) = "count"
  BY DEF Measured, Both
<1> QED
  BY <1>2, <1>3 DEF IsChannel, Count

(* A lux value is made from the first and the second channel, in this      *)
(* order, if no write that selects a channel was lost, even if an answer   *)
(* that had been given up was still on its way.                            *)
THEOREM LuxValuesAreMeasured == Spec => LuxIsMeasured
<1>1. IInv => [Measured /\ Noticed /\ lost \cap {"channel0", "channel1"} = {} =>
                  light.channel0.reg = "channel0" /\ line[1].reg = "channel1"]_vars
  BY MeasuredFacts DEF IsChannel
<1> QED
  BY <1>1, Invariant, PTL DEF LuxIsMeasured

(* Both channels are measured in the range whose multiplier is used.       *)
THEOREM RangesAreRight == Spec => RangeIsRight
<1>1. IInv => [Measured /\ Noticed =>
                  light.channel0.range = light.want /\ line[1].range = light.want]_vars
  BY MeasuredFacts DEF IsChannel
<1> QED
  BY <1>1, Invariant, PTL DEF RangeIsRight
=============================================================================
