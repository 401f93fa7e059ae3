------------------------------- MODULE Startup -------------------------------
(***************************************************************************)
(* How a generation of iocd finds its hardware: class Interfaces opens and *)
(* registers one interface of each kind, each interface probes for its     *)
(* devices, main drops the interfaces without devices and compares what is *)
(* left with option -r.  It is the part of module Daemon between           *)
(* "construct" and "start4", over all generations of the process.          *)
(*                                                                         *)
(* The ELV adapter is a serial line that is opened exclusively (TIOCEXCL)  *)
(* and that ~InterfaceELV does not close; a process without privileges     *)
(* cannot open such a line again.  USB devices are released by             *)
(* ~InterfaceUSBrawPrivateData.                                            *)
(***************************************************************************)
EXTENDS Integers, FiniteSets, FiniteSetsExt

VARIABLES
    hardware,   \* "flaky": it may be missing, refuse or fail at any time
    pc,         \* what main does next
    privileged, \* "yes" for root in the foreground; "no" after setresuid
    required,   \* option -r
    enumerator, \* Interfaces::enumerator: the next interface id
    registry,   \* Interfaces::interfaces: the ids of the registered ones
    number,     \* Interface::enumerator of each interface
    devices,    \* its devices: pairs of a probe and the device number given
    probe,      \* the next probe of the interface being probed
    it,         \* the iterator of main's first loop
    elvfd,      \* "held" while a descriptor of the ELV line is open
    answered    \* history: the probes a device answered in this generation

given == <<hardware, privileged, required>>
vars  == <<given, pc, enumerator, registry, number, devices,
          probe, it, elvfd, answered>>

(* The interfaces in the order of probe_interfaces(), with the number of   *)
(* probe_single_device calls of each.                                      *)
Elv    == 1
Usb    == 2
Ids    == {Elv, Usb}
End    == 3
Probes == <<7, 3>>

TypeOK ==
    /\ hardware \in {"flaky", "works"}
    /\ pc \in {"construct", "open", "probe", "prune", "list", "serve", "unwind"}
    /\ privileged \in {"yes", "no"}
    /\ required \in 0 .. 2
    /\ enumerator \in 1 .. End
    /\ registry \subseteq Ids
    /\ number \in [Ids -> 1 .. 8]
    /\ \A i \in Ids : devices[i] \subseteq (1 .. Probes[i]) \X (1 .. Probes[i])
    /\ probe \in 1 .. 8
    /\ it \in Ids \cup {End}
    /\ elvfd \in {"none", "held"}
    /\ answered \subseteq Ids \X (1 .. 7)

-----------------------------------------------------------------------------
(* Interfaces::Interfaces *)

NewInterfaces_KeepsEnumerator ==
    /\ pc = "construct"
    /\ pc' = "open"
    /\ registry' = {}
    /\ number' = [i \in Ids |-> 1]
    /\ devices' = [i \in Ids |-> {}]
    /\ answered' = {}
    /\ UNCHANGED <<given, enumerator, probe, it, elvfd>>

NewInterfaces ==
    /\ pc = "construct"
    /\ pc' = "open"
    /\ enumerator' = 1
    /\ registry' = {}
    /\ number' = [i \in Ids |-> 1]
    /\ devices' = [i \in Ids |-> {}]
    /\ answered' = {}
    /\ UNCHANGED <<given, probe, it, elvfd>>

(* An exclusively opened line can be opened again only with privileges. *)
CanOpen_Shared(i) == TRUE
CanOpen(i) == i = Elv => elvfd = "none" \/ privileged = "yes"

(* probe_interface_0 and _1: the interface is registered before it is      *)
(* probed, because a device finds its interface through the registry.      *)
Register_Late(i) == UNCHANGED registry
Register(i) == registry' = registry \cup {i}

OpenInterface ==
    /\ pc = "open"
    /\ enumerator \in Ids
    /\ CanOpen(enumerator)
    /\ Register(enumerator)
    /\ elvfd' = IF enumerator = Elv THEN "held" ELSE elvfd
    /\ pc' = "probe"
    /\ probe' = 1
    /\ UNCHANGED <<given, enumerator, number, devices, it, answered>>

(* InterfaceELV::open closes the line on every error after ::open.         *)
OpenFails ==
    /\ pc = "open"
    /\ enumerator \in Ids
    /\ hardware = "flaky" \/ ~CanOpen(enumerator)
    /\ enumerator' = enumerator + 1
    /\ UNCHANGED <<given, pc, registry, number, devices, probe,
                   it, elvfd, answered>>

(* Device::parent(), which every device that talks on construction calls *)
ParentFound(i) == i \in registry

ProbesLeft_OneMore == probe <= Probes[enumerator] + 1
ProbesLeft == probe <= Probes[enumerator]

(* enumerator++ in the argument of the device's constructor *)
TakeNumber_Skip == UNCHANGED number
TakeNumber == number' = [number EXCEPT ![enumerator] = @ + 1]

(* probe_single_device with a device that is there and accepts *)
DeviceFound ==
    /\ pc = "probe"
    /\ ProbesLeft
    /\ answered' = answered \cup {<<enumerator, probe>>}
    /\ devices' = IF ParentFound(enumerator)
                  THEN [devices EXCEPT ![enumerator] = @ \cup {<<probe, number[enumerator]>>}]
                  ELSE devices
    /\ TakeNumber
    /\ probe' = probe + 1
    /\ UNCHANGED <<given, pc, enumerator, registry, it, elvfd>>

(* The constructor of the device throws: its number is used up. *)
DeviceRefuses ==
    /\ pc = "probe"
    /\ hardware = "flaky"
    /\ ProbesLeft
    /\ TakeNumber
    /\ probe' = probe + 1
    /\ UNCHANGED <<given, pc, enumerator, registry, devices, it,
                   elvfd, answered>>

(* The USB bus has no such device, or it cannot be opened or claimed: no   *)
(* device object is constructed and no number is used.                     *)
DeviceAbsent ==
    /\ pc = "probe"
    /\ hardware = "flaky"
    /\ enumerator = Usb
    /\ ProbesLeft
    /\ probe' = probe + 1
    /\ UNCHANGED <<given, pc, enumerator, registry, number, devices,
                   it, elvfd, answered>>

ProbesDone ==
    /\ pc = "probe"
    /\ ~ProbesLeft
    /\ pc' = "open"
    /\ enumerator' = enumerator + 1
    /\ UNCHANGED <<given, registry, number, devices, probe, it,
                   elvfd, answered>>

-----------------------------------------------------------------------------
(* main *)

First(reg)   == Min(reg \cup {End})
After(reg, i) == Min({j \in reg : j > i} \cup {End})

Constructed ==
    /\ pc = "open"
    /\ enumerator = End
    /\ pc' = "prune"
    /\ it' = First(registry)
    /\ UNCHANGED <<given, enumerator, registry, number, devices,
                   probe, elvfd, answered>>

PruneKeep ==
    /\ pc = "prune"
    /\ it # End
    /\ devices[it] # {}
    /\ it' = After(registry, it)
    /\ UNCHANGED <<given, pc, enumerator, registry, number, devices,
                   probe, elvfd, answered>>

(* remove, then begin() again, and then the ++ of the loop *)
PruneRemove_Rest ==
    /\ pc = "prune"
    /\ it # End
    /\ devices[it] = {}
    /\ registry' = {i \in registry : i < it}
    /\ it' = End
    /\ UNCHANGED <<given, pc, enumerator, number, devices, probe,
                   elvfd, answered>>

PruneRemove ==
    /\ pc = "prune"
    /\ it # End
    /\ devices[it] = {}
    /\ registry' = registry \ {it}
    /\ it' = After(registry', First(registry'))
    /\ UNCHANGED <<given, pc, enumerator, number, devices, probe,
                   elvfd, answered>>

Pruned ==
    /\ pc = "prune"
    /\ it = End
    /\ pc' = "list"
    /\ UNCHANGED <<given, enumerator, registry, number, devices,
                   probe, it, elvfd, answered>>

Enough_OffByOne == Cardinality(registry) + 1 >= required
Enough == Cardinality(registry) >= required

(* The listing read every control, and -r is satisfied. *)
Serve ==
    /\ pc = "list"
    /\ Enough
    /\ pc' = "serve"
    /\ UNCHANGED <<given, enumerator, registry, number, devices,
                   probe, it, elvfd, answered>>

(* Too few interfaces, or a control that cannot be read. *)
GiveUp ==
    /\ pc = "list"
    /\ hardware = "flaky" \/ ~Enough
    /\ pc' = "unwind"
    /\ UNCHANGED <<given, enumerator, registry, number, devices,
                   probe, it, elvfd, answered>>

(* A restart: asked for by a user, or after a major error. *)
Restart ==
    /\ pc = "serve"
    /\ pc' = "unwind"
    /\ UNCHANGED <<given, enumerator, registry, number, devices,
                   probe, it, elvfd, answered>>

(* ~Interfaces deletes every registered interface.  Neither that nor       *)
(* remove() closes the ELV line.                                           *)
Unwind ==
    /\ pc = "unwind"
    /\ pc' = "construct"
    /\ registry' = {}
    /\ devices' = [i \in Ids |-> {}]
    /\ answered' = {}
    /\ UNCHANGED <<given, enumerator, number, probe, it, elvfd>>

(* Whoever looks after the hardware has mended it. *)
Mended ==
    /\ hardware = "flaky"
    /\ hardware' = "works"
    /\ UNCHANGED <<pc, privileged, required, enumerator, registry, number, devices,
                   probe, it, elvfd, answered>>

-----------------------------------------------------------------------------
Init ==
    /\ hardware \in {"flaky", "works"}
    /\ pc = "construct"
    /\ privileged \in {"yes", "no"}
    /\ required \in 0 .. 2
    /\ enumerator = 1
    /\ registry = {}
    /\ number = [i \in Ids |-> 1]
    /\ devices = [i \in Ids |-> {}]
    /\ probe = 1
    /\ it = End
    /\ elvfd = "none"
    /\ answered = {}

Step ==
    \/ NewInterfaces \/ OpenInterface \/ OpenFails
    \/ DeviceFound \/ DeviceRefuses \/ DeviceAbsent \/ ProbesDone
    \/ Constructed \/ PruneKeep \/ PruneRemove \/ Pruned
    \/ Serve \/ GiveUp \/ Unwind

Next == Step \/ Restart \/ Mended

Spec == Init /\ [][Next]_vars

(* main runs; nobody has to ask for a restart or mend the hardware. *)
FairSpec == Spec /\ WF_vars(Step)

-----------------------------------------------------------------------------
(* Properties *)

(* Every device that answered a probe is registered: its constructor found *)
(* its interface in the registry.                                          *)
AnsweredAreRegistered ==
    \A i \in Ids : {d[1] : d \in devices[i]} = {a[2] : a \in {b \in answered : b[1] = i}}

(* Two devices of an interface never share an id, so an id a client holds  *)
(* means one device; and on the ELV bus the id of a device does not depend *)
(* on which other devices answer, so it stays good over a restart.         *)
IdsSound ==
    /\ \A i \in Ids : \A d, e \in devices[i] : d[2] = e[2] => d = e
    /\ \A d \in devices[Elv] : d[1] = d[2]

(* No device that answered is lost on the way from its probe to the server: *)
(* whatever failed around it, and whatever the loop of main removed and     *)
(* however it went on after that, a request that names the device finds its *)
(* interface, and the device in it.                                         *)
AnsweredAreServed ==
    pc = "serve" =>
        \A a \in answered : a[1] \in registry /\ \E d \in devices[a[1]] : d[1] = a[2]

(* What the loop leaves: at most one interface without devices, and only   *)
(* as the first one.  So a daemon that serves with option -r N has at      *)
(* least N - 1 interfaces that are of any use.                             *)
ServesWithDevices ==
    pc \in {"list", "serve"} =>
        /\ \A i \in registry : devices[i] = {} => i = Min(registry)
        /\ pc = "serve" => Cardinality({i \in registry : devices[i] # {}}) >= required - 1

(* Once an unprivileged daemon has given up a generation in which it had   *)
(* the ELV line, no later generation gets the ELV interface back.          *)
ElvIsLost ==
    [](privileged = "no" /\ elvfd = "held" /\ pc = "construct" => [](Elv \notin registry))

(* Once the hardware works, a daemon that can open its lines again, or     *)
(* that needs no more than the USB interface, gets back to serving however *)
(* many generations it gave up before, and after every restart.            *)
KeepsServing ==
    <>(hardware = "works") /\ (privileged = "yes" \/ required <= 1) => []<>(pc = "serve")
=============================================================================
