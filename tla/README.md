# Verification of iocd

iocd is a daemon that reads and writes I/O hardware (an I2C bus behind an ELV
serial adapter, Velleman K8055 USB cards) on request of web clients. This
directory has TLA+ models of it, TLC configurations that check them and proofs
for TLAPS.

## The system

| part | state | operations | talks to |
|---|---|---|---|
| main loop (`iocd.cpp`) | generation of objects, `waitval`, options | construct, prune, list, serve, decide, unwind | everything, by construction and destruction |
| `Interfaces` (`interfaces.cpp`) | registry id -> interface; mailbox `signal_value` with mutex and condition; `instance` | probe, remove, clear, find; `wait`, `signal`; SIGINT/SIGQUIT handlers | main, handlers and connection threads share the mailbox |
| `HttpServer` (`http_server.cpp`, `http_page.cpp`) | two MHD daemons (IPv4, IPv6), dispatch table, per-connection POST data | start, stop and join, dispatch, eleven pages | calls controls on connection threads, calls `signal` |
| `InterfaceELV` (`interface_elv.cpp`) | exclusive serial line, device numbers | open, probe 7 devices, `write_raw`/`read_raw`, `write_data`/`read_data` | the adapter; no lock |
| `InterfaceUSBraw` (`interface_usbraw.cpp`) | claimed USB devices, `Interface::mutex` | probe 3 devices, one locked transfer per call | libusb |
| `DeviceK8055` | shadow of all outputs, last inputs and counters | read, write, readcounter, readresetcounter | USB transfers |
| `DeviceAtmel` | model, version | one command, one checked reply; two ADC protocols | ELV line |
| `DeviceTSL2550`, `DeviceDigipicco` | - (the light sensor itself: power, range) | retried multi-step reads | ELV line |
| `DeviceDS1621`, `DeviceDS1731`, `DeviceTMP275` | - | select a register, read it | ELV line |
| `Device`, `Devices`, `Control`, `Controls`, `ID`, `Util` | maps, constants | lookup, forwarding, formatting | - |

What is hard in it:

* Threads. libmicrohttpd runs each connection on a thread of its own; the Unix
  signal handlers run on the main thread on top of whatever it does; all meet in
  a mailbox of one value whose `wait()` has no predicate. Devices are used by
  several threads, only single USB transfers are locked.
* Life cycles. A generation is built and torn down at every restart, inside one
  process: handlers, MHD daemons, devices and descriptors must go in the right
  order, also when a constructor throws half way.
* Hardware. Every probe and every transfer may fail, late answers may come after
  their timeout, and the K8055 can be neither read back nor read without delay.

What makes each part correct:

* main and mailbox: nobody uses a destroyed object; the mutex is held by who is
  between lock and unlock; a decision was asked for in its own generation; a
  wakeup is acted on and requests end, unless a `::read` of the ELV line hangs for good.
* startup: what answered a probe is registered under an id of its own, and a request
  that names it finds it; a daemon with working hardware serves again.
* K8055: a write that ran alone leaves card and shadow equal; no output takes a
  value nobody asked for; no pulse is counted twice or lost unnoticed.
* Atmel: a call that does not overlap others and has nothing on its way is exact, or
  fails; one late reply does not make an analog value one of another number (it may be
  the same number of the other board); pulses are accounted for.
* sensors: what is registered is there; controls are made from answers about them; a
  lux value is made from both channels in the right range; every retry ends.
* ids: the three levels of maps find what is in them, and nothing else.
* ELV bus: an answer belongs to the request it is returned for, as long as one
  thread uses the bus, and is of the register the read selects if it could select it;
  nothing but another thread makes a read wait for ever.
* requests: the control operation is the one the request asked for, the status
  tells its outcome, and main is signalled for major errors only.

## Modules

### Supervisor and Daemon

`Supervisor` is what main promises, without threads: generation after
generation is asked things (quit, restart, ...), chooses one of the things asked
of it, lets the requests in progress finish, and gives way to the next
generation or to the end of the process.

`Daemon` is the code: the main thread (`pc`) from the construction of
`Interfaces` to its destruction, `Interfaces::wait` in five steps (lock, enter
`pthread_cond_wait`, blocked, woken, read), the two Unix signals with
disposition and handler frame, the two MHD daemons with state down / up /
draining / leaked, and any number of connection threads (`Conn`) that come in
through one of them.

| code | actions |
|---|---|
| `Interfaces::Interfaces` | `Construct` |
| probing, listing, `-o`, `-r` | `Listed`, `ListThrows`, `ListOneshot`, `Insufficient` |
| `HttpServer::HttpServer` | `StartV4`, `StartV4Fails`, `StartV6`, `StartV6Fails` |
| `Interfaces::wait` | `WaitLock`, `CondWait`, `SpuriousWakeup`, `Reacquire`, `ReadValue` |
| `HttpServer::~HttpServer` | `StopV6`, `JoinV6`, `StopV4`, `JoinV4` |
| the ifs after `wait()` and the catch clauses | `Decide` |
| `Interfaces::~Interfaces` | `Destroy` |
| `access_handler_callback`, `access_handler`, quit and restart pages | `Accept`, `Answer`, `CallSignal`, `SignalLock`, `SignalPublish`, `Reply`, `Abort` |
| a page on the ELV line, in `::read` (`interface_elv.cpp` 264-286, 321-322) | `InputTaken`, `InputComes` |
| threads of a leaked IPv4 daemon | `StaleCrash`, `StaleEnd` |
| `sigint`, `sigquit` | `Catch`, `HandlerLock`, `HandlerPublish`; `Kill` with SIG_DFL |

The mutex is acquired when it is free, in any order of the waiters. A leaked
daemon's threads hold pointers to freed objects: they may crash the process or
have no visible effect. `InputTaken`: a page polled the ELV line and saw input, another
page took it, and `::read`, which has no timeout, waits until more comes (`InputComes`),
or for good; `ElvBus` has the steps of that. What pages may ask for (`PageValues`) and
which signals users send (`SentSigs`) are constants.

### Startup

The part of `Daemon` between `construct` and `start4`, over all generations: the
two interfaces in their order, 7 + 3 probes that find, refuse or miss a device,
the numbering, the registry, the pruning loop with its iterator, option `-r`, and
the exclusive ELV line that no destructor closes. `hardware` is flaky (anything may be
missing, refuse or fail) until somebody mends it (`Mended`).

### K8055Outputs, K8055Inputs

`K8055Outputs` splits `DeviceK8055::write` where another connection thread can
get in between: load and store of the word of digital outputs, the two copies into
the packet, the locked transfer to the card, the locked transfer of its status.
`K8055Inputs` does the same for `readcounter` and `readresetcounter` and models
the card's one packet of delay. The card itself is external: how it behaves is
taken from what the code does (two reads in `update_inputs`).

### ElvBus

The serial line to the ELV adapter: `requests` (lines on their way to it),
`sending` and `line` (its answers), and any number of threads in `read()` of a
device. Each poll, `::read` and `::write` of `write_raw` and `read_raw` is a step
(`Poll`, `Clear`, `Write`, `TimesOut`, `InputComes`, `Take`), because nothing is
locked. Every exception of `write_raw` is swallowed by `write_data` and `read_data`, which
return 0: `read()` of a sensor does not look at that and goes on to read from whatever
register is selected (`SelectFails`), in all other places it ends the read
(`WriteFails`). A `Sensor` is a DS1621 or DS1731 (select the temperature, read two bytes,
take any two); until that worked once it may have the register selected that its
`probe()` left (0xee, 0x51: "probed"). A `Board` is an Atmel (`DeviceAtmel::command`,
which checks length, command and checksum of the reply). The adapter handles lines in
their order; an answer may come late, in two parts or not at all.

### Atmel

The calls of `DeviceAtmel` (`Calls`: read of an analog input, read, write, pwm
modes, counters) by any number of threads, as exchanges of one command
(`WriteCommand`), the request for its reply (`AskReply`) and the checks of the reply
(`Accept`, `Reject`). A coarser step than in `ElvBus`, so that whole calls fit: the
read of an analog input tries the new ADC protocol and, after any exception, the old
one with its two commands (`Fail`, `stage`). There are two boards on the line, 0x02 and
0x03, each with one of the two firmwares (`OldAdc`), outputs, a converter and a pulse
counter. A board holds a reply until it is asked for; one that nobody is going to ask for
any more is dropped (`Forget`), because the next command replaces it. A reply names
operation and control and not the board, and the checks of `command()` cannot tell
the boards apart (`Names`). The pulses (`Counted`) are those of both boards.

### ElvSensors

One thread from the probing of the ELV bus to the reads of pages. What a device is
sent and must answer is a script of writes and reads (`ProbeTSL2550`, `ReadSens`,
...) and the actions run the script: `WriteData` and `WriteIsLost`, `AskData`,
`RightAnswer`, `WrongAnswer`, `NoAnswer` (a timeout, with the answer lost or still to
come), and where the control flow is a device's own: `Channel0`, `ReadAgain`,
`Overflows`, `Measured`, `LightEnds` for the light sensor, `NoValue` for
Digipicco, `Unchecked` for TMP275, which uses bytes it may not have got. An answer
is named for the register it is of; `adc2count` is what it tells apart.

### Encodings

The pure functions: `ID` and the lookup through three levels of maps, `parse_bytes`
on texts of digits, delimiters and others, and `adc2count`. It has no state; `ElvBus`
extends it and has the parser meet the answers that are taken in parts.

### HttpRequest

One connection and its requests, below the thread steps of `Daemon`:
`access_handler_callback` (`HeaderCallback`, `DataCallback`, `LastCallback`),
`callback_request_completed` (`Completed`), `access_handler` (`Dispatch`,
`MajorError`), and the eleven pages (`Refuse`, `Missing`, `Operate`, `Info`,
`SignalPage`, `StyleSheet`; `Table`, `TableRead`, `TableSent` for the root page). A
text is a number, a word (read as 0) or empty (read into an uninitialized integer:
any number). A control operation ends well, with a minor, a major or another
exception; `readpwmmode` may also throw a string, which ends the process. Its
major errors and signal pages are `Daemon`'s `CallSignal`, its `terminated` is
`Daemon`'s `Abort`.

What the models say of the answers that come late: on the ELV line nothing names the
request an answer is for. `ElvBus` and `Atmel` show when one thread at a time is safe
from that: with nothing on its way as it begins. Even then a sensor whose register could
not be selected answers with the one selected before. After one late reply the read of an
analog input of an Atmel returns a value of that number, but it may be the other
board's: "ain n" of 0x02, asked for in vain, passes as "ain n" of 0x03. `ElvSensors`
shows more: a late identification
registers the Atmel next to it, a late answer about one kind of an Atmel's controls
makes controls of another kind, four late bytes are a Digipicco, and the light sensor
notices a shift by one answer but not by two. Nor does it notice a shift by one when both
writes of the power cycle are lost with it: an old "up" then passes for the new one, and
the range of the reading before for that of this one (`Noticed` has the condition; it
takes six faults to violate `RangeIsRight` without it, more than the run has, and was
found when the proof failed). Overlapping reads return each other's
answers.

In all modules `history:` variables record what happened for the properties; no
step of the program reads them (only the client of `HttpRequest` continues a field it sent).

## Runs

| run | shows | bounds |
|---|---|---|
| `daemon_safety` | mutex, lifetimes, decisions, leak of the IPv4 daemon; `Daemon` implements `Supervisor` | 2 connections, both signals, no bound on generations |
| `daemon_liveness` | a wakeup ends the generation and a request ends, unless a page hangs in `::read` | 2 connections, pages ask for a restart only, SIGINT only |
| `daemon_lost_wakeup` | violated: the quit page quits | 1 connection |
| `daemon_sigint_deadlock` | violated: SIGINT in `wait()` quits | no connection |
| `startup` | registration, ids, every device that answered is served, the ELV line; a daemon whose hardware was mended serves again | all 10 probes, `-r` 0 to 2 |
| `k8055_outputs` | reconciliation, no invented output | 2 threads, 2 digital and 1 analog output |
| `k8055_lost_write` | violated: an OK write stays | 2 threads |
| `k8055_inputs` | pulses and freshness | 2 threads, 3 pulses, counter modulo 3 |
| `elv_bus` | whose answer a read returns, when it can block, what a part of an answer is parsed as | 2 threads, 1 sensor, 1 board with 2 commands, a read begins with at most 1 line still to be handled; texts of up to 5 characters |
| `atmel` | exactness of quiet calls, numbers of analog inputs, pulses | 2 boards (one with the old ADC protocol), 2 threads, 2 analog inputs, 1 digital input, 1 mode, 2 pulses, a counter byte of 2 values, 2 replies on their way, of which 1 as a call begins |
| `elv_sensors` | registration, controls, lux values, end of every read | 4 buses of 3 devices, 2 kinds of controls, 3 attempts, 2 readings of the channels, 2 faults |
| `http_request` | operation, status and signals of every request | 2 controls, 3 numbers, 2 pieces of POST data |

The bounds. Two connections are enough for every pair of requests to meet, with
the main thread and both handlers on top; a third would only repeat one of them,
and the theorems cover any number. `daemon_liveness` has two as well: it takes two for
one to take the other's input and for two to meet at the mutex. To be small enough for
fairness it leaves to the safety run what asks for the same steps with other values:
pages that quit, major errors, SIGQUIT, and with it nested handlers. Two digital outputs share one word and one
analog output has a byte of its own: that is each kind of pair two writers can
form. Three pulses with a counter modulo 3 reach a wrap, a pulse before, in and
after each window of a call. On the ELV line one line left to be handled is what makes
an answer late; a second thread makes it wrong. Two pieces of POST data are two
fields, one field in two pieces, or one field twice. For the
Atmel a reply that is late must meet one that is due: two on their way at any time, one
of them, of either board, as a call begins (or a call in progress instead, so that calls
overlap). That one late reply is what `AdcIsOwnNumber` is about; with two its `stale <= 1`
is needed (a run with one thread and two late replies finds the violation without it), and the theorem has any number. A byte of
two values makes the mask of a counter cut one off. In `ElvSensors` two faults are a lost
write with a late answer, or the two late answers that shift a reading by two; the run
passes with three faults, too. Two readings of the channels instead of 32 are one that
is repeated and one that is the last. The four buses have every device, each next
to the devices whose late answers it could take for its own. `Startup` has no bound
besides the program's own constants: its run is all there is.

Deadlock is not checked for `Daemon`: the process ends, and its own handler can
block it for good (`daemon_sigint_deadlock` shows that one). Nor is it for
`ElvBus`, where a thread may wait in `::read` for good (`BlockedByOthers` says when),
for `Atmel`, whose history may have used up its pulses, or for `ElvSensors`, where the
process may end and a bus without sensors has nothing to read.

Fairness. `Daemon`: each thread that can run does run (weak fairness of main
and of each handler after its lock); whoever asks for the mutex
gets it if it is free again and again (strong fairness of the lock steps; no
thread holds it for more than a few instructions). A page ends, because each of its
exchanges with a device has a timeout of 100 to 1000 ms and there are finitely many of
them, also if its input was taken now and then (strong fairness of `ConnStep`): but a page
whose input was taken need not get more (no fairness of `InputComes`). So `WakeupActs`
and `RequestEnds` except a page that hangs in `::read` for good (`StuckReading`): for that
request itself, and for the shutdown, which joins its thread. They do not except other
requests. Nobody has to send a request
or a signal and `wait()` need not wake up by itself. `Startup`: main runs; nobody has to mend the
hardware. `ElvSensors`: the thread runs; pages need not read.

The violated properties are promises the code or its texts make: the quit page
answers "quit", "quit by user interrupt" is logged for SIGINT, a write or a read
page says "OK". `PROJECT.json` quotes them under
"findings".

## Proofs

`DaemonProofs` proves for any set of connections (assumed disjoint from the
names `"main"` and `"free"` of the mutex owners), whatever pages and users ask for:

* `TypeCorrect`: `Spec => []TypeOK`;
* `Invariant`: `Spec => []IInv`;
* `MutexCorrect`, `NoUseAfterDestroy`, `QuitsOnlyWhenAsked`,
  `NoServiceAfterLeak` from it.

`IInv` adds to the properties what they need to be inductive: `Lifecycle` (the
state of both MHD daemons at each step of main; a daemon that is down has no
request), `HandlerStack` (the innermost frame is the one running) and
`MailboxFresh` (the mailbox holds nothing of an earlier generation). Each
conjunct has its own step theorem with one step per action.

It ends with `Refinement`: `Spec => Supervised`, the implementation of
`Supervisor` by `Daemon`. The mapping takes `pc` to the phase of a generation, the
requests that are not of a leaked daemon to `busy`, `waitval` to the choice and the
end of the process to its cause. Besides `IInv` it needs `WaitvalActedOn`: before
`wait()` returns nothing is decided, and a generation that is destroyed after a
fatal value ends by quitting. `StepRefines` then shows, action by action, a step of
`Supervisor` or a stutter.

`K8055OutputsProofs` proves, for any threads and any outputs, `TypeCorrect`,
`NothingIsInvented` and `WritingAloneReconciles` of `K8055Outputs`. Its `IInv` is
`TypeOK` and `NothingInvented` with `LocalsClean` (the locals of `write()` have
meaning only between certain steps), `LocalsAsked` (what a thread has loaded or
packed was asked for) and `AloneInSync` (how far shadow, packet and card agree at
each step of a write that runs alone).

`K8055InputsProofs` proves, for any threads, any width of the counter and any number
of pulses, `TypeCorrect`, `PulsesAreAccounted` and `AloneReadsAreFresh` of `K8055Inputs`. Its `IInv` says where
the reported pulses are at each step of an operation: in the packet the card has ready,
in `got`, in `counters`, in `result`. `NotTwice` bounds them from above and
`OnlyInWindow` from below; both need `Alone`. For `AloneReadsAreFresh`, `FInv` has
`Crossing` (of two threads in an operation each has crossed the other) and `FreshSoFar`:
the value of a read that runs alone, at each of its steps, was the card's since it began.

`RegistryProofs` proves all that `Startup` promises but its liveness, over any number of
generations and for every way probes can fail: `RegistryTypeCorrect`,
`AnsweringDevicesAreRegistered`, `IdsAreSound`, `ServingHasDevices`, `AnsweringDevicesAreServed`
and `ElvIsLostForGood`. Its `IInv` adds `NumbersInStep` (an interface that has not been
probed has no devices and no numbers used; while it is probed each probe uses one number
at most, on the ELV bus exactly one: this keeps the numbers apart), `BeginsEmpty` and
`PrunedSoFar` (of what the iterator has passed, only the first interface may be without
devices). That the ELV line stays out of reach is an invariant from the moment on when it
was lost (`ElvOutOfReach`). Of the functions behind the registry it proves, for all
arguments, `IdRoundTrip`, `IdsAreTotallyOrdered` (`operator <` is irreflexive, transitive and total, what `std::map` needs of it) and
`FindIsFlat` (the lookup through three levels finds what the listing walks through).

`HttpRequestProofs` proves, for any controls, numbers, table and number of pieces of
POST data, `TypeCorrect`, `PagesDoWhatWasAsked`, `StatusIsTrue` and `SignalsAreExplained`
of `HttpRequest`. Its `IInv` adds to the three properties `Phases` (which phases have a
reply or operations; what the root page has read and has still to read is its table),
`Counted` (the callbacks so far), `LastPieces` (`con_cls` has the last piece of each
field of this request, and of no other) and `VariablesAreMeant` (a page gets the last
piece of what the client means, so a field that came in one piece is read as it is).

`ElvBusProofs` proves, for any finite set of threads, any devices, commands and backlog,
all that is checked of `ElvBus`: `TypeCorrect`, `OnlyOthersBlock`, `QuietReadsAreOwn`,
`BacklogsAreCleared` and `CutAnswersArePrefixes`. Its `IInv` has `Spans` (the lines to the adapter with those the threads
have still to write are bounded; this is what makes the bound of `TypeOK` inductive),
`Crossing` (two threads in `read()` have both crossed), `NeverLeft` and `NothingLeft`
(nothing that was left is on the line once it was found empty), and `QuietIsAlone`: the
lines and answers on their way at each step of a read that began on a quiet bus, and what
its device has selected once the line that selects it was handled, unless that was never
written (`missed`).
`CutAnswersArePrefixes` is about the recursive function of the parser: that it exists
(`RunsExist`), agrees on texts that agree (`RunsAgree`) and only appends (`RunGrows`), each
from the smallest index at which it would fail (`Least`), which stands in for induction.
`CountIsMonotone` is the theorem about `adc2count`.

`AtmelProofs` proves, for any finite set of threads, any controls and values, either
firmware on each of the two boards and any
bounds on late replies, all that is checked of `Atmel`: `TypeCorrect`,
`QuietCallsAreExact`, `AdcReadsAreOfTheirNumber` and `PulsesAreAccounted`. Its `IInv` adds to
`TypeOK`, for calls that do not overlap (`Alone`): `ChannelIsSet` (the converter is at the
input that is read from the command that selects it on), `StartsAreOwn` (behind one stale
reply there are only replies of this call, and the stale one is gone when the old protocol
starts its conversion), `WrittenIsStored`, `RepliesAreExact` and `LineIsOwn` (with nothing
stale, all replies on the line are of the board that is called); and for all calls `Staged`
(only the read of an analog input has stages) and `RepliesAreHonest` (a reply that names an
input is of it). Pulses are bounded from above and from below: `NotTwice` says that those
reported, those in the counter and those in replies on their way are pulses there were. The
sum over the replies is a function that grows along the line by at least what each holds
(`Sums`), so that no recursion is needed: taking a reply shifts it, a new reply extends
it; `Covers` bounds its last value together with the pulses still counted on both boards.
`NothingDue` says where the pulses are as long as nothing was lost: all reported or
counted, or in the one reply that is due, which is the last.

`ElvSensorsProofs` proves, for any set of buses, any kinds of controls, any numbers of
attempts and any number of lost writes and of answers lost or late, all that `ElvSensors`
promises but its liveness: `TypeCorrect`, `FoundAreThere`, `ControlsAreTheirOwn`,
`LuxValuesAreMeasured` and `RangesAreRight`. Its `IInv` says

* of probing: which registers a device can have selected so far (`OwnRegisters`); an answer
  that is on the line and not the one waited for makes `late` non-empty (`LateIsKnown`); the
  probe of a device that is not there does not pass its first read, but for the two
  exceptions of `FoundIsThere` (`NotFooled`);
* of an Atmel's controls: no reply about the first board's controls is on the line once
  the second has been identified (`FirstAtmel`, `SecondAtmel`), and a board that was sent a
  command answers that one (`Commanded`);
* of the light sensor: `LightIsClean`, and `LightIsInStep`, which follows a reading that
  would notice (`Noticed`) through its steps: at the power-up it is one answer behind at
  most, at the range check an answer of before has the wrong register, and from then on the
  line has what is waited for and nothing else.

Only model-checked: liveness (`WakeupActs`, `RequestEnds`, `KeepsServing`, `ReadsEnd`), which
is out of the prover's reach, and the runs that find a violation. Every invariant and every
action property of the passing runs, and the refinement, is a theorem.

## Not modelled

Parsing of options, log lines and page texts; libusb's error codes; memory that is
leaked without an effect (`Interfaces::remove`); query arguments without a value; the
floating point of temperatures and lux; the mapping of the K8055's input bits; several
threads that read the light sensor at once (its exchanges are `ElvBus`'s, only longer).
The component table in `PROJECT.json` has a line for each part.

## Plan

Done in this order: `Daemon` and `Supervisor` with their proofs, `Startup`, the
K8055 modules, `ElvBus`, `HttpRequest`, `Atmel`, `ElvSensors`, `Encodings`, and the proofs
of each. Left:

1. The input bits of the K8055 and the ranges of controls, in `Encodings`, with a theorem
   that each input bit is of one input.
2. An abstract register (a value that was written or measured since the call began) that
   `K8055Inputs` and `Atmel` implement for calls that do not overlap.
