------------------------------- MODULE Daemon -------------------------------
(***************************************************************************)
(* The main thread of iocd, the signal mailbox of class Interfaces, the    *)
(* two HTTP daemons of class HttpServer with their connection threads, and *)
(* the SIGINT and SIGQUIT handlers.                                        *)
(*                                                                         *)
(* Threads.  libmicrohttpd (MHD_USE_THREAD_PER_CONNECTION) runs a request  *)
(* on a thread of its own.  The Unix signal handlers run on the main       *)
(* thread, on top of whatever it was doing: the kernel prefers the main    *)
(* thread for a signal sent to the process, and no thread blocks these     *)
(* signals.                                                                *)
(*                                                                         *)
(* Left out: what a request reads and writes (other modules), log lines,   *)
(* the text of pages.  What probing finds is a nondeterministic choice     *)
(* here; module Startup models it.                                         *)
(***************************************************************************)
CONSTANTS
    Conn,           \* connection threads
    PageValues,     \* the values requests pass to signal()
    SentSigs        \* the Unix signals somebody sends

ASSUME ConnAssumption == Conn \cap {"main", "free"} = {}
ASSUME ValuesAssumption == PageValues \subseteq {"user_quit", "user_restart", "major_error"}
ASSUME SentAssumption == SentSigs \subseteq {"INT", "QUIT"}

VARIABLES
    pc,             \* what the main thread does next
    mode,           \* "oneshot" with option -o, else "serve"
    interfaces,     \* the Interfaces object of this generation: "none" or "live"
    signal_value,   \* Interfaces::signal_value
    signal_mutex,   \* owner of Interfaces::signal_mutex, or "free"
    disp,           \* disposition of each Unix signal
    handler,        \* where the handler of each Unix signal is, if it runs
    running,        \* the innermost handler on the main thread, or "none"
    daemon_handle,  \* state of the MHD daemon behind each handle
    cpc,            \* where each connection thread is
    via,            \* the daemon a connection came in through
    val,            \* the value its request passes to signal()
    waitval,        \* main's waitval
    ending,         \* why the process ends or is about to; "none" if not
    asked           \* history: the values published in this generation

mainVars == <<mode, interfaces, waitval, ending>>
mailbox  == <<signal_value, signal_mutex, asked>>
unix     == <<disp, handler, running>>
http     == <<daemon_handle, cpc, via, val>>
vars     == <<pc, mainVars, mailbox, unix, http>>

-----------------------------------------------------------------------------
(* Values *)

Sigs    == {"INT", "QUIT"}
Handles == {"v4", "v6"}

(* Interfaces::signal_t without signal_none *)
signal_t == {"user_quit", "user_restart", "major_error", "user_keyint", "user_keyquit"}

(* the value a handler passes on *)
SigValue(s) == IF s = "INT" THEN "user_keyint" ELSE "user_keyquit"

(* the values main turns into a fatal_exception, which leaves its loop *)
Fatal == {"user_quit", "user_keyint"}

MainPcs == {"construct", "list", "start4", "start6", "lock", "enter", "blocked",
            "woken", "read", "stop6", "join6", "stop4", "join4", "decide",
            "destroy", "ended"}

ConnPcs == {"idle", "dispatch", "reading", "lock", "publish", "reply"}

TypeOK ==
    /\ pc \in MainPcs
    /\ mode \in {"serve", "oneshot"}
    /\ interfaces \in {"none", "live"}
    /\ signal_value \in signal_t \cup {"none"}
    /\ signal_mutex \in Conn \cup {"main", "free"}
    /\ disp \in [Sigs -> {"dfl", "handler"}]
    /\ handler \in [Sigs -> {"off", "lock", "publish"}]
    /\ running \in Sigs \cup {"none"}
    /\ daemon_handle \in [Handles -> {"down", "up", "draining", "leaked"}]
    /\ cpc \in [Conn -> ConnPcs]
    /\ via \in [Conn -> Handles]
    /\ val \in [Conn -> signal_t \cup {"none"}]
    /\ \A c \in Conn : cpc[c] \in {"lock", "publish"} => val[c] \in signal_t
    /\ waitval \in signal_t \cup {"none"}
    /\ ending \in {"none", "quit", "oneshot", "killed", "crashed"}
    /\ asked \subseteq signal_t

-----------------------------------------------------------------------------
(* Building blocks *)

Disarmed == [s \in Sigs |-> "dfl"]
Armed    == [s \in Sigs |-> "handler"]

(* ~Interfaces and the "insufficient" branch of main restore SIG_DFL. *)
Disarm_Skip == UNCHANGED disp
Disarm == disp' = Disarmed

(* The main thread executes its own code only when no handler is on top. *)
Main(from) == pc = from /\ running = "none"

(* The handlers that are suspended below the one of s. *)
Below(s) == {t \in Sigs \ {s} : handler[t] # "off"}

(* HttpServer and Interfaces are gone, their MHD daemon is not: the       *)
(* connection thread holds pointers to freed objects.                     *)
Stale(c) == daemon_handle[via[c]] = "leaked"

Process == pc # "ended"

(* A running process dies: killed by a signal, or aborted. *)
Die(w) ==
    /\ pc' = "ended"
    /\ ending' = w
    /\ UNCHANGED <<mode, interfaces, waitval, mailbox, unix, http>>

(* Interfaces::signal() between its lock and its unlock; a waiter, if     *)
(* there is one, is woken.  Nothing remembers the value's predecessor.    *)
Publish(v) ==
    /\ signal_value' = v
    /\ asked' = asked \cup {v}
    /\ pc' = IF pc = "blocked" THEN "woken" ELSE pc

(* pthread_mutex_lock by thread t *)
Lock_Unchecked(t) == signal_mutex' = t
Lock(t) == signal_mutex = "free" /\ signal_mutex' = t

(* pthread_mutex_unlock *)
Unlock_Skip == UNCHANGED signal_mutex
Unlock == signal_mutex' = "free"

-----------------------------------------------------------------------------
(* A generation starts *)

(* the initialisers of Interfaces::Interfaces *)
ClearMailbox_Skip == UNCHANGED signal_value
ClearMailbox == signal_value' = "none"

(* Interfaces::Interfaces up to probe_interfaces() *)
Construct ==
    /\ Main("construct")
    /\ pc' = "list"
    /\ interfaces' = "live"
    /\ ClearMailbox
    /\ Unlock
    /\ asked' = {}
    /\ disp' = Armed
    /\ UNCHANGED <<mode, waitval, ending, handler, running, http>>

(* Probing, pruning and the listing that reads every control: an exception *)
(* of a device ends the generation.                                        *)
ListThrows ==
    /\ Main("list")
    /\ pc' = "destroy"
    /\ UNCHANGED <<mainVars, mailbox, unix, http>>

ListOneshot ==
    /\ Main("list")
    /\ mode = "oneshot"
    /\ pc' = "destroy"
    /\ ending' = "oneshot"
    /\ UNCHANGED <<mode, interfaces, waitval, mailbox, unix, http>>

(* Fewer interfaces than -r asks for: handlers off, sleep(1), continue. *)
Insufficient ==
    /\ Main("list")
    /\ mode = "serve"
    /\ pc' = "destroy"
    /\ Disarm
    /\ UNCHANGED <<mainVars, mailbox, handler, running, http>>

Listed ==
    /\ Main("list")
    /\ mode = "serve"
    /\ pc' = "start4"
    /\ UNCHANGED <<mainVars, mailbox, unix, http>>

(* HttpServer::HttpServer starts the IPv4 daemon: it gets the port only if *)
(* no daemon of an earlier generation still has it.                        *)
StartV4_SharedPort ==
    /\ Main("start4")
    /\ pc' = "start6"
    /\ daemon_handle' = [daemon_handle EXCEPT !["v4"] = IF @ = "down" THEN "up" ELSE @]
    /\ UNCHANGED <<mainVars, mailbox, unix, cpc, via, val>>

StartV4 ==
    /\ Main("start4")
    /\ daemon_handle["v4"] = "down"
    /\ pc' = "start6"
    /\ daemon_handle' = [daemon_handle EXCEPT !["v4"] = "up"]
    /\ UNCHANGED <<mainVars, mailbox, unix, cpc, via, val>>

StartV4Fails ==
    /\ Main("start4")
    /\ pc' = "destroy"
    /\ UNCHANGED <<mainVars, mailbox, unix, http>>

StartV6 ==
    /\ Main("start6")
    /\ pc' = "lock"
    /\ daemon_handle' = [daemon_handle EXCEPT !["v6"] = "up"]
    /\ UNCHANGED <<mainVars, mailbox, unix, cpc, via, val>>

(* The constructor throws after it started the IPv4 daemon, so nothing     *)
(* stops that daemon: ~HttpServer does not run.                            *)
StartV6Fails ==
    /\ Main("start6")
    /\ pc' = "destroy"
    /\ daemon_handle' = [daemon_handle EXCEPT !["v4"] = "leaked"]
    /\ UNCHANGED <<mainVars, mailbox, unix, cpc, via, val>>

-----------------------------------------------------------------------------
(* Interfaces::wait() *)

WaitLock ==
    /\ Main("lock")
    /\ Lock("main")
    /\ pc' = "enter"
    /\ UNCHANGED <<mainVars, signal_value, asked, unix, http>>

(* pthread_cond_wait releases the mutex and blocks, whatever signal_value is *)
CondWait ==
    /\ Main("enter")
    /\ Unlock
    /\ pc' = "blocked"
    /\ UNCHANGED <<mainVars, signal_value, asked, unix, http>>

(* POSIX allows pthread_cond_wait to return without a signal. *)
SpuriousWakeup ==
    /\ Main("blocked")
    /\ pc' = "woken"
    /\ UNCHANGED <<mainVars, mailbox, unix, http>>

Reacquire ==
    /\ Main("woken")
    /\ Lock("main")
    /\ pc' = "read"
    /\ UNCHANGED <<mainVars, signal_value, asked, unix, http>>

ReadValue ==
    /\ Main("read")
    /\ waitval' = signal_value
    /\ Unlock
    /\ pc' = "stop6"
    /\ UNCHANGED <<mode, interfaces, ending, signal_value, asked, unix, http>>

-----------------------------------------------------------------------------
(* HttpServer::~HttpServer: MHD_stop_daemon stops accepting, then joins the *)
(* connection threads of that daemon.                                       *)

Joined_NoWait(d) == TRUE
Joined_Both(d) == \A c \in Conn : cpc[c] = "idle"
Joined(d) == \A c \in Conn : via[c] = d => cpc[c] = "idle"

StopV6 ==
    /\ Main("stop6")
    /\ pc' = "join6"
    /\ daemon_handle' = [daemon_handle EXCEPT !["v6"] = "draining"]
    /\ UNCHANGED <<mainVars, mailbox, unix, cpc, via, val>>

JoinV6 ==
    /\ Main("join6")
    /\ Joined("v6")
    /\ pc' = "stop4"
    /\ daemon_handle' = [daemon_handle EXCEPT !["v6"] = "down"]
    /\ UNCHANGED <<mainVars, mailbox, unix, cpc, via, val>>

StopV4 ==
    /\ Main("stop4")
    /\ pc' = "join4"
    /\ daemon_handle' = [daemon_handle EXCEPT !["v4"] = "draining"]
    /\ UNCHANGED <<mainVars, mailbox, unix, cpc, via, val>>

JoinV4 ==
    /\ Main("join4")
    /\ Joined("v4")
    /\ pc' = "decide"
    /\ daemon_handle' = [daemon_handle EXCEPT !["v4"] = "down"]
    /\ UNCHANGED <<mainVars, mailbox, unix, cpc, via, val>>

(* The five ifs after wait() and the catch clauses: a fatal_exception      *)
(* leaves the loop, a major_exception and no exception at all stay in it.  *)
Quits_UnlessRestart(v) == v # "user_restart"
Quits(v) == v \in Fatal

Decide ==
    /\ Main("decide")
    /\ pc' = "destroy"
    /\ ending' = IF Quits(waitval) THEN "quit" ELSE "none"
    /\ UNCHANGED <<mode, interfaces, waitval, mailbox, unix, http>>

(* Interfaces::~Interfaces, run by the unwinding of the try block *)
Destroy ==
    /\ Main("destroy")
    /\ pc' = IF ending = "none" THEN "construct" ELSE "ended"
    /\ Disarm
    /\ interfaces' = "none"
    /\ waitval' = "none"
    /\ UNCHANGED <<mode, ending, mailbox, handler, running, http>>

-----------------------------------------------------------------------------
(* Connection threads: access_handler_callback and access_handler *)

Accept(c, d) ==
    /\ Process
    /\ cpc[c] = "idle"
    /\ daemon_handle[d] \in {"up", "leaked"}
    /\ cpc' = [cpc EXCEPT ![c] = "dispatch"]
    /\ via' = [via EXCEPT ![c] = d]
    /\ UNCHANGED <<pc, mainVars, mailbox, unix, daemon_handle, val>>

Handling(c, at) == Process /\ cpc[c] = at /\ ~Stale(c)

(* any page that does not end in signal() *)
Answer(c) ==
    /\ Handling(c, "dispatch")
    /\ cpc' = [cpc EXCEPT ![c] = "reply"]
    /\ UNCHANGED <<pc, mainVars, mailbox, unix, daemon_handle, via, val>>

(* Two requests use the line of the ELV adapter at the same time, without  *)
(* a lock: poll() told c that there is input, but the other thread takes   *)
(* it, and c waits in ::read, which has no timeout.  Input comes again if  *)
(* another request asks for some or an answer is late; it need not come.   *)
(* Module ElvBus models the line.                                          *)
InputTaken(c) ==
    /\ Handling(c, "dispatch")
    /\ \E t \in Conn \ {c} : Handling(t, "dispatch")
    /\ cpc' = [cpc EXCEPT ![c] = "reading"]
    /\ UNCHANGED <<pc, mainVars, mailbox, unix, daemon_handle, via, val>>

InputComes(c) ==
    /\ Handling(c, "reading")
    /\ cpc' = [cpc EXCEPT ![c] = "dispatch"]
    /\ UNCHANGED <<pc, mainVars, mailbox, unix, daemon_handle, via, val>>

(* page_dispatcher_quit, page_dispatcher_restart, and access_handler when  *)
(* a page throws a major_exception                                         *)
CallSignal_NoValue(c, v) ==
    /\ Handling(c, "dispatch")
    /\ cpc' = [cpc EXCEPT ![c] = "lock"]
    /\ UNCHANGED <<pc, mainVars, mailbox, unix, daemon_handle, via, val>>

CallSignal(c, v) ==
    /\ Handling(c, "dispatch")
    /\ cpc' = [cpc EXCEPT ![c] = "lock"]
    /\ val' = [val EXCEPT ![c] = v]
    /\ UNCHANGED <<pc, mainVars, mailbox, unix, daemon_handle, via>>

(* A page throws what access_handler, declared throw(), does not catch:    *)
(* std::unexpected, std::terminate.                                        *)
Abort(c) == Handling(c, "dispatch") /\ Die("crashed")

SignalLock(c) ==
    /\ Handling(c, "lock")
    /\ Lock(c)
    /\ cpc' = [cpc EXCEPT ![c] = "publish"]
    /\ UNCHANGED <<pc, mainVars, signal_value, asked, unix, daemon_handle, via, val>>

SignalPublish(c) ==
    /\ Handling(c, "publish")
    /\ Publish(val[c])
    /\ Unlock
    /\ cpc' = [cpc EXCEPT ![c] = "reply"]
    /\ UNCHANGED <<mainVars, unix, daemon_handle, via, val>>

Reply(c) ==
    /\ Handling(c, "reply")
    /\ cpc' = [cpc EXCEPT ![c] = "idle"]
    /\ val' = [val EXCEPT ![c] = "none"]
    /\ UNCHANGED <<pc, mainVars, mailbox, unix, daemon_handle, via>>

(* A thread of a leaked daemon runs on freed memory.  It may crash the     *)
(* process or end without a visible effect; if the memory happens to look  *)
(* intact, what it publishes before the next Construct is never read.      *)
StaleCrash(c) == Process /\ cpc[c] # "idle" /\ Stale(c) /\ Die("crashed")

StaleEnd(c) ==
    /\ Process
    /\ cpc[c] # "idle"
    /\ Stale(c)
    /\ cpc' = [cpc EXCEPT ![c] = "idle"]
    /\ val' = [val EXCEPT ![c] = "none"]
    /\ signal_mutex' = IF signal_mutex = c THEN "free" ELSE signal_mutex
    /\ UNCHANGED <<pc, mainVars, signal_value, asked, unix, daemon_handle, via>>

-----------------------------------------------------------------------------
(* Unix signals.  The kernel masks a signal while its handler runs. *)

Kill(s) == Process /\ handler[s] = "off" /\ disp[s] = "dfl" /\ Die("killed")

(* sigint and sigquit up to the lock in Interfaces::signal *)
Catch(s) ==
    /\ Process
    /\ handler[s] = "off"
    /\ disp[s] = "handler"
    /\ handler' = [handler EXCEPT ![s] = "lock"]
    /\ disp' = [disp EXCEPT ![s] = "dfl"]
    /\ running' = s
    /\ UNCHANGED <<pc, mainVars, mailbox, http>>

HandlerLock(s) ==
    /\ Process
    /\ running = s
    /\ handler[s] = "lock"
    /\ Lock("main")
    /\ handler' = [handler EXCEPT ![s] = "publish"]
    /\ UNCHANGED <<pc, mainVars, signal_value, asked, disp, running, http>>

HandlerPublish(s) ==
    /\ Process
    /\ running = s
    /\ handler[s] = "publish"
    /\ Publish(SigValue(s))
    /\ Unlock
    /\ handler' = [handler EXCEPT ![s] = "off"]
    /\ running' \in IF Below(s) = {} THEN {"none"} ELSE Below(s)
    /\ UNCHANGED <<mainVars, disp, http>>

-----------------------------------------------------------------------------
Init ==
    /\ pc = "construct"
    /\ mode \in {"serve", "oneshot"}
    /\ interfaces = "none"
    /\ signal_value = "none"
    /\ signal_mutex = "free"
    /\ disp = Disarmed
    /\ handler = [s \in Sigs |-> "off"]
    /\ running = "none"
    /\ daemon_handle = [d \in Handles |-> "down"]
    /\ cpc = [c \in Conn |-> "idle"]
    /\ via = [c \in Conn |-> "v4"]
    /\ val = [c \in Conn |-> "none"]
    /\ waitval = "none"
    /\ ending = "none"
    /\ asked = {}

MainStep ==
    \/ Construct \/ ListThrows \/ ListOneshot \/ Insufficient \/ Listed
    \/ StartV4 \/ StartV4Fails \/ StartV6 \/ StartV6Fails
    \/ CondWait \/ ReadValue
    \/ StopV6 \/ JoinV6 \/ StopV4 \/ JoinV4 \/ Decide \/ Destroy

ConnStep(c) ==
    \/ Answer(c)
    \/ \E v \in PageValues : CallSignal(c, v)
    \/ Abort(c)
    \/ SignalPublish(c)
    \/ Reply(c)

(* Steps that nothing obliges a connection thread to take. *)
ConnMay(c) ==
    \/ \E d \in Handles : Accept(c, d)
    \/ InputTaken(c)
    \/ InputComes(c)
    \/ StaleCrash(c)
    \/ StaleEnd(c)

Next ==
    \/ MainStep
    \/ WaitLock
    \/ SpuriousWakeup
    \/ Reacquire
    \/ \E c \in Conn : ConnStep(c) \/ SignalLock(c) \/ ConnMay(c)
    \/ \E s \in SentSigs : Kill(s) \/ Catch(s)
    \/ \E s \in Sigs : HandlerLock(s) \/ HandlerPublish(s)

Spec == Init /\ [][Next]_vars

(* Every thread that can run does run, and no thread that asks for the     *)
(* mutex is passed over for ever.  Nobody has to send a request or a       *)
(* signal, and a blocked wait() need not wake up by itself.  A page makes  *)
(* a bounded number of exchanges with the devices, each with a timeout but *)
(* for a ::read whose input another thread took: a page that is not for    *)
(* good in such a ::read gets to its end, however often it was in one      *)
(* before (strong fairness).                                               *)
Fairness ==
    /\ WF_vars(MainStep)
    /\ SF_vars(WaitLock)
    /\ SF_vars(Reacquire)
    /\ \A c \in Conn : SF_vars(ConnStep(c)) /\ SF_vars(SignalLock(c))
    /\ \A s \in Sigs : SF_vars(HandlerLock(s)) /\ WF_vars(HandlerPublish(s))

FairSpec == Spec /\ Fairness

-----------------------------------------------------------------------------
(* Properties *)

(* Who holds signal_mutex is exactly who is between lock and unlock: the   *)
(* main thread in wait(), a handler on top of it, or a connection thread,  *)
(* and at most one of them.                                                *)
InWait == pc \in {"enter", "read"}
InHandler == \E s \in Sigs : handler[s] = "publish"

MutexSound == Process =>
    /\ signal_mutex = "main" <=> (InWait \/ InHandler)
    /\ ~(InWait /\ InHandler)
    /\ \A s, t \in Sigs : handler[s] = "publish" /\ handler[t] = "publish" => s = t
    /\ \A c \in Conn : /\ signal_mutex = c => cpc[c] = "publish"
                       /\ cpc[c] = "publish" /\ ~Stale(c) => signal_mutex = c

(* A request is handled only while the Interfaces object it uses exists:   *)
(* ~HttpServer has joined every connection thread before ~Interfaces runs. *)
(* Requests of a leaked IPv4 daemon are the exception.                     *)
RequestsHaveInterfaces ==
    \A c \in Conn : cpc[c] # "idle" /\ ~Stale(c) => interfaces = "live"

(* A Unix signal handler calls signal() only on an existing Interfaces     *)
(* object: the handlers are off again before it is destroyed.              *)
HandlersHaveInterfaces ==
    \A s \in Sigs : handler[s] # "off" \/ disp[s] = "handler" => interfaces = "live"

(* So nobody ever uses a destroyed Interfaces object, but for the requests *)
(* of a leaked IPv4 daemon.                                                *)
UsersHaveInterfaces == RequestsHaveInterfaces /\ HandlersHaveInterfaces

(* main acts only on a value that was published in this generation, never  *)
(* on one left in the mailbox by an earlier generation.                    *)
DecisionWasAsked ==
    pc \in {"stop6", "join6", "stop4", "join4", "decide"} =>
        waitval \in asked \cup {"none"}

(* The process ends through "fatal_exception" only if this generation was  *)
(* asked to quit by a page or by SIGINT.                                   *)
QuitWasAsked == ending = "quit" => asked \cap Fatal # {}

(* Once the IPv4 daemon has leaked, no generation serves again.            *)
LeakStopsService ==
    daemon_handle["v4"] = "leaked" =>
        pc \in {"construct", "list", "start4", "destroy", "ended"}

(* What the handles of the MHD daemons are at each step of main; a daemon   *)
(* that is down has no request left.                                        *)
Up(d) == daemon_handle[d] = "up"

Lifecycle == Process =>
    /\ interfaces = "live" <=> pc # "construct"
    /\ pc # "destroy" => ending = "none"
    /\ pc \in {"construct", "list", "start4", "decide", "destroy"} =>
          daemon_handle["v4"] \in {"down", "leaked"} /\ daemon_handle["v6"] = "down"
    /\ pc = "decide" => daemon_handle["v4"] = "down"
    /\ pc = "start6" => Up("v4") /\ daemon_handle["v6"] = "down"
    /\ pc \in {"lock", "enter", "blocked", "woken", "read", "stop6"} => Up("v4") /\ Up("v6")
    /\ pc = "join6" => Up("v4") /\ daemon_handle["v6"] = "draining"
    /\ pc = "stop4" => Up("v4") /\ daemon_handle["v6"] = "down"
    /\ pc = "join4" => daemon_handle["v4"] = "draining" /\ daemon_handle["v6"] = "down"
    /\ \A c \in Conn : daemon_handle[via[c]] = "down" => cpc[c] = "idle"

(* The handlers form a stack whose innermost frame is running. *)
HandlerStack ==
    IF running = "none" THEN \A s \in Sigs : handler[s] = "off"
                        ELSE handler[running] # "off"

(* The mailbox holds nothing from an earlier generation. *)
MailboxFresh == signal_value \in asked \cup {"none"}

(* The inductive invariant that carries the safety properties. *)
IInv ==
    /\ TypeOK
    /\ Lifecycle
    /\ HandlerStack
    /\ MutexSound
    /\ RequestsHaveInterfaces
    /\ HandlersHaveInterfaces
    /\ MailboxFresh
    /\ DecisionWasAsked
    /\ QuitWasAsked

(* A handler waits for a mutex that the main thread below it holds. *)
SelfDeadlock ==
    running # "none" /\ handler[running] = "lock" /\ signal_mutex = "main"

(* A thread waits for good for input that another thread took. *)
StuckReading(c) == [](cpc[c] = "reading")

(* A wakeup of wait() is acted on: the generation ends, unless the main    *)
(* thread is caught by its own handler, or waits for a connection thread   *)
(* that hangs in ::read on the ELV line.  Nothing else keeps the server    *)
(* from being shut down.                                                   *)
WakeupActs ==
    pc = "woken" ~> \/ pc \in {"construct", "ended"}
                    \/ SelfDeadlock
                    \/ \E c \in Conn : StuckReading(c)

(* A request that the server handles comes to an end, unless it hangs      *)
(* itself in ::read on the ELV line: neither the mutex, nor the shutdown   *)
(* of the server, nor another request that hangs there holds it up, but a  *)
(* main thread that is caught by its own handler may.  Of a request of a   *)
(* leaked daemon nothing can be said.                                      *)
RequestEnds ==
    \A c \in Conn :
        cpc[c] # "idle" ~> \/ cpc[c] = "idle"
                           \/ pc = "ended"
                           \/ SelfDeadlock
                           \/ Stale(c)
                           \/ StuckReading(c)

(* NOT satisfied.  The quit page was answered while the main thread was on *)
(* its way into wait(), so the process quits.                              *)
QuitPageQuits ==
    (pc = "lock" /\ \E c \in Conn : cpc[c] = "reply" /\ val[c] = "user_quit")
        ~> (pc = "ended" \/ SelfDeadlock)

(* NOT satisfied.  A SIGINT caught while the main thread is inside wait()  *)
(* makes the process quit.                                                 *)
SigintInWaitQuits == (InWait /\ handler["INT"] # "off") ~> pc = "ended"

-----------------------------------------------------------------------------
(* The abstract view *)

Phase ==
    CASE pc = "construct" -> "off"
      [] pc \in {"list", "start4", "start6"} -> "starting"
      [] pc \in {"lock", "enter", "blocked", "woken", "read"} -> "serving"
      [] pc \in {"stop6", "join6", "stop4", "join4", "decide", "destroy"} -> "leaving"
      [] pc = "ended" -> "ended"

Busy == {c \in Conn : cpc[c] # "idle" /\ ~Stale(c)}

S == INSTANCE Supervisor WITH
        Asks <- signal_t, EndingAsks <- Fatal, phase <- Phase,
        choice <- waitval, busy <- Busy, cause <- ending

(* The program implements Supervisor. *)
Supervised == S!Spec
=============================================================================
