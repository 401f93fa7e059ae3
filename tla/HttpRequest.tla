---------------------------- MODULE HttpRequest ----------------------------
(***************************************************************************)
(* The requests of one connection (class HttpServer), one after another:   *)
(* the callbacks libmicrohttpd makes while it takes a request in, the data *)
(* kept between them in con_cls, the dispatch to a page, the control       *)
(* operations of the page, and how their exceptions become a reply, a      *)
(* signal to the main thread or the end of the process.                    *)
(*                                                                         *)
(* Daemon has the threads, the mailbox and the shutdown around this.  The  *)
(* client, libmicrohttpd and the devices are external: a request is any    *)
(* request, and a control operation has any of its outcomes.               *)
(***************************************************************************)
EXTENDS Naturals, Sequences

CONSTANTS
    Number,     \* numbers a client may send: as an id or as a value
    Zero,       \* what istream gives for text that is no number
    Control,    \* those that are the id of a control
    CanTable,   \* what the root page shows: pairs of control and operation
    MaxPieces   \* bound: pieces of POST data in one request

(* Interfaces are numbered from 1, so no control has the id 0.             *)
ASSUME NumberAssumption  == Zero \in Number /\ Number \cap {"word", "empty", "none"} = {}
ASSUME ControlAssumption == Control \subseteq Number \ {Zero}
ASSUME TableAssumption   == CanTable \subseteq Control \X {"read", "readcounter", "readpwmmode"}
ASSUME BoundAssumption   == MaxPieces \in Nat

VARIABLES
    phase,      \* where the request is
    request,    \* its method, url and query
    callbacks,  \* callback_count + 1; 0 if con_cls is a null pointer
    values,     \* the POST values in con_cls
    variables,  \* what the page gets
    table,      \* what the root page still has to read
    done,       \* history: the control operations of this request
    signals,    \* history: what it gave to Interfaces::signal
    reply,      \* the status of the queued response
    body        \* history: the POST fields sent, all their pieces together

con_cls == <<callbacks, values>>
vars == <<phase, request, con_cls, variables, table, done, signals, reply, body>>

Method == {"GET", "POST", "HEAD"}
Fields == {"id", "value"}
Text   == Number \cup {"word", "empty"}

Partial(S, T) == UNION {[D -> T] : D \in SUBSET S}

-----------------------------------------------------------------------------
(* The pages: the control operation they are for and the fields they need. *)
page_dispatcher_root         == [op |-> "table",            needs |-> {}]
page_dispatcher_read         == [op |-> "read",             needs |-> {"id"}]
page_dispatcher_write        == [op |-> "write",            needs |-> {"id", "value"}]
page_dispatcher_readcounter  == [op |-> "readcounter",      needs |-> {"id"}]
page_dispatcher_resetcounter == [op |-> "readresetcounter", needs |-> {"id"}]
page_dispatcher_readpwmmode  == [op |-> "readpwmmode",      needs |-> {"id"}]
page_dispatcher_writepwmmode == [op |-> "writepwmmode",     needs |-> {"id", "value"}]
page_dispatcher_info         == [op |-> "info",             needs |-> {"id"}]
page_dispatcher_restart      == [op |-> "user_restart",     needs |-> {}]
page_dispatcher_quit         == [op |-> "user_quit",        needs |-> {}]
page_dispatcher_stylecss     == [op |-> "css",              needs |-> {}]

Pages ==
    {page_dispatcher_root, page_dispatcher_read, page_dispatcher_write,
     page_dispatcher_readcounter, page_dispatcher_resetcounter,
     page_dispatcher_readpwmmode, page_dispatcher_writepwmmode,
     page_dispatcher_info, page_dispatcher_restart, page_dispatcher_quit,
     page_dispatcher_stylecss}

(* A url is named by the page it maps to. *)
NotFound == [op |-> "none", needs |-> {}]
Urls     == Pages \cup {NotFound}
Page     == request.url

TableOps   == {"read", "readcounter", "readpwmmode"}
ControlOps == TableOps \cup {"write", "readresetcounter", "writepwmmode"}
Writes     == {"write", "writepwmmode"}

Signalling == {page_dispatcher_restart, page_dispatcher_quit}

Operations == [control : Control, op : ControlOps,
               value : Number \cup {"none"},
               outcome : {"ok", "minor", "major", "other", "string"}]

TypeOK ==
    /\ phase \in {"idle", "headers", "body", "handle", "page", "table",
                  "major", "replied", "terminated"}
    /\ request \in [method : Method, url : Urls, query : Partial(Fields, Text)]
    /\ callbacks \in 0 .. MaxPieces + 2
    /\ values \in Partial(Fields, Text)
    /\ variables \in Partial(Fields, Text)
    /\ table \subseteq CanTable
    /\ done \in Seq(Operations)
    /\ signals \in Seq({"user_quit", "user_restart", "major_error"})
    /\ reply \in {"none", "200", "400", "404", "405", "500"}
    /\ DOMAIN body \subseteq Fields
    /\ \A f \in DOMAIN body : body[f] \in Seq(Text)

-----------------------------------------------------------------------------
(* Taking the request in *)

Receive(m, u, q) ==
    /\ phase = "idle"
    /\ phase' = "headers"
    /\ request' = [method |-> m, url |-> u, query |-> q]
    /\ UNCHANGED <<con_cls, variables, table, done, signals, reply, body>>

(* The callback for the headers, without data. *)
HeaderCallback ==
    /\ phase = "headers"
    /\ callbacks' = callbacks + 1
    /\ phase' = IF request.method = "POST" /\ callbacks = 0 THEN "body" ELSE "handle"
    /\ UNCHANGED <<request, values, variables, table, done, signals, reply, body>>

(* callback_postdata_iterator keeps a piece as the whole value. *)
Stored(fields, f, x) == [g \in DOMAIN fields \cup {f} |-> IF g = f THEN x ELSE fields[g]]

(* A callback with data: a new field, or a further piece of the same one.  *)
DataCallback(f, t, piece) ==
    /\ phase = "body"
    /\ callbacks <= MaxPieces
    /\ piece = "further" => f \in DOMAIN body
    /\ callbacks' = callbacks + 1
    /\ values' = Stored(values, f, t)
    /\ body' = Stored(body, f, IF piece = "further" THEN Append(body[f], t) ELSE <<t>>)
    /\ UNCHANGED <<phase, request, variables, table, done, signals, reply>>

(* The last callback, without data. *)
LastCallback ==
    /\ phase = "body"
    /\ callbacks' = callbacks + 1
    /\ phase' = "handle"
    /\ UNCHANGED <<request, values, variables, table, done, signals, reply, body>>

(* What belongs to one request. *)
NoRequest == [method |-> "GET", url |-> NotFound, query |-> << >>]

Fresh ==
    /\ request' = NoRequest
    /\ variables' = << >>
    /\ table' = {}
    /\ done' = <<>>
    /\ signals' = <<>>
    /\ reply' = "none"
    /\ body' = << >>

(* callback_request_completed: after the reply, or the client went away.   *)
Freed_Kept == UNCHANGED con_cls
Freed == callbacks' = 0 /\ values' = << >>

Completed ==
    /\ phase \in {"body", "replied"}
    /\ phase' = "idle"
    /\ Freed
    /\ Fresh

-----------------------------------------------------------------------------
(* Handling it *)

Queue(status) == phase' = "replied" /\ reply' = status

(* map::insert leaves a field that is there as it is. *)
Merged_QueryWins(post, query) ==
    [f \in DOMAIN post \cup DOMAIN query |->
        IF f \in DOMAIN query THEN query[f] ELSE post[f]]

Merged(post, query) ==
    [f \in DOMAIN post \cup DOMAIN query |->
        IF f \in DOMAIN post THEN post[f] ELSE query[f]]

(* access_handler *)
Dispatch ==
    /\ phase = "handle"
    /\ IF Page = NotFound
       THEN Queue("404") /\ UNCHANGED variables
       ELSE /\ phase' = "page"
            /\ variables' = CASE request.method = "POST" -> Merged(values, request.query)
                              [] request.method = "GET"  -> request.query
                              [] OTHER                   -> << >>
            /\ UNCHANGED reply
    /\ UNCHANGED <<request, con_cls, table, done, signals, body>>

(* What each page checks first: the restart and quit pages check nothing.  *)
Allowed  == request.method \in {"GET", "POST"} \/ Page \in Signalling
Complete == Page.needs \subseteq DOMAIN variables

Refuse ==
    /\ phase = "page"
    /\ \/ ~Allowed /\ Queue("405")
       \/ Allowed /\ ~Complete /\ Queue("400")
    /\ UNCHANGED <<request, con_cls, variables, table, done, signals, body>>

SignalPage ==
    /\ phase = "page"
    /\ Page \in Signalling
    /\ signals' = Append(signals, Page.op)
    /\ Queue("200")
    /\ UNCHANGED <<request, con_cls, variables, table, done, body>>

(* ID(string) and Util::string_to_int: the empty text leaves the integer   *)
(* they read into uninitialized.                                           *)
Parse(t) ==
    CASE t \in Number -> {t}
      [] t = "word"   -> {Zero}
      [] t = "empty"  -> Number

(* find_control throws a minor_exception. *)
Missing ==
    /\ phase = "page"
    /\ Allowed /\ Complete
    /\ "id" \in Page.needs
    /\ Parse(variables["id"]) \ Control # {}
    /\ Queue("400")
    /\ UNCHANGED <<request, con_cls, variables, table, done, signals, body>>

(* How the exceptions of a control operation leave a page.  A string is no *)
(* std::exception: the throw(exception) of readpwmmode ends the process.   *)
Caught_Minor(outcome, status) ==
    CASE outcome = "string" -> phase' = "terminated" /\ UNCHANGED reply
      [] OTHER              -> Queue(status)

Caught(outcome, status) ==
    CASE outcome = "string" -> phase' = "terminated" /\ UNCHANGED reply
      [] outcome = "major"  -> phase' = "major" /\ UNCHANGED reply
      [] OTHER              -> Queue(status)

Outcomes(op) == {"ok", "minor", "major", "other"} \cup
                (IF op = "readpwmmode" THEN {"string"} ELSE {})

Ran(c, op, v, outcome) ==
    done' = Append(done, [control |-> c, op |-> op, value |-> v, outcome |-> outcome])

(* The pages of one control. *)
Operate(c, v, outcome) ==
    /\ phase = "page"
    /\ Allowed /\ Complete
    /\ Page.op \in ControlOps
    /\ c \in Parse(variables["id"]) \cap Control
    /\ v \in IF Page.op \in Writes THEN Parse(variables["value"]) ELSE {"none"}
    /\ outcome \in Outcomes(Page.op)
    /\ Ran(c, Page.op, v, outcome)
    /\ IF outcome = "ok" THEN Queue("200") ELSE Caught(outcome, "400")
    /\ UNCHANGED <<request, con_cls, variables, table, signals, body>>

Info(c) ==
    /\ phase = "page"
    /\ Allowed /\ Complete
    /\ Page = page_dispatcher_info
    /\ c \in Parse(variables["id"]) \cap Control
    /\ Queue("200")
    /\ UNCHANGED <<request, con_cls, variables, table, done, signals, body>>

StyleSheet ==
    /\ phase = "page"
    /\ Allowed
    /\ Page = page_dispatcher_stylecss
    /\ Queue("200")
    /\ UNCHANGED <<request, con_cls, variables, table, done, signals, body>>

(* The root page reads everything there is to read. *)
Table ==
    /\ phase = "page"
    /\ Allowed
    /\ Page = page_dispatcher_root
    /\ phase' = "table"
    /\ table' = CanTable
    /\ UNCHANGED <<request, con_cls, variables, done, signals, reply, body>>

TableRead_Partly(c, op, outcome) ==
    /\ phase = "table"
    /\ <<c, op>> \in table
    /\ outcome \in Outcomes(op)
    /\ Ran(c, op, "none", outcome)
    /\ IF outcome \in {"ok", "minor"}
       THEN table' = table \ {<<c, op>>} /\ UNCHANGED <<phase, reply>>
       ELSE Caught(outcome, "500") /\ table' = {}
    /\ UNCHANGED <<request, con_cls, variables, signals, body>>

TableRead(c, op, outcome) ==
    /\ phase = "table"
    /\ <<c, op>> \in table
    /\ outcome \in Outcomes(op)
    /\ Ran(c, op, "none", outcome)
    /\ IF outcome = "ok"
       THEN table' = table \ {<<c, op>>} /\ UNCHANGED <<phase, reply>>
       ELSE Caught(outcome, "500") /\ table' = {}
    /\ UNCHANGED <<request, con_cls, variables, signals, body>>

TableSent ==
    /\ phase = "table"
    /\ table = {}
    /\ Queue("200")
    /\ UNCHANGED <<request, con_cls, variables, table, done, signals, body>>

(* access_handler catches a major_exception of a page. *)
MajorError ==
    /\ phase = "major"
    /\ signals' = Append(signals, "major_error")
    /\ Queue("404")
    /\ UNCHANGED <<request, con_cls, variables, table, done, body>>

-----------------------------------------------------------------------------
Init ==
    /\ phase = "idle"
    /\ request = NoRequest
    /\ callbacks = 0
    /\ values = << >>
    /\ variables = << >>
    /\ table = {}
    /\ done = <<>>
    /\ signals = <<>>
    /\ reply = "none"
    /\ body = << >>

Intake ==
    \/ \E m \in Method, u \in Urls, q \in Partial(Fields, Text) : Receive(m, u, q)
    \/ HeaderCallback
    \/ \E f \in Fields, t \in Text, p \in {"new", "further"} : DataCallback(f, t, p)
    \/ LastCallback
    \/ Completed

Handling ==
    \/ Dispatch \/ Refuse \/ SignalPage \/ Missing \/ StyleSheet
    \/ Table \/ TableSent \/ MajorError
    \/ \E c \in Control :
          \/ Info(c)
          \/ \E v \in Number \cup {"none"}, o \in Outcomes(Page.op) : Operate(c, v, o)
          \/ \E op \in TableOps : \E o \in Outcomes(op) : TableRead(c, op, o)

Terminated == phase = "terminated" /\ UNCHANGED vars

Next == Intake \/ Handling \/ Terminated

Spec == Init /\ [][Next]_vars

-----------------------------------------------------------------------------
(* Properties *)

(* What the client means by a field: POST data before the query, and all   *)
(* of its pieces.                                                          *)
Meant(f) ==
    IF f \in DOMAIN body THEN body[f]
    ELSE IF f \in DOMAIN request.query THEN <<request.query[f]>> ELSE <<>>

Plain(f) == Len(Meant(f)) = 1 /\ Meant(f)[1] \in Number

(* A page of one control does its own operation, at most once, on the      *)
(* control and with the value that this request asked for.  Only a field   *)
(* that is not a number, or that came in several pieces, is misread;       *)
(* nothing of an earlier request on the connection is used.                *)
DoesWhatWasAsked ==
    done # <<>> /\ Page.op \in ControlOps =>
        /\ Len(done) = 1
        /\ done[1].op = Page.op
        /\ \A f \in Page.needs : Meant(f) # <<>>
        /\ Plain("id") => done[1].control = Meant("id")[1]
        /\ "value" \in Page.needs /\ Plain("value") => done[1].value = Meant("value")[1]

(* The status tells what happened to the controls: "200" if and only if    *)
(* all the page had to do was done, else the last operation failed or      *)
(* there was none.  The root page never shows a part of the table.         *)
Succeeded ==
    /\ \A i \in DOMAIN done : done[i].outcome = "ok"
    /\ Page.op \in ControlOps => done # <<>>
    /\ Page = page_dispatcher_root =>
          {<<done[i].control, done[i].op>> : i \in DOMAIN done} = CanTable

StatusTells ==
    phase = "replied" /\ Page \notin {NotFound, page_dispatcher_info} =>
        (reply = "200" <=> Allowed /\ Complete /\ Succeeded)

(* The main thread is signalled once for a major error of a device, once   *)
(* by the restart and quit pages, always before the reply, and never for   *)
(* anything else.                                                          *)
Failed(outcome) == \E i \in DOMAIN done : done[i].outcome = outcome

SignalsExplained ==
    /\ reply # "none" =>
          signals = IF Page \in Signalling THEN <<Page.op>>
                    ELSE IF Failed("major") THEN <<"major_error">> ELSE <<>>
    /\ reply = "none" => signals = <<>>
=============================================================================
