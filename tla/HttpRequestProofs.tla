-------------------------- MODULE HttpRequestProofs --------------------------
(***************************************************************************)
(* Proofs about HttpRequest for any controls, any numbers a client may     *)
(* send, any table and any number of pieces of POST data: a page does what *)
(* was asked, its status tells what happened, and main is signalled for    *)
(* what it has to know.                                                    *)
(***************************************************************************)
EXTENDS HttpRequest, TLAPS

(* The phases before a control operation, and those in which the page has  *)
(* its variables.                                                          *)
Early      == {"idle", "headers", "body", "handle", "page"}
Dispatched == {"page", "table", "major", "replied", "terminated"}

(* What each phase says of the reply, the operations and the signals.      *)
Phases ==
    /\ phase = "replied" <=> reply # "none"
    /\ phase \in Early => done = <<>>
    /\ phase = "major" => Failed("major") /\ Page \notin Signalling
    /\ phase = "table" =>
          /\ Page = page_dispatcher_root
          /\ Allowed
          /\ \A i \in DOMAIN done : done[i].outcome = "ok"
          /\ {<<done[i].control, done[i].op>> : i \in DOMAIN done} \cup table = CanTable

(* How far the callbacks of a request have come. *)
Counted ==
    /\ phase \in {"idle", "headers"} => callbacks = 0
    /\ phase = "body" => callbacks <= MaxPieces + 1

(* con_cls has the last piece of each field that was sent. *)
LastPieces ==
    /\ DOMAIN values = DOMAIN body
    /\ \A f \in DOMAIN body :
          /\ body[f] \in Seq(Text)
          /\ Len(body[f]) > 0
          /\ values[f] = body[f][Len(body[f])]
    /\ phase \in {"idle", "headers"} \/ request.method # "POST" => DOMAIN body = {}
    /\ phase = "body" => request.method = "POST"

(* A page gets what the client means, or the last piece of it. *)
VariablesAreMeant ==
    phase \in Dispatched /\ Page # NotFound =>
        \A f \in DOMAIN variables :
            /\ Meant(f) \in Seq(Text)
            /\ Len(Meant(f)) > 0
            /\ variables[f] = Meant(f)[Len(Meant(f))]

IInv ==
    /\ TypeOK /\ Phases /\ Counted /\ LastPieces /\ VariablesAreMeant
    /\ DoesWhatWasAsked /\ StatusTells /\ SignalsExplained

(* What the table of pages says: who signals, who needs which field.       *)
LEMMA PageFacts ==
    ASSUME NEW p \in Urls
    PROVE  /\ p \in Signalling => p.needs = {} /\ p.op \in {"user_restart", "user_quit"}
           /\ p.op \in ControlOps =>
                 /\ p \notin Signalling \cup {page_dispatcher_root, NotFound}
                 /\ "id" \in p.needs
                 /\ p.op \in Writes <=> "value" \in p.needs
           /\ p.needs \subseteq Fields
           /\ "id" \in p.needs => p.op \in ControlOps \/ p = page_dispatcher_info
BY DEF Urls, Pages, Signalling, ControlOps, TableOps, Writes, Fields, NotFound,
       page_dispatcher_root, page_dispatcher_read, page_dispatcher_write,
       page_dispatcher_readcounter, page_dispatcher_resetcounter,
       page_dispatcher_readpwmmode, page_dispatcher_writepwmmode,
       page_dispatcher_info, page_dispatcher_restart, page_dispatcher_quit,
       page_dispatcher_stylecss

(* The pages that are named in the properties are told apart. *)
LEMMA NamedPages ==
    /\ {NotFound, page_dispatcher_root, page_dispatcher_info, page_dispatcher_stylecss}
          \subseteq Urls \ Signalling
    /\ Signalling \subseteq Urls
    /\ NotFound.op \notin ControlOps
    /\ page_dispatcher_root.op \notin ControlOps
    /\ page_dispatcher_root.needs = {}
    /\ page_dispatcher_info.op \notin ControlOps
    /\ page_dispatcher_stylecss.op \notin ControlOps
    /\ page_dispatcher_stylecss.needs = {}
    /\ page_dispatcher_root # NotFound
    /\ page_dispatcher_stylecss \notin {NotFound, page_dispatcher_root, page_dispatcher_info}
BY DEF Urls, Pages, Signalling, ControlOps, TableOps, NotFound,
       page_dispatcher_root, page_dispatcher_read, page_dispatcher_write,
       page_dispatcher_readcounter, page_dispatcher_resetcounter,
       page_dispatcher_readpwmmode, page_dispatcher_writepwmmode,
       page_dispatcher_info, page_dispatcher_restart, page_dispatcher_quit,
       page_dispatcher_stylecss

(* Partial functions, by their domains *)
LEMMA PartialMembers ==
    ASSUME NEW S, NEW T, NEW g
    PROVE  g \in Partial(S, T) <=> DOMAIN g \subseteq S /\ g \in [DOMAIN g -> T]
BY DEF Partial

LEMMA EmptyIsPartial == << >> \in Partial(Fields, Text) /\ DOMAIN << >> = {}
<1>1. DOMAIN << >> = {}
  OBVIOUS
<1>2. << >> \in [{} -> Text]
  OBVIOUS
<1> QED
  BY <1>1, <1>2, PartialMembers

(* Every callback and every page leaves the types.                         *)
LEMMA MergedIsPartial ==
    ASSUME NEW post \in Partial(Fields, Text), NEW query \in Partial(Fields, Text)
    PROVE  Merged(post, query) \in Partial(Fields, Text)
<1>1. DOMAIN post \subseteq Fields /\ post \in [DOMAIN post -> Text]
  BY PartialMembers
<1>2. DOMAIN query \subseteq Fields /\ query \in [DOMAIN query -> Text]
  BY PartialMembers
<1>3. Merged(post, query) \in [DOMAIN post \cup DOMAIN query -> Text]
  BY <1>1, <1>2 DEF Merged
<1> QED
  BY <1>1, <1>2, <1>3, PartialMembers

(* No callback and no page leaves the types. *)
LEMMA TypeStep ==
    TypeOK /\ Counted /\ [Next]_vars => TypeOK'
<1> SUFFICES ASSUME TypeOK, Counted, [Next]_vars
             PROVE  TypeOK'
  OBVIOUS
<1> USE DEF TypeOK
<1>1. ASSUME NEW m \in Method, NEW u \in Urls, NEW q \in Partial(Fields, Text),
            Receive(m, u, q)
     PROVE  TypeOK'
  BY <1>1 DEF Receive, con_cls
<1>2. CASE HeaderCallback
  BY <1>2, BoundAssumption DEF HeaderCallback, Counted
<1>3. ASSUME NEW f \in Fields, NEW t \in Text, NEW p \in {"new", "further"},
            DataCallback(f, t, p)
     PROVE  TypeOK'
  <2>1. values \in [DOMAIN values -> Text] /\ DOMAIN values \subseteq Fields
    BY PartialMembers
  <2>2. values' \in [DOMAIN values \cup {f} -> Text]
    BY <1>3, <2>1 DEF DataCallback, Stored
  <2>3. values' \in Partial(Fields, Text)
    BY <2>1, <2>2, PartialMembers
  <2>4. DOMAIN body' \subseteq Fields
    BY <1>3 DEF DataCallback, Stored
  <2>5. ASSUME NEW g \in DOMAIN body' PROVE body'[g] \in Seq(Text)
    BY <1>3 DEF DataCallback, Stored
  <2>6. callbacks' \in 0 .. MaxPieces + 2
    BY <1>3, BoundAssumption DEF DataCallback
  <2> QED
    BY <1>3, <2>3, <2>4, <2>5, <2>6 DEF DataCallback
<1>4. CASE LastCallback
  BY <1>4, BoundAssumption DEF LastCallback, Counted
<1>5. CASE Completed
  <2>1. request' \in [method : Method, url : Urls, query : Partial(Fields, Text)]
    BY <1>5, EmptyIsPartial, NamedPages DEF Completed, Fresh, NoRequest, Method
  <2>2. callbacks' = 0 /\ values' = << >> /\ variables' = << >> /\ body' = << >>
    BY <1>5 DEF Completed, Freed, Fresh
  <2>3. phase' = "idle" /\ table' = {} /\ done' = <<>> /\ signals' = <<>> /\ reply' = "none"
    BY <1>5 DEF Completed, Fresh
  <2> QED
    BY <2>1, <2>2, <2>3, EmptyIsPartial, BoundAssumption
<1>6. CASE Dispatch
  <2>1. request.query \in Partial(Fields, Text)
    OBVIOUS
  <2>2. variables' \in Partial(Fields, Text)
    BY <1>6, <2>1, EmptyIsPartial, MergedIsPartial DEF Dispatch
  <2> QED
    BY <1>6, <2>2 DEF Dispatch, Queue, con_cls
<1>7. CASE Refuse
  BY <1>7 DEF Refuse, Queue, con_cls
<1>8. CASE SignalPage
  <2>1. Page.op \in {"user_restart", "user_quit"}
    BY <1>8, PageFacts DEF SignalPage, Page
  <2> QED
    BY <1>8, <2>1 DEF SignalPage, Queue, con_cls
<1>9. CASE Missing
  BY <1>9 DEF Missing, Queue, con_cls
<1>10. CASE StyleSheet
  BY <1>10 DEF StyleSheet, Queue, con_cls
<1>11. CASE Table
  BY <1>11 DEF Table, con_cls
<1>12. CASE TableSent
  BY <1>12 DEF TableSent, Queue, con_cls
<1>13. CASE MajorError
  BY <1>13 DEF MajorError, Queue, con_cls
<1>14. ASSUME NEW c \in Control, Info(c) PROVE TypeOK'
  BY <1>14 DEF Info, Queue, con_cls
<1>15. ASSUME NEW c \in Control, NEW v \in Number \cup {"none"}, NEW o \in Outcomes(Page.op),
             Operate(c, v, o)
      PROVE  TypeOK'
  <2>1. [control |-> c, op |-> Page.op, value |-> v, outcome |-> o] \in Operations
    BY <1>15 DEF Operate, Operations, Outcomes
  <2>2. done' \in Seq(Operations)
    BY <1>15, <2>1 DEF Operate, Ran
  <2> QED
    BY <1>15, <2>2 DEF Operate, Queue, Caught, con_cls
<1>16. ASSUME NEW c \in Control, NEW op \in TableOps, NEW o \in Outcomes(op),
             TableRead(c, op, o)
      PROVE  TypeOK'
  <2>1. [control |-> c, op |-> op, value |-> "none", outcome |-> o] \in Operations
    BY <1>16 DEF Operations, Outcomes, ControlOps
  <2>2. done' \in Seq(Operations)
    BY <1>16, <2>1 DEF TableRead, Ran
  <2> QED
    BY <1>16, <2>2 DEF TableRead, Queue, Caught, con_cls
<1>17. CASE UNCHANGED vars
  BY <1>17 DEF vars, con_cls
<1> QED
  BY <1>1, <1>2, <1>3, <1>4, <1>5, <1>6, <1>7, <1>8, <1>9,
     <1>10, <1>11, <1>12, <1>13, <1>14, <1>15, <1>16, <1>17
     DEF Next, Intake, Handling, Terminated

(* Each phase comes after a certain number of callbacks. *)
LEMMA CountedStep ==
    TypeOK /\ Counted /\ [Next]_vars => Counted'
<1> SUFFICES ASSUME TypeOK, Counted, [Next]_vars
             PROVE  Counted'
  OBVIOUS
<1> USE BoundAssumption DEF TypeOK, Counted
<1>1. ASSUME NEW m \in Method, NEW u \in Urls, NEW q \in Partial(Fields, Text),
            Receive(m, u, q)
     PROVE  Counted'
  BY <1>1 DEF Receive, con_cls
<1>2. CASE HeaderCallback
  BY <1>2 DEF HeaderCallback, con_cls
<1>3. ASSUME NEW f \in Fields, NEW t \in Text, NEW p \in {"new", "further"},
            DataCallback(f, t, p)
     PROVE  Counted'
  BY <1>3 DEF DataCallback, Stored, con_cls
<1>4. CASE LastCallback
  BY <1>4 DEF LastCallback, con_cls
<1>5. CASE Completed
  BY <1>5 DEF Completed, Freed, Fresh, NoRequest, con_cls
<1>6. CASE Dispatch
  BY <1>6 DEF Dispatch, Queue, con_cls
<1>7. CASE Refuse
  BY <1>7 DEF Refuse, Queue, con_cls
<1>8. CASE SignalPage
  BY <1>8 DEF SignalPage, Queue, con_cls
<1>9. CASE Missing
  BY <1>9 DEF Missing, Queue, con_cls
<1>10. CASE StyleSheet
  BY <1>10 DEF StyleSheet, Queue, con_cls
<1>11. CASE Table
  BY <1>11 DEF Table, con_cls
<1>12. CASE TableSent
  BY <1>12 DEF TableSent, Queue, con_cls
<1>13. CASE MajorError
  BY <1>13 DEF MajorError, Queue, con_cls
<1>14. ASSUME NEW c \in Control, Info(c) PROVE Counted'
  BY <1>14 DEF Info, Queue, con_cls
<1>15. ASSUME NEW c \in Control, NEW v \in Number \cup {"none"}, NEW o \in Outcomes(Page.op),
             Operate(c, v, o)
      PROVE  Counted'
  BY <1>15 DEF Operate, Queue, Caught, Ran, con_cls
<1>16. ASSUME NEW c \in Control, NEW op \in TableOps, NEW o \in Outcomes(op),
             TableRead(c, op, o)
      PROVE  Counted'
  BY <1>16 DEF TableRead, Queue, Caught, Ran, con_cls
<1>17. CASE UNCHANGED vars
  BY <1>17 DEF vars, con_cls
<1> QED
  BY <1>1, <1>2, <1>3, <1>4, <1>5, <1>6, <1>7, <1>8, <1>9,
     <1>10, <1>11, <1>12, <1>13, <1>14, <1>15, <1>16, <1>17
     DEF Next, Intake, Handling, Terminated

(* Appending to a sequence adds one to what its elements are mapped to. *)
LEMMA AppendedPairs ==
    ASSUME NEW d \in Seq(Operations), NEW e \in Operations
    PROVE  /\ DOMAIN Append(d, e) = DOMAIN d \cup {Len(d) + 1}
           /\ \A i \in DOMAIN d : Append(d, e)[i] = d[i]
           /\ Append(d, e)[Len(d) + 1] = e
           /\ {<<Append(d, e)[i].control, Append(d, e)[i].op>> : i \in DOMAIN Append(d, e)}
                 = {<<d[i].control, d[i].op>> : i \in DOMAIN d} \cup {<<e.control, e.op>>}
<1> DEFINE a == Append(d, e)
<1>1. Len(d) \in Nat /\ DOMAIN d = 1 .. Len(d)
  OBVIOUS
<1>2. DOMAIN a = DOMAIN d \cup {Len(d) + 1}
  BY <1>1
<1>3. \A i \in DOMAIN d : a[i] = d[i]
  BY <1>1
<1>4. a[Len(d) + 1] = e
  BY <1>1
<1> HIDE DEF a
<1>5. {<<a[i].control, a[i].op>> : i \in DOMAIN a}
         = {<<d[i].control, d[i].op>> : i \in DOMAIN d} \cup {<<e.control, e.op>>}
  BY <1>2, <1>3, <1>4
<1> QED
  BY <1>2, <1>3, <1>4, <1>5 DEF a

(* The first operation of a request. *)
LEMMA FirstOperation ==
    ASSUME NEW e \in Operations
    PROVE  /\ Append(<<>>, e) = <<e>>
           /\ Len(<<e>>) = 1 /\ DOMAIN <<e>> = {1} /\ <<e>>[1] = e
OBVIOUS

(* The phases of a request, its operations and its reply go together. *)
LEMMA PhasesStep ==
    TypeOK /\ Phases /\ [Next]_vars => Phases'
<1> SUFFICES ASSUME TypeOK, Phases, [Next]_vars
             PROVE  Phases'
  OBVIOUS
<1> USE DEF Phases
<1>1. ASSUME NEW m \in Method, NEW u \in Urls, NEW q \in Partial(Fields, Text),
            Receive(m, u, q)
     PROVE  Phases'
  BY <1>1 DEF Receive, Early, Page, Allowed, Failed, con_cls
<1>2. CASE HeaderCallback
  BY <1>2 DEF HeaderCallback, Early, Page, Allowed, Failed, con_cls
<1>3. ASSUME NEW f \in Fields, NEW t \in Text, NEW p \in {"new", "further"},
            DataCallback(f, t, p)
     PROVE  Phases'
  BY <1>3 DEF DataCallback, Stored, Early, Page, Allowed, Failed, con_cls
<1>4. CASE LastCallback
  BY <1>4 DEF LastCallback, Early, Page, Allowed, Failed, con_cls
<1>5. CASE Completed
  BY <1>5 DEF Completed, Freed, Fresh, NoRequest, Early, Page, Allowed, Failed, con_cls
<1>6. CASE Dispatch
  BY <1>6 DEF Dispatch, Queue, Early, Page, Allowed, Failed, con_cls
<1>7. CASE Refuse
  BY <1>7 DEF Refuse, Queue, Early, Page, Allowed, Failed, con_cls
<1>8. CASE SignalPage
  BY <1>8 DEF SignalPage, Queue, Early, Page, Allowed, Failed, con_cls
<1>9. CASE Missing
  BY <1>9 DEF Missing, Queue, Early, Page, Allowed, Failed, con_cls
<1>10. CASE StyleSheet
  BY <1>10 DEF StyleSheet, Queue, Early, Page, Allowed, Failed, con_cls
<1>11. CASE Table
  <2>1. done = <<>> /\ done' = done /\ request' = request /\ table' = CanTable
    BY <1>11 DEF Table, Early
  <2>2. DOMAIN done' = {}
    BY <2>1
  <2> QED
    BY <1>11, <2>1, <2>2 DEF Table, Early, Page, Allowed
<1>12. CASE TableSent
  BY <1>12 DEF TableSent, Queue, Early, Page, Allowed, Failed, con_cls
<1>13. CASE MajorError
  BY <1>13 DEF MajorError, Queue, Early, Page, Allowed, Failed, con_cls
<1>14. ASSUME NEW c \in Control, Info(c) PROVE Phases'
  BY <1>14 DEF Info, Queue, Early, Page, Allowed, Failed, con_cls
<1>15. ASSUME NEW c \in Control, NEW v \in Number \cup {"none"}, NEW o \in Outcomes(Page.op),
             Operate(c, v, o)
      PROVE  Phases'
  <2>1. PICK e \in Operations : e.outcome = o /\ done' = Append(done, e)
    BY <1>15 DEF Operate, Ran, Operations, Outcomes, TypeOK
  <2>2. done = <<>>
    BY <1>15 DEF Operate, Early
  <2>3. done' = <<e>> /\ DOMAIN done' = {1} /\ done'[1] = e
    BY <2>1, <2>2, FirstOperation
  <2>4. Page \notin Signalling /\ request' = request /\ phase' \notin Early \cup {"table"}
    BY <1>15, PageFacts DEF Operate, Queue, Caught, Page, TypeOK, Early
  <2>5. phase' = "major" => o = "major"
    BY <1>15 DEF Operate, Queue, Caught
  <2>6. phase' = "replied" <=> reply' # "none"
    BY <1>15 DEF Operate, Queue, Caught
  <2> QED
    BY <2>1, <2>3, <2>4, <2>5, <2>6 DEF Failed, Page, Early
<1>16. ASSUME NEW c \in Control, NEW op \in TableOps, NEW o \in Outcomes(op),
             TableRead(c, op, o)
      PROVE  Phases'
  <2>1. PICK e \in Operations : /\ e.control = c /\ e.op = op /\ e.outcome = o
                               /\ done' = Append(done, e)
    BY <1>16 DEF TableRead, Ran, Operations, Outcomes, ControlOps, TypeOK
  <2>2. done \in Seq(Operations) /\ phase = "table" /\ Page = page_dispatcher_root /\ Allowed
    BY <1>16 DEF TableRead, TypeOK
  <2>3. /\ DOMAIN done' = DOMAIN done \cup {Len(done) + 1}
        /\ \A i \in DOMAIN done : done'[i] = done[i]
        /\ done'[Len(done) + 1] = e
        /\ {<<done'[i].control, done'[i].op>> : i \in DOMAIN done'}
              = {<<done[i].control, done[i].op>> : i \in DOMAIN done} \cup {<<c, op>>}
    BY <2>1, <2>2, AppendedPairs
  <2>4. request' = request /\ phase' \in {"table", "replied", "major", "terminated"}
    BY <1>16 DEF TableRead, Queue, Caught
  <2>5. Page = Page' /\ (Allowed => Allowed')
    BY <2>4 DEF Page, Allowed
  <2>6. CASE o = "ok"
    <3>1. table' = table \ {<<c, op>>} /\ phase' = phase /\ reply' = reply /\ <<c, op>> \in table
      BY <1>16, <2>6 DEF TableRead
    <3>2. {<<done'[i].control, done'[i].op>> : i \in DOMAIN done'} \cup table' = CanTable
      BY <2>2, <2>3, <3>1
    <3>3. \A i \in DOMAIN done' : done'[i].outcome = "ok"
      BY <2>1, <2>2, <2>3, <2>6
    <3> QED
      BY <2>2, <2>5, <3>1, <3>2, <3>3 DEF Early
  <2>7. CASE o # "ok"
    <3>1. /\ phase' \in {"replied", "major", "terminated"}
          /\ phase' = "major" => o = "major"
          /\ phase' = "replied" <=> reply' # "none"
      BY <1>16, <2>2, <2>7 DEF TableRead, Queue, Caught
    <3>2. phase' = "major" => Failed("major")'
      BY <2>1, <2>3, <3>1 DEF Failed
    <3>3. Page' \notin Signalling
      BY <2>2, <2>5, NamedPages
    <3> QED
      BY <3>1, <3>2, <3>3 DEF Early
  <2> QED
    BY <2>6, <2>7
<1>17. CASE UNCHANGED vars
  BY <1>17 DEF vars, con_cls, Early, Page, Allowed, Failed
<1> QED
  BY <1>1, <1>2, <1>3, <1>4, <1>5, <1>6, <1>7, <1>8, <1>9,
     <1>10, <1>11, <1>12, <1>13, <1>14, <1>15, <1>16, <1>17
     DEF Next, Intake, Handling, Terminated

(* A piece is kept as the value of its field until the request is over. *)
LEMMA LastPiecesStep ==
    TypeOK /\ LastPieces /\ [Next]_vars => LastPieces'
<1> SUFFICES ASSUME TypeOK, LastPieces, [Next]_vars
             PROVE  LastPieces'
  OBVIOUS
<1> USE DEF LastPieces
<1>1. ASSUME NEW m \in Method, NEW u \in Urls, NEW q \in Partial(Fields, Text),
            Receive(m, u, q)
     PROVE  LastPieces'
  BY <1>1 DEF Receive, con_cls
<1>2. CASE HeaderCallback
  BY <1>2 DEF HeaderCallback, con_cls
<1>3. ASSUME NEW f \in Fields, NEW t \in Text, NEW p \in {"new", "further"},
            DataCallback(f, t, p)
     PROVE  LastPieces'
  <2>1. /\ DOMAIN values' = DOMAIN values \cup {f} /\ DOMAIN body' = DOMAIN body \cup {f}
        /\ \A g \in DOMAIN body : g # f => values'[g] = values[g] /\ body'[g] = body[g]
        /\ values'[f] = t
        /\ body'[f] = IF p = "further" THEN Append(body[f], t) ELSE <<t>>
    BY <1>3 DEF DataCallback, Stored
  <2>2. /\ phase' = "body" /\ phase = "body" /\ request' = request
        /\ p = "further" => f \in DOMAIN body
    BY <1>3 DEF DataCallback
  <2>3. CASE p = "further"
    <3>1. body[f] \in Seq(Text) /\ body'[f] = Append(body[f], t)
      BY <2>1, <2>2, <2>3
    <3>2. body'[f] \in Seq(Text) /\ Len(body'[f]) > 0 /\ body'[f][Len(body'[f])] = t
      BY <3>1
    <3> QED
      BY <2>1, <2>2, <3>2
  <2>4. CASE p # "further"
    <3>1. body'[f] \in Seq(Text) /\ Len(body'[f]) > 0 /\ body'[f][Len(body'[f])] = t
      BY <2>1, <2>4
    <3> QED
      BY <2>1, <2>2, <3>1
  <2> QED
    BY <2>3, <2>4
<1>4. CASE LastCallback
  BY <1>4 DEF LastCallback, con_cls
<1>5. CASE Completed
  <2>1. values' = << >> /\ body' = << >> /\ phase' = "idle"
    BY <1>5 DEF Completed, Freed, Fresh
  <2> QED
    BY <2>1, EmptyIsPartial
<1>6. CASE Dispatch
  BY <1>6 DEF Dispatch, Queue, con_cls
<1>7. CASE Refuse
  BY <1>7 DEF Refuse, Queue, con_cls
<1>8. CASE SignalPage
  BY <1>8 DEF SignalPage, Queue, con_cls
<1>9. CASE Missing
  BY <1>9 DEF Missing, Queue, con_cls
<1>10. CASE StyleSheet
  BY <1>10 DEF StyleSheet, Queue, con_cls
<1>11. CASE Table
  BY <1>11 DEF Table, con_cls
<1>12. CASE TableSent
  BY <1>12 DEF TableSent, Queue, con_cls
<1>13. CASE MajorError
  BY <1>13 DEF MajorError, Queue, con_cls
<1>14. ASSUME NEW c \in Control, Info(c) PROVE LastPieces'
  BY <1>14 DEF Info, Queue, con_cls
<1>15. ASSUME NEW c \in Control, NEW v \in Number \cup {"none"}, NEW o \in Outcomes(Page.op),
             Operate(c, v, o)
      PROVE  LastPieces'
  BY <1>15 DEF Operate, Queue, Caught, Ran, con_cls
<1>16. ASSUME NEW c \in Control, NEW op \in TableOps, NEW o \in Outcomes(op),
             TableRead(c, op, o)
      PROVE  LastPieces'
  BY <1>16 DEF TableRead, Queue, Caught, Ran, con_cls
<1>17. CASE UNCHANGED vars
  BY <1>17 DEF vars, con_cls
<1> QED
  BY <1>1, <1>2, <1>3, <1>4, <1>5, <1>6, <1>7, <1>8, <1>9,
     <1>10, <1>11, <1>12, <1>13, <1>14, <1>15, <1>16, <1>17
     DEF Next, Intake, Handling, Terminated

(* What a page gets stays what the client meant, or its last piece. *)
LEMMA MeantStep ==
    TypeOK /\ LastPieces /\ VariablesAreMeant /\ [Next]_vars => VariablesAreMeant'
<1> SUFFICES ASSUME TypeOK, LastPieces, VariablesAreMeant, [Next]_vars
             PROVE  VariablesAreMeant'
  OBVIOUS
<1> USE DEF VariablesAreMeant
<1>1. ASSUME NEW m \in Method, NEW u \in Urls, NEW q \in Partial(Fields, Text),
            Receive(m, u, q)
     PROVE  VariablesAreMeant'
  BY <1>1 DEF Receive, Dispatched, Page, Meant, con_cls
<1>2. CASE HeaderCallback
  BY <1>2 DEF HeaderCallback, Dispatched, Page, Meant, con_cls
<1>3. ASSUME NEW f \in Fields, NEW t \in Text, NEW p \in {"new", "further"},
            DataCallback(f, t, p)
     PROVE  VariablesAreMeant'
  BY <1>3 DEF DataCallback, Stored, Dispatched, Page, Meant, con_cls
<1>4. CASE LastCallback
  BY <1>4 DEF LastCallback, Dispatched, Page, Meant, con_cls
<1>5. CASE Completed
  BY <1>5 DEF Completed, Freed, Fresh, NoRequest, Dispatched, Page, Meant, con_cls
<1>6. CASE Dispatch
  <2>1. /\ request' = request /\ body' = body
        /\ Page # NotFound =>
              variables' = CASE request.method = "POST" -> Merged(values, request.query)
                             [] request.method = "GET"  -> request.query
                             [] OTHER                   -> << >>
    BY <1>6 DEF Dispatch
  <2>2. SUFFICES ASSUME Page # NotFound, NEW f \in DOMAIN variables'
                 PROVE  /\ Meant(f)' \in Seq(Text)
                        /\ Len(Meant(f)') > 0
                        /\ variables'[f] = Meant(f)'[Len(Meant(f)')]
    BY <2>1 DEF Page
  <2>3. Meant(f)' = Meant(f)
    BY <2>1 DEF Meant
  <2>4. request.query \in [DOMAIN request.query -> Text]
    BY PartialMembers DEF TypeOK
  <2>5. CASE f \in DOMAIN body
    <3>1. request.method = "POST"
      BY <2>5 DEF LastPieces
    <3>2. variables'[f] = values[f]
      BY <2>1, <2>2, <2>5, <3>1 DEF Merged, LastPieces
    <3> QED
      BY <2>3, <2>5, <3>2 DEF LastPieces, Meant
  <2>6. CASE f \notin DOMAIN body
    <3>1. f \in DOMAIN request.query /\ variables'[f] = request.query[f]
      BY <2>1, <2>2, <2>6, EmptyIsPartial DEF Merged, LastPieces
    <3>2. Meant(f) = <<request.query[f]>>
      BY <2>6, <3>1 DEF Meant
    <3> QED
      BY <2>3, <2>4, <3>1, <3>2
  <2> QED
    BY <2>5, <2>6
<1>7. CASE Refuse
  BY <1>7 DEF Refuse, Queue, Dispatched, Page, Meant, con_cls
<1>8. CASE SignalPage
  BY <1>8 DEF SignalPage, Queue, Dispatched, Page, Meant, con_cls
<1>9. CASE Missing
  BY <1>9 DEF Missing, Queue, Dispatched, Page, Meant, con_cls
<1>10. CASE StyleSheet
  BY <1>10 DEF StyleSheet, Queue, Dispatched, Page, Meant, con_cls
<1>11. CASE Table
  BY <1>11 DEF Table, Dispatched, Page, Meant, con_cls
<1>12. CASE TableSent
  BY <1>12 DEF TableSent, Queue, Dispatched, Page, Meant, con_cls
<1>13. CASE MajorError
  BY <1>13 DEF MajorError, Queue, Dispatched, Page, Meant, con_cls
<1>14. ASSUME NEW c \in Control, Info(c) PROVE VariablesAreMeant'
  BY <1>14 DEF Info, Queue, Dispatched, Page, Meant, con_cls
<1>15. ASSUME NEW c \in Control, NEW v \in Number \cup {"none"}, NEW o \in Outcomes(Page.op),
             Operate(c, v, o)
      PROVE  VariablesAreMeant'
  BY <1>15 DEF Operate, Queue, Caught, Ran, Dispatched, Page, Meant, con_cls
<1>16. ASSUME NEW c \in Control, NEW op \in TableOps, NEW o \in Outcomes(op),
             TableRead(c, op, o)
      PROVE  VariablesAreMeant'
  BY <1>16 DEF TableRead, Queue, Caught, Ran, Dispatched, Page, Meant, con_cls
<1>17. CASE UNCHANGED vars
  BY <1>17 DEF vars, con_cls, Dispatched, Page, Meant
<1> QED
  BY <1>1, <1>2, <1>3, <1>4, <1>5, <1>6, <1>7, <1>8, <1>9,
     <1>10, <1>11, <1>12, <1>13, <1>14, <1>15, <1>16, <1>17
     DEF Next, Intake, Handling, Terminated

(* A page's operation is the one that was asked for. *)
LEMMA DoesStep ==
    TypeOK /\ Phases /\ VariablesAreMeant /\ DoesWhatWasAsked /\ [Next]_vars => DoesWhatWasAsked'
<1> SUFFICES ASSUME TypeOK, Phases, VariablesAreMeant, DoesWhatWasAsked, [Next]_vars
             PROVE  DoesWhatWasAsked'
  OBVIOUS
<1> USE DEF DoesWhatWasAsked
<1>1. ASSUME NEW m \in Method, NEW u \in Urls, NEW q \in Partial(Fields, Text),
            Receive(m, u, q)
     PROVE  DoesWhatWasAsked'
  BY <1>1 DEF Receive, Phases, Early, con_cls
<1>2. CASE HeaderCallback
  BY <1>2 DEF HeaderCallback, Phases, Early, con_cls
<1>3. ASSUME NEW f \in Fields, NEW t \in Text, NEW p \in {"new", "further"},
            DataCallback(f, t, p)
     PROVE  DoesWhatWasAsked'
  BY <1>3 DEF DataCallback, Stored, Phases, Early, con_cls
<1>4. CASE LastCallback
  BY <1>4 DEF LastCallback, Phases, Early, con_cls
<1>5. CASE Completed
  BY <1>5 DEF Completed, Freed, Fresh, NoRequest, Phases, Early, con_cls
<1>6. CASE Dispatch
  BY <1>6 DEF Dispatch, Queue, Phases, Early, con_cls
<1>7. CASE Refuse
  BY <1>7 DEF Refuse, Queue, Phases, Early, con_cls
<1>8. CASE SignalPage
  BY <1>8 DEF SignalPage, Queue, Phases, Early, con_cls
<1>9. CASE Missing
  BY <1>9 DEF Missing, Queue, Phases, Early, con_cls
<1>10. CASE StyleSheet
  BY <1>10 DEF StyleSheet, Queue, Phases, Early, con_cls
<1>11. CASE Table
  BY <1>11 DEF Table, Phases, Early, con_cls
<1>12. CASE TableSent
  BY <1>12 DEF TableSent, Page, Meant, Plain, con_cls
<1>13. CASE MajorError
  BY <1>13 DEF MajorError, Page, Meant, Plain, con_cls
<1>14. ASSUME NEW c \in Control, Info(c) PROVE DoesWhatWasAsked'
  BY <1>14 DEF Info, Queue, Phases, Early, con_cls
<1>15. ASSUME NEW c \in Control, NEW v \in Number \cup {"none"}, NEW o \in Outcomes(Page.op),
             Operate(c, v, o)
      PROVE  DoesWhatWasAsked'
  <2>1. PICK e \in Operations :
           /\ e.control = c /\ e.op = Page.op /\ e.value = v
           /\ done' = Append(done, e)
    BY <1>15 DEF Operate, Ran, Operations, Outcomes, TypeOK
  <2>2. done = <<>> /\ phase = "page" /\ Page.op \in ControlOps /\ Complete
    BY <1>15 DEF Operate, Phases, Early
  <2>3. done' = <<e>> /\ Len(done') = 1 /\ done'[1] = e
    BY <2>1, <2>2, FirstOperation
  <2>4. request' = request /\ body' = body
    BY <1>15 DEF Operate
  <2>5. Page' = Page /\ \A f \in Fields : Meant(f)' = Meant(f) /\ Plain(f)' = Plain(f)
    BY <2>4 DEF Page, Meant, Plain
  <2>6. Page \in Urls /\ Page # NotFound /\ Page.needs \subseteq DOMAIN variables \cap Fields
    BY <2>2, PageFacts, NamedPages DEF Page, Complete, TypeOK
  <2>7. ASSUME NEW f \in Page.needs
        PROVE  /\ Meant(f) # <<>>
               /\ Plain(f) => Meant(f)[1] = variables[f] /\ Parse(variables[f]) = {variables[f]}
    <3>1. /\ Meant(f) \in Seq(Text) /\ Len(Meant(f)) > 0
          /\ variables[f] = Meant(f)[Len(Meant(f))]
      BY <2>2, <2>6 DEF VariablesAreMeant, Dispatched
    <3>2. Meant(f) # <<>>
      BY <3>1
    <3>3. Plain(f) => variables[f] = Meant(f)[1] /\ variables[f] \in Number
      BY <3>1 DEF Plain
    <3> QED
      BY <3>2, <3>3, NumberAssumption DEF Parse
  <2>8. "id" \in Page.needs /\ (Page.op \in Writes <=> "value" \in Page.needs)
    BY <2>2, <2>6, PageFacts
  <2>9. Plain("id") => c = Meant("id")[1]
    BY <1>15, <2>7, <2>8 DEF Operate
  <2>10. "value" \in Page.needs /\ Plain("value") => v = Meant("value")[1]
    BY <1>15, <2>7, <2>8 DEF Operate
  <2>11. \A f \in Page.needs : Meant(f)' # <<>>
    BY <2>5, <2>6, <2>7
  <2>12. "id" \in Fields /\ "value" \in Fields
    BY DEF Fields
  <2> QED
    BY <2>1, <2>3, <2>5, <2>9, <2>10, <2>11, <2>12
<1>16. ASSUME NEW c \in Control, NEW op \in TableOps, NEW o \in Outcomes(op),
             TableRead(c, op, o)
      PROVE  DoesWhatWasAsked'
  <2>1. request' = request /\ Page = page_dispatcher_root
    BY <1>16 DEF TableRead, Phases
  <2> QED
    BY <2>1, NamedPages DEF Page
<1>17. CASE UNCHANGED vars
  BY <1>17 DEF vars, con_cls, Page, Meant, Plain
<1> QED
  BY <1>1, <1>2, <1>3, <1>4, <1>5, <1>6, <1>7, <1>8, <1>9,
     <1>10, <1>11, <1>12, <1>13, <1>14, <1>15, <1>16, <1>17
     DEF Next, Intake, Handling, Terminated

(* A reply is queued with the status of what was done. *)
LEMMA StatusStep ==
    TypeOK /\ Phases /\ StatusTells /\ [Next]_vars => StatusTells'
<1> SUFFICES ASSUME TypeOK, Phases, StatusTells, [Next]_vars
             PROVE  StatusTells'
  OBVIOUS
<1> USE DEF StatusTells
<1>1. ASSUME NEW m \in Method, NEW u \in Urls, NEW q \in Partial(Fields, Text),
            Receive(m, u, q)
     PROVE  StatusTells'
  BY <1>1 DEF Receive, Phases, Early, Page, Allowed, Complete, Succeeded, con_cls
<1>2. CASE HeaderCallback
  BY <1>2 DEF HeaderCallback, Phases, Early, Page, Allowed, Complete, Succeeded, con_cls
<1>3. ASSUME NEW f \in Fields, NEW t \in Text, NEW p \in {"new", "further"},
            DataCallback(f, t, p)
     PROVE  StatusTells'
  BY <1>3 DEF DataCallback, Stored, Phases, Early, Page, Allowed, Complete, Succeeded, con_cls
<1>4. CASE LastCallback
  BY <1>4 DEF LastCallback, Phases, Early, Page, Allowed, Complete, Succeeded, con_cls
<1>5. CASE Completed
  BY <1>5 DEF Completed, Freed, Fresh, NoRequest, Phases, Early, Page, Allowed, Complete, Succeeded, con_cls
<1>6. CASE Dispatch
  BY <1>6 DEF Dispatch, Queue, Phases, Early, Page, Allowed, Complete, Succeeded, con_cls
<1>7. CASE Refuse
  BY <1>7 DEF Refuse, Queue, Page, Allowed, Complete, con_cls
<1>8. CASE SignalPage
  <2>1. done' = <<>> /\ request' = request /\ variables' = variables /\ reply' = "200"
    BY <1>8 DEF SignalPage, Queue, Phases, Early, con_cls
  <2>2. Page \in Signalling /\ Page.needs = {} /\ Page.op \notin ControlOps
    BY <1>8, PageFacts DEF SignalPage, Page, TypeOK
  <2>3. Page # page_dispatcher_root
    BY <2>2, NamedPages
  <2> QED
    BY <2>1, <2>2, <2>3 DEF Page, Allowed, Complete, Succeeded
<1>9. CASE Missing
  <2>1. done' = <<>> /\ request' = request /\ reply' = "400"
    BY <1>9 DEF Missing, Queue, Phases, Early, con_cls
  <2>2. Page.op \in ControlOps \/ Page = page_dispatcher_info
    BY <1>9, PageFacts DEF Missing, Page, TypeOK
  <2> QED
    BY <2>1, <2>2 DEF Page, Succeeded
<1>10. CASE StyleSheet
  <2>1. done' = <<>> /\ request' = request /\ variables' = variables /\ reply' = "200"
    BY <1>10 DEF StyleSheet, Queue, Phases, Early, con_cls
  <2>2. Page = page_dispatcher_stylecss /\ Allowed
    BY <1>10 DEF StyleSheet
  <2> QED
    BY <2>1, <2>2, NamedPages DEF Page, Allowed, Complete, Succeeded
<1>11. CASE Table
  BY <1>11 DEF Table, Phases, Early, Page, Allowed, Complete, Succeeded, con_cls
<1>12. CASE TableSent
  <2>1. /\ done' = done /\ request' = request /\ variables' = variables /\ reply' = "200"
        /\ table = {} /\ phase = "table"
    BY <1>12 DEF TableSent, Queue, con_cls
  <2>2. /\ Page = page_dispatcher_root /\ Allowed
        /\ \A i \in DOMAIN done : done[i].outcome = "ok"
        /\ {<<done[i].control, done[i].op>> : i \in DOMAIN done} = CanTable
    BY <2>1 DEF Phases
  <2> QED
    BY <2>1, <2>2, NamedPages DEF Page, Allowed, Complete, Succeeded
<1>13. CASE MajorError
  <2>1. done' = done /\ reply' = "404" /\ Failed("major")
    BY <1>13 DEF MajorError, Queue, Phases, con_cls
  <2> QED
    BY <2>1 DEF Failed, Succeeded
<1>14. ASSUME NEW c \in Control, Info(c) PROVE StatusTells'
  BY <1>14 DEF Info, Queue, Page, con_cls
<1>15. ASSUME NEW c \in Control, NEW v \in Number \cup {"none"}, NEW o \in Outcomes(Page.op),
             Operate(c, v, o)
      PROVE  StatusTells'
  <2>1. PICK e \in Operations : e.outcome = o /\ done' = Append(done, e)
    BY <1>15 DEF Operate, Ran, Operations, Outcomes, TypeOK
  <2>2. done = <<>> /\ Page.op \in ControlOps /\ Allowed /\ Complete
    BY <1>15 DEF Operate, Phases, Early
  <2>3. done' = <<e>> /\ DOMAIN done' = {1} /\ done'[1] = e /\ Len(done') = 1
    BY <2>1, <2>2, FirstOperation
  <2>4. /\ request' = request /\ variables' = variables
        /\ phase' = "replied" => (reply' = "200" <=> o = "ok")
    BY <1>15 DEF Operate, Queue, Caught
  <2>5. Page \notin Signalling \cup {page_dispatcher_root, NotFound}
    BY <2>2, PageFacts DEF Page, TypeOK
  <2>6. done' # <<>>
    BY <2>3
  <2>7. Succeeded' <=> o = "ok"
    BY <2>1, <2>3, <2>4, <2>5, <2>6 DEF Succeeded, Page
  <2>8. Allowed' /\ Complete'
    BY <2>2, <2>4 DEF Allowed, Complete, Page
  <2> QED
    BY <2>4, <2>7, <2>8
<1>16. ASSUME NEW c \in Control, NEW op \in TableOps, NEW o \in Outcomes(op),
             TableRead(c, op, o)
      PROVE  StatusTells'
  <2>1. PICK e \in Operations : e.outcome = o /\ done' = Append(done, e)
    BY <1>16 DEF TableRead, Ran, Operations, Outcomes, ControlOps, TypeOK
  <2>2. Len(done) + 1 \in DOMAIN done' /\ done'[Len(done) + 1] = e
    BY <2>1, AppendedPairs DEF TypeOK
  <2>3. phase' = "replied" => o # "ok" /\ reply' = "500"
    BY <1>16 DEF TableRead, Queue, Caught
  <2> QED
    BY <2>1, <2>2, <2>3 DEF Succeeded
<1>17. CASE UNCHANGED vars
  BY <1>17 DEF vars, con_cls, Page, Allowed, Complete, Succeeded
<1> QED
  BY <1>1, <1>2, <1>3, <1>4, <1>5, <1>6, <1>7, <1>8, <1>9,
     <1>10, <1>11, <1>12, <1>13, <1>14, <1>15, <1>16, <1>17
     DEF Next, Intake, Handling, Terminated

(* main is signalled as the reply is queued, and for what it is queued. *)
LEMMA SignalsStep ==
    TypeOK /\ Phases /\ SignalsExplained /\ [Next]_vars => SignalsExplained'
<1> SUFFICES ASSUME TypeOK, Phases, SignalsExplained, [Next]_vars
             PROVE  SignalsExplained'
  OBVIOUS
<1> USE DEF SignalsExplained
<1>1. ASSUME NEW m \in Method, NEW u \in Urls, NEW q \in Partial(Fields, Text),
            Receive(m, u, q)
     PROVE  SignalsExplained'
  BY <1>1 DEF Receive, Phases, Early, Page, Failed, con_cls
<1>2. CASE HeaderCallback
  BY <1>2 DEF HeaderCallback, Phases, Early, Page, Failed, con_cls
<1>3. ASSUME NEW f \in Fields, NEW t \in Text, NEW p \in {"new", "further"},
            DataCallback(f, t, p)
     PROVE  SignalsExplained'
  BY <1>3 DEF DataCallback, Stored, Phases, Early, Page, Failed, con_cls
<1>4. CASE LastCallback
  BY <1>4 DEF LastCallback, Phases, Early, Page, Failed, con_cls
<1>5. CASE Completed
  BY <1>5 DEF Completed, Freed, Fresh, NoRequest, Phases, Early, Page, Failed, con_cls
<1>6. CASE Dispatch
  <2>1. done' = <<>> /\ request' = request /\ signals' = signals /\ reply = "none"
    BY <1>6 DEF Dispatch, Phases, Early
  <2>2. reply' # "none" => Page = NotFound
    BY <1>6, <2>1 DEF Dispatch, Queue
  <2> QED
    BY <2>1, <2>2, NamedPages DEF Page, Failed
<1>7. CASE Refuse
  <2>1. done' = <<>> /\ request' = request /\ signals' = signals /\ reply = "none"
    BY <1>7 DEF Refuse, Phases, Early
  <2>2. Page \notin Signalling
    BY <1>7, PageFacts DEF Refuse, Allowed, Complete, Page, TypeOK
  <2> QED
    BY <2>1, <2>2 DEF Page, Failed
<1>8. CASE SignalPage
  <2>1. request' = request /\ signals' = Append(signals, Page.op) /\ reply = "none" /\ reply' = "200"
    BY <1>8 DEF SignalPage, Phases, Early, Queue
  <2>2. signals' = <<Page.op>>
    BY <2>1
  <2> QED
    BY <1>8, <2>1, <2>2 DEF SignalPage, Page
<1>9. CASE Missing
  <2>1. done' = <<>> /\ request' = request /\ signals' = signals /\ reply = "none"
    BY <1>9 DEF Missing, Phases, Early
  <2>2. Page \notin Signalling
    BY <1>9, PageFacts DEF Missing, Page, TypeOK
  <2> QED
    BY <2>1, <2>2 DEF Page, Failed
<1>10. CASE StyleSheet
  <2>1. done' = <<>> /\ request' = request /\ signals' = signals /\ reply = "none"
    BY <1>10 DEF StyleSheet, Phases, Early
  <2>2. Page \notin Signalling
    BY <1>10, NamedPages DEF StyleSheet
  <2> QED
    BY <2>1, <2>2 DEF Page, Failed
<1>11. CASE Table
  BY <1>11 DEF Table, Phases, Early
<1>12. CASE TableSent
  <2>1. done' = done /\ request' = request /\ signals' = signals /\ reply = "none"
    BY <1>12 DEF TableSent, Phases
  <2>2. Page \notin Signalling /\ ~Failed("major")
    BY <1>12, NamedPages DEF TableSent, Phases, Failed
  <2> QED
    BY <2>1, <2>2 DEF Page, Failed
<1>13. CASE MajorError
  <2>1. /\ done' = done /\ request' = request /\ reply = "none" /\ reply' = "404"
        /\ signals' = Append(signals, "major_error")
    BY <1>13 DEF MajorError, Phases, Queue
  <2>2. signals' = <<"major_error">>
    BY <2>1
  <2>3. Page \notin Signalling /\ Failed("major")
    BY <1>13 DEF MajorError, Phases
  <2> QED
    BY <2>1, <2>2, <2>3 DEF Page, Failed
<1>14. ASSUME NEW c \in Control, Info(c) PROVE SignalsExplained'
  <2>1. done' = <<>> /\ request' = request /\ signals' = signals /\ reply = "none"
    BY <1>14 DEF Info, Phases, Early
  <2>2. Page \notin Signalling
    BY <1>14, NamedPages DEF Info
  <2> QED
    BY <2>1, <2>2 DEF Page, Failed
<1>15. ASSUME NEW c \in Control, NEW v \in Number \cup {"none"}, NEW o \in Outcomes(Page.op),
             Operate(c, v, o)
      PROVE  SignalsExplained'
  <2>1. PICK e \in Operations : e.outcome = o /\ done' = Append(done, e)
    BY <1>15 DEF Operate, Ran, Operations, Outcomes, TypeOK
  <2>2. done = <<>> /\ Page.op \in ControlOps /\ reply = "none"
    BY <1>15 DEF Operate, Phases, Early
  <2>3. done' = <<e>> /\ DOMAIN done' = {1} /\ done'[1] = e
    BY <2>1, <2>2, FirstOperation
  <2>4. /\ request' = request /\ signals' = signals
        /\ reply' # "none" => o # "major"
    BY <1>15, <2>2 DEF Operate, Queue, Caught
  <2>5. Page \notin Signalling
    BY <2>2, PageFacts DEF Page, TypeOK
  <2> QED
    BY <2>1, <2>2, <2>3, <2>4, <2>5 DEF Page, Failed
<1>16. ASSUME NEW c \in Control, NEW op \in TableOps, NEW o \in Outcomes(op),
             TableRead(c, op, o)
      PROVE  SignalsExplained'
  <2>1. PICK e \in Operations : e.outcome = o /\ done' = Append(done, e)
    BY <1>16 DEF TableRead, Ran, Operations, Outcomes, ControlOps, TypeOK
  <2>2. /\ DOMAIN done' = DOMAIN done \cup {Len(done) + 1}
        /\ \A i \in DOMAIN done : done'[i] = done[i]
        /\ done'[Len(done) + 1] = e
    BY <2>1, AppendedPairs DEF TypeOK
  <2>3. /\ request' = request /\ signals' = signals /\ reply = "none"
        /\ reply' # "none" => o # "major"
    BY <1>16 DEF TableRead, Queue, Caught, Phases
  <2>4. Page \notin Signalling /\ ~Failed("major")
    BY <1>16, NamedPages DEF TableRead, Phases, Failed
  <2> QED
    BY <2>1, <2>2, <2>3, <2>4 DEF Page, Failed
<1>17. CASE UNCHANGED vars
  BY <1>17 DEF vars, con_cls, Page, Failed
<1> QED
  BY <1>1, <1>2, <1>3, <1>4, <1>5, <1>6, <1>7, <1>8, <1>9,
     <1>10, <1>11, <1>12, <1>13, <1>14, <1>15, <1>16, <1>17
     DEF Next, Intake, Handling, Terminated

(* The connection begins without a request. *)
LEMMA InitInvariant == Init => IInv
<1> SUFFICES ASSUME Init PROVE IInv
  OBVIOUS
<1>1. /\ phase = "idle" /\ request = NoRequest /\ callbacks = 0 /\ values = << >>
      /\ variables = << >> /\ table = {} /\ done = <<>> /\ signals = <<>>
      /\ reply = "none" /\ body = << >>
  BY DEF Init
<1>2. TypeOK
  <2>1. request \in [method : Method, url : Urls, query : Partial(Fields, Text)]
    BY <1>1, EmptyIsPartial, NamedPages DEF NoRequest, Method
  <2> QED
    BY <1>1, <2>1, EmptyIsPartial, BoundAssumption DEF TypeOK
<1>3. Phases /\ Counted /\ LastPieces /\ VariablesAreMeant
  BY <1>1, EmptyIsPartial DEF Phases, Early, Counted, LastPieces, VariablesAreMeant, Dispatched
<1>4. DoesWhatWasAsked /\ StatusTells /\ SignalsExplained
  BY <1>1 DEF DoesWhatWasAsked, StatusTells, SignalsExplained
<1> QED
  BY <1>2, <1>3, <1>4 DEF IInv

(* Every callback and every page keeps the inductive invariant.            *)
THEOREM Invariant == Spec => []IInv
<1>1. IInv /\ [Next]_vars => IInv'
  BY TypeStep, CountedStep, PhasesStep, LastPiecesStep, MeantStep,
     DoesStep, StatusStep, SignalsStep DEF IInv
<1> QED
  BY InitInvariant, <1>1, PTL DEF Spec

(* Type correctness of the requests of a connection.                       *)
THEOREM TypeCorrect == Spec => []TypeOK
<1>1. IInv => TypeOK
  BY DEF IInv
<1> QED
  BY Invariant, <1>1, PTL

(* A page does its own operation, once, on the control and with the value  *)
(* of this request: no field of an earlier request and none of the query   *)
(* that was also posted gets in.                                           *)
THEOREM PagesDoWhatWasAsked == Spec => []DoesWhatWasAsked
<1>1. IInv => DoesWhatWasAsked
  BY DEF IInv
<1> QED
  BY Invariant, <1>1, PTL

(* The status of a reply is "200" exactly if all that the page had to do   *)
(* was done, the whole table of the root page included.                    *)
THEOREM StatusIsTrue == Spec => []StatusTells
<1>1. IInv => StatusTells
  BY DEF IInv
<1> QED
  BY Invariant, <1>1, PTL

(* A request signals main for a major error and for the restart and quit   *)
(* pages, once and before its reply, and never else.                       *)
THEOREM SignalsAreExplained == Spec => []SignalsExplained
<1>1. IInv => SignalsExplained
  BY DEF IInv
<1> QED
  BY Invariant, <1>1, PTL
=============================================================================
