----------------------------- MODULE ElvBusProofs -----------------------------
(***************************************************************************)
(* Proofs about ElvBus for any finite set of connection threads, any       *)
(* devices and commands and any backlog: a read() that has the bus for     *)
(* itself returns its own answer, one that is not disturbed never returns  *)
(* what had come before it, and only other threads make a read() block.    *)
(* Then, about the text that comes over it: a part of an answer is parsed  *)
(* into the first of its bytes, and the light sensor's counts are ordered. *)
(***************************************************************************)
EXTENDS ElvBus, FiniteSetTheorems, SequenceTheorems, WellFoundedInduction, TLAPS

SelectStates == {"poll_s", "clear_s", "write_s"}
ReadStates   == {"poll_r", "clear_r", "write_r"}

(* The types of the variables, without the bound on the lines. *)
Types ==
    /\ requests \in Seq(Requests)
    /\ selected \in [Device -> Command \cup {"temperature", "probed"}]
    /\ \A d \in Device : Selected(d) \in Answers
    /\ sending \in Seq(Parts)
    /\ Len(sending) <= 2
    /\ line \in Seq(Parts)
    /\ pc \in [Thread -> {"idle", "await", "take"} \cup SelectStates \cup ReadStates]
    /\ target \in [Thread -> Targets]
    /\ missed \subseteq Thread

(* The lines on their way, with those that are still to be written: two by *)
(* a thread that selects, one by a thread that asks.                       *)
Selecting == {t \in Thread : pc[t] \in SelectStates}
Writing   == {t \in Thread : pc[t] \in SelectStates \cup ReadStates}

Spans ==
    Len(requests) + Cardinality(Selecting) + Cardinality(Writing)
        <= MaxPending + 2 * Cardinality(Thread)

(* Two threads that are in read() have both crossed. *)
Crossing ==
    /\ \A t, u \in Thread : pc[t] # "idle" /\ pc[u] # "idle" /\ t # u => t \in crossed
    /\ quiet \cap crossed = {}
    /\ \A t \in quiet : t \in Thread /\ pc[t] # "idle"

(* Only what is on the line can have been left there. *)
NeverLeft ==
    /\ \A i \in DOMAIN requests : requests[i].tag # "left"
    /\ \A i \in DOMAIN sending : sending[i].tag # "left"

(* Once a thread has found the line empty nothing on it was left there.    *)
NothingLeft ==
    \A t \in Thread :
        pc[t] \in {"write_s", "write_r", "await", "take"} /\ t \notin crossed =>
            \A i \in DOMAIN line : line[i].tag # "left"

(* What is on its way when t is alone on a bus that was quiet as it began: *)
(* nothing while it selects; then the line that selects, if it was written *)
(* and is not yet handled; then the line that asks, and its answer.        *)
SelectLine(t) == [kind |-> "select", to |-> target[t], tag |-> t]
ReadLine(t)   == [kind |-> "read",   to |-> target[t], tag |-> t]

OwnParts(t, s) == \A i \in DOMAIN s : s[i].tag = t /\ s[i].of = Selected(target[t].dev)

AloneOn(t) ==
    /\ pc[t] \in SelectStates => requests = <<>> /\ sending = <<>>
    /\ pc[t] \in ReadStates =>
          /\ sending = <<>>
          /\ requests = <<SelectLine(t)>> \/ (requests = <<>> /\ IsSelected(t))
    /\ pc[t] \in WriteStates => line = <<>>
    /\ pc[t] \in {"await", "take"} =>
          \/ requests = <<SelectLine(t), ReadLine(t)>> /\ sending = <<>> /\ line = <<>>
          \/ /\ requests = <<>> \/ requests = <<ReadLine(t)>>
             /\ IsSelected(t) /\ OwnParts(t, sending) /\ OwnParts(t, line)

QuietIsAlone == \A t \in quiet : AloneOn(t)

IInv ==
    /\ Types /\ Spans /\ Crossing /\ NeverLeft /\ NothingLeft
    /\ BlockedByOthers /\ QuietIsAlone

-----------------------------------------------------------------------------
(* Retag gives elements with the one tag the other.                        *)
LEMMA RetagRequests ==
    ASSUME NEW s \in Seq(Requests), NEW from \in Tags, NEW to \in Tags
    PROVE  /\ Retag(s, from, to) \in Seq(Requests)
           /\ Len(Retag(s, from, to)) = Len(s)
           /\ DOMAIN Retag(s, from, to) = DOMAIN s
           /\ \A i \in DOMAIN s :
                 Retag(s, from, to)[i].tag = IF s[i].tag = from THEN to ELSE s[i].tag
<1> DEFINE x(i) == IF s[i].tag = from THEN [s[i] EXCEPT !.tag = to] ELSE s[i]
<1>1. ASSUME NEW i \in DOMAIN s
      PROVE  /\ x(i) \in Requests
             /\ x(i).tag = IF s[i].tag = from THEN to ELSE s[i].tag
  <2>1. s[i] \in Requests
    OBVIOUS
  <2> QED
    BY <2>1 DEF Requests
<1>2. Retag(s, from, to) = [i \in DOMAIN s |-> x(i)]
  BY DEF Retag
<1> HIDE DEF x
<1>3. Len(s) \in Nat /\ DOMAIN s = 1 .. Len(s)
  OBVIOUS
<1>4. [i \in 1 .. Len(s) |-> x(i)] \in Seq(Requests)
  BY <1>1, <1>3
<1>5. Len([i \in 1 .. Len(s) |-> x(i)]) = Len(s)
  BY <1>3
<1> QED
  BY <1>1, <1>2, <1>3, <1>4, <1>5 DEF x

LEMMA RetagParts ==
    ASSUME NEW s \in Seq(Parts), NEW from \in Tags, NEW to \in Tags
    PROVE  /\ Retag(s, from, to) \in Seq(Parts)
           /\ Len(Retag(s, from, to)) = Len(s)
           /\ DOMAIN Retag(s, from, to) = DOMAIN s
           /\ \A i \in DOMAIN s :
                 Retag(s, from, to)[i].tag = IF s[i].tag = from THEN to ELSE s[i].tag
<1> DEFINE x(i) == IF s[i].tag = from THEN [s[i] EXCEPT !.tag = to] ELSE s[i]
<1>1. ASSUME NEW i \in DOMAIN s
      PROVE  /\ x(i) \in Parts
             /\ x(i).tag = IF s[i].tag = from THEN to ELSE s[i].tag
  <2>1. s[i] \in Parts
    OBVIOUS
  <2> QED
    BY <2>1 DEF Parts
<1>2. Retag(s, from, to) = [i \in DOMAIN s |-> x(i)]
  BY DEF Retag
<1> HIDE DEF x
<1>3. Len(s) \in Nat /\ DOMAIN s = 1 .. Len(s)
  OBVIOUS
<1>4. [i \in 1 .. Len(s) |-> x(i)] \in Seq(Parts)
  BY <1>1, <1>3
<1>5. Len([i \in 1 .. Len(s) |-> x(i)]) = Len(s)
  BY <1>3
<1> QED
  BY <1>1, <1>2, <1>3, <1>4, <1>5 DEF x

(* A sequence is empty if and only if it has no elements. *)
LEMMA Emptiness ==
    ASSUME NEW S, NEW s \in Seq(S), NEW T, NEW r \in Seq(T), Len(s) = Len(r)
    PROVE  s = <<>> <=> r = <<>>
OBVIOUS

(* An answer is told apart by what the device had been told, and has the   *)
(* tag of the line it answers.                                             *)
LEMMA ReplyFacts ==
    ASSUME Types, NEW req \in Requests
    PROVE  /\ Reply(req) \in Seq(Parts) /\ Len(Reply(req)) = 2
           /\ \A i \in DOMAIN Reply(req) :
                 /\ Reply(req)[i].tag = req.tag
                 /\ Reply(req)[i].of = Selected(req.to.dev)
<1>1. req.to \in Targets /\ req.tag \in Tags /\ req.to.dev \in Device
  BY DEF Requests, Targets, Device
<1> DEFINE x == Selected(req.to.dev)
<1>2. x \in Answers
  BY <1>1 DEF Types
<1>3. /\ [part |-> "first", of |-> x, tag |-> req.tag] \in Parts
      /\ [part |-> "rest", of |-> x, tag |-> req.tag] \in Parts
  BY <1>1, <1>2 DEF Parts
<1> HIDE DEF x
<1>4. Reply(req) = << [part |-> "first", of |-> x, tag |-> req.tag],
                      [part |-> "rest",  of |-> x, tag |-> req.tag] >>
  BY DEF Reply, x
<1> QED
  BY <1>3, <1>4 DEF x

(* What a part of a sequence has are elements of it. *)
LEMMA SubSeqFacts ==
    ASSUME NEW S, NEW s \in Seq(S), NEW m \in 1 .. Len(s) + 1, NEW n \in m - 1 .. Len(s)
    PROVE  /\ SubSeq(s, m, n) \in Seq(S)
           /\ Len(SubSeq(s, m, n)) = n - m + 1
           /\ \A i \in DOMAIN SubSeq(s, m, n) :
                 i + m - 1 \in DOMAIN s /\ SubSeq(s, m, n)[i] = s[i + m - 1]
OBVIOUS

(* A sequence in two parts, the first of n elements *)
LEMMA PartsOf ==
    ASSUME NEW S, NEW s \in Seq(S), NEW n \in 1 .. Len(s)
    PROVE  /\ SubSeq(s, 1, n) \in Seq(S)
           /\ \A i \in DOMAIN SubSeq(s, 1, n) : i \in DOMAIN s /\ SubSeq(s, 1, n)[i] = s[i]
           /\ \A i \in DOMAIN SubSeq(s, n + 1, Len(s)) :
                 i + n \in DOMAIN s /\ SubSeq(s, n + 1, Len(s))[i] = s[i + n]
<1>1. Len(s) \in Nat /\ n \in Nat
  OBVIOUS
<1>2. /\ SubSeq(s, 1, n) \in Seq(S)
      /\ \A i \in DOMAIN SubSeq(s, 1, n) : i \in DOMAIN s /\ SubSeq(s, 1, n)[i] = s[i]
  BY <1>1
<1>3. \A i \in DOMAIN SubSeq(s, n + 1, Len(s)) :
          i + n \in DOMAIN s /\ SubSeq(s, n + 1, Len(s))[i] = s[i + n]
  BY <1>1
<1> QED
  BY <1>2, <1>3

(* What the concatenation of two sequences has are elements of either.     *)
LEMMA ConcatFacts ==
    ASSUME NEW S, NEW r \in Seq(S), NEW s \in Seq(S)
    PROVE  /\ r \o s \in Seq(S)
           /\ Len(r \o s) = Len(r) + Len(s)
           /\ \A i \in DOMAIN (r \o s) :
                 \/ i \in DOMAIN r /\ (r \o s)[i] = r[i]
                 \/ i - Len(r) \in DOMAIN s /\ (r \o s)[i] = s[i - Len(r)]
OBVIOUS

(* Taking the first line, and adding one. *)
LEMMA TailFacts ==
    ASSUME NEW S, NEW s \in Seq(S), s # <<>>
    PROVE  /\ Head(s) \in S /\ Head(s) = s[1] /\ 1 \in DOMAIN s
           /\ Tail(s) \in Seq(S) /\ Len(Tail(s)) = Len(s) - 1
           /\ \A i \in DOMAIN Tail(s) : i + 1 \in DOMAIN s /\ Tail(s)[i] = s[i + 1]
OBVIOUS

LEMMA AppendFacts ==
    ASSUME NEW S, NEW s \in Seq(S), NEW x \in S
    PROVE  /\ Append(s, x) \in Seq(S) /\ Len(Append(s, x)) = Len(s) + 1
           /\ \A i \in DOMAIN Append(s, x) :
                 \/ i \in DOMAIN s /\ Append(s, x)[i] = s[i]
                 \/ i = Len(s) + 1 /\ Append(s, x)[i] = x
OBVIOUS

(* The few lines that are on their way of a thread that is alone. *)
LEMMA ShortSequences ==
    ASSUME NEW a \in Requests, NEW b \in Requests
    PROVE  /\ Append(<<>>, a) = <<a>> /\ Append(<<a>>, b) = <<a, b>>
           /\ Head(<<a>>) = a /\ Tail(<<a>>) = <<>> /\ <<a>> # <<>>
           /\ Head(<<a, b>>) = a /\ Tail(<<a, b>>) = <<b>> /\ <<a, b>> # <<>>
<1> DEFINE s == Append(<<a>>, b)
           r == <<a, b>>
<1>1. <<a>> \in Seq(Requests) /\ Len(<<a>>) = 1 /\ <<a>>[1] = a
  OBVIOUS
<1>2. r \in Seq(Requests) /\ Len(r) = 2 /\ r[1] = a /\ r[2] = b
  OBVIOUS
<1>3. s = r
  <2>1. s \in Seq(Requests) /\ Len(s) = 2 /\ s[1] = a /\ s[2] = b
    BY <1>1
  <2> HIDE DEF s, r
  <2> QED
    BY <1>2, <2>1
<1>4. Tail(<<a, b>>) = <<b>>
  OBVIOUS
<1>5. Append(<<>>, a) = <<a>> /\ Tail(<<a>>) = <<>> /\ <<a>> # <<>> /\ <<a, b>> # <<>>
  OBVIOUS
<1>6. Head(<<a>>) = a /\ Head(<<a, b>>) = a
  OBVIOUS
<1> QED
  BY <1>3, <1>4, <1>5, <1>6

(* A line that a thread writes. *)
LEMMA LineTypes ==
    ASSUME Types, NEW t \in Thread
    PROVE  SelectLine(t) \in Requests /\ ReadLine(t) \in Requests
BY DEF Types, SelectLine, ReadLine, Requests, Tags

(* No step leaves the types. *)
LEMMA TypesStep ==
    Types /\ [Next]_vars => Types'
<1> SUFFICES ASSUME Types, [Next]_vars PROVE Types'
  OBVIOUS
<1>1. CASE Handle
  <2>1. Head(requests) \in Requests /\ Tail(requests) \in Seq(Requests)
    BY <1>1, TailFacts DEF Handle, Types, Selected
  <2> DEFINE req == Head(requests)
  <2>2. req.to \in Targets
    BY <2>1 DEF Requests
  <2> req.to.cmd \in Command \cup {"temperature"}
    BY <2>2 DEF Targets
  <2>3. ASSUME NEW d \in Device PROVE Selected(d)' \in Answers
    <3>1. [dev |-> d, cmd |-> selected[d]] \in Answers
      BY DEF Types, Selected
    <3>2. [dev |-> req.to.dev, cmd |-> req.to.cmd] \in Answers
      BY <2>2 DEF Targets, Answers
    <3>3. selected'[d] = selected[d] \/ (d = req.to.dev /\ selected'[d] = req.to.cmd)
      BY <1>1 DEF Handle, Types, Selected
    <3> QED
      BY <3>1, <3>2, <3>3 DEF Selected
  <2>4. sending' \in Seq(Parts) /\ Len(sending') <= 2
    <3>1. sending' \in {Reply(req), <<>>, sending}
      BY <1>1 DEF Handle
    <3>2. Reply(req) \in Seq(Parts) /\ Len(Reply(req)) = 2
      BY <2>1, ReplyFacts
    <3> HIDE DEF req
    <3>4. Reply(req) \in Seq(Parts) /\ Len(Reply(req)) <= 2
      BY <3>2
    <3>5. sending \in Seq(Parts) /\ Len(sending) <= 2
      BY DEF Types, Selected
    <3>6. CASE sending' = Reply(req)
      BY <3>4, <3>6
    <3>7. CASE sending' = <<>>
      BY <3>7
    <3>8. CASE sending' = sending
      BY <3>5, <3>8
    <3> QED
      BY <3>1, <3>6, <3>7, <3>8
  <2>5. selected' \in [Device -> Command \cup {"temperature", "probed"}]
    BY <1>1 DEF Handle, Types, Selected
  <2> QED
    BY <1>1, <2>1, <2>3, <2>4, <2>5 DEF Handle, Types, Selected
<1>2. CASE Deliver
  <2> PICK n \in 1 .. Len(sending) :
              /\ line' = line \o SubSeq(sending, 1, n)
              /\ sending' = SubSeq(sending, n + 1, Len(sending))
    BY <1>2 DEF Deliver
  <2>1. Len(sending) \in Nat /\ Len(sending) <= 2
    BY DEF Types, Selected
  <2>2. SubSeq(sending, 1, n) \in Seq(Parts) /\ sending' \in Seq(Parts) /\ Len(sending') <= 2
    BY <2>1, SubSeqFacts DEF Types, Selected
  <2>3. line' \in Seq(Parts)
    BY <2>2, ConcatFacts DEF Types, Selected
  <2> QED
    BY <1>2, <2>2, <2>3 DEF Deliver, Types, Selected
<1>3. ASSUME NEW t \in Thread, Poll(t) PROVE Types'
  BY <1>3 DEF Poll, Step, Goto, Types, Selected, SelectStates, ReadStates, bus
<1>4. ASSUME NEW t \in Thread, Clear(t) PROVE Types'
  BY <1>4 DEF Clear, Step, Goto, InSelect, Types, Selected, SelectStates, ReadStates
<1>5. ASSUME NEW t \in Thread, Write(t) PROVE Types'
  <2>1. [kind |-> IF InSelect(t) THEN "select" ELSE "read", to |-> target[t], tag |-> t]
           \in Requests
    BY DEF Types, Selected, Requests, Tags
  <2>2. requests' \in Seq(Requests)
    BY <1>5, <2>1 DEF Write, Types, Selected
  <2> QED
    BY <1>5, <2>2 DEF Write, Step, Goto, Types, Selected, SelectStates, ReadStates
<1>6. ASSUME NEW t \in Thread, WriteFails(t) PROVE Types'
  <2>1. t \in Tags /\ "late" \in Tags
    BY DEF Tags
  <2>2. /\ requests' \in Seq(Requests) /\ sending' \in Seq(Parts)
        /\ Len(sending') <= 2 /\ line' \in Seq(Parts)
    BY <1>6, <2>1, RetagRequests, RetagParts DEF WriteFails, Finish, Types, Selected
  <2> QED
    BY <1>6, <2>2 DEF WriteFails, Finish, Goto, Types, Selected
<1>12. ASSUME NEW t \in Thread, SelectFails(t) PROVE Types'
  BY <1>12 DEF SelectFails, Goto, Types, Selected, SelectStates, ReadStates, bus
<1>7. ASSUME NEW t \in Thread, TimesOut(t) PROVE Types'
  <2>1. t \in Tags /\ "late" \in Tags
    BY DEF Tags
  <2>2. /\ requests' \in Seq(Requests) /\ sending' \in Seq(Parts)
        /\ Len(sending') <= 2 /\ line' \in Seq(Parts)
    <3>1. /\ Retag(requests, t, "late") \in Seq(Requests)
          /\ Retag(sending, t, "late") \in Seq(Parts)
          /\ Len(Retag(sending, t, "late")) <= 2
          /\ Retag(line, t, "late") \in Seq(Parts)
      BY <2>1, RetagRequests, RetagParts DEF Types, Selected
    <3> QED
      BY <1>7, <3>1 DEF TimesOut, Finish
  <2> QED
    BY <1>7, <2>2 DEF TimesOut, Finish, Goto, Types, Selected
<1>8. ASSUME NEW t \in Thread, InputComes(t) PROVE Types'
  BY <1>8 DEF InputComes, Step, Goto, Types, Selected, SelectStates, ReadStates, bus
<1>9. ASSUME NEW t \in Thread, Take(t) PROVE Types'
  <2>1. line' \in Seq(Parts)
    BY <1>9 DEF Take
  <2> QED
    BY <1>9, <2>1, RetagRequests, RetagParts DEF Take, Finish, Goto, Types, Selected, Tags
<1>10. ASSUME NEW t \in Thread, NEW x \in Targets, Begin(t, x)
      PROVE  Types'
  BY <1>10, RetagParts DEF Begin, Goto, Types, Selected, Tags, SelectStates
<1>11. CASE UNCHANGED vars
  BY <1>11 DEF vars, bus, Types, Selected
<1> QED
  BY <1>1, <1>2, <1>3, <1>4, <1>5, <1>6, <1>7, <1>8, <1>9, <1>10, <1>11,
     <1>12 DEF Next, Continue, Adapter

(* There are as many threads that select or write as threads at most.      *)
LEMMA SpanTypes ==
    /\ IsFiniteSet(Selecting) /\ IsFiniteSet(Writing)
    /\ Cardinality(Thread) \in Nat
    /\ Cardinality(Selecting) \in Nat /\ Cardinality(Selecting) <= Cardinality(Thread)
    /\ Cardinality(Writing) \in Nat /\ Cardinality(Writing) <= Cardinality(Thread)
<1>1. Selecting \in SUBSET Thread /\ Writing \in SUBSET Thread
  BY DEF Selecting, Writing
<1>2. IsFiniteSet(Selecting) /\ IsFiniteSet(Writing)
  BY <1>1, ThreadAssumption, FS_Subset
<1> QED
  BY <1>1, <1>2, ThreadAssumption, FS_Subset, FS_CardinalityType

(* The same of the next state. *)
LEMMA SpanTypesNext ==
    /\ Cardinality(Thread) \in Nat
    /\ Cardinality(Selecting') \in Nat /\ Cardinality(Selecting') <= Cardinality(Thread)
    /\ Cardinality(Writing') \in Nat /\ Cardinality(Writing') <= Cardinality(Thread)
<1>1. Selecting' \in SUBSET Thread /\ Writing' \in SUBSET Thread
  BY DEF Selecting, Writing
<1> QED
  BY <1>1, ThreadAssumption, FS_Subset, FS_CardinalityType

(* How many threads select and write, before and after one of them moves.  *)
LEMMA SpanFacts ==
    ASSUME Types, NEW t \in Thread, NEW l, pc' = [pc EXCEPT ![t] = l]
    PROVE  /\ Cardinality(Thread) \in Nat
           /\ Cardinality(Selecting) \in Nat /\ Cardinality(Writing) \in Nat
           /\ Cardinality(Selecting') = Cardinality(Selecting)
                  + (IF l \in SelectStates THEN 1 ELSE 0)
                  - (IF pc[t] \in SelectStates THEN 1 ELSE 0)
           /\ Cardinality(Writing') = Cardinality(Writing)
                  + (IF l \in SelectStates \cup ReadStates THEN 1 ELSE 0)
                  - (IF pc[t] \in SelectStates \cup ReadStates THEN 1 ELSE 0)
<1>1. pc'[t] = l /\ \A u \in Thread : u # t => pc'[u] = pc[u]
  BY DEF Types
<1>2. Selecting' = IF l \in SelectStates THEN Selecting \cup {t} ELSE Selecting \ {t}
  BY <1>1 DEF Selecting
<1>3. Writing' = IF l \in SelectStates \cup ReadStates THEN Writing \cup {t}
                 ELSE Writing \ {t}
  BY <1>1 DEF Writing
<1>4. /\ t \in Selecting <=> pc[t] \in SelectStates
      /\ t \in Writing <=> pc[t] \in SelectStates \cup ReadStates
  BY DEF Selecting, Writing
<1>5. Cardinality(Selecting \cup {t}) =
          IF t \in Selecting THEN Cardinality(Selecting) ELSE Cardinality(Selecting) + 1
  BY SpanTypes, FS_AddElement
<1>6. Cardinality(Selecting \ {t}) =
          IF t \in Selecting THEN Cardinality(Selecting) - 1 ELSE Cardinality(Selecting)
  BY SpanTypes, FS_RemoveElement
<1>7. Cardinality(Writing \cup {t}) =
          IF t \in Writing THEN Cardinality(Writing) ELSE Cardinality(Writing) + 1
  BY SpanTypes, FS_AddElement
<1>8. Cardinality(Writing \ {t}) =
          IF t \in Writing THEN Cardinality(Writing) - 1 ELSE Cardinality(Writing)
  BY SpanTypes, FS_RemoveElement
<1>9. Cardinality(Selecting') = Cardinality(Selecting)
                  + (IF l \in SelectStates THEN 1 ELSE 0)
                  - (IF pc[t] \in SelectStates THEN 1 ELSE 0)
  BY <1>2, <1>4, <1>5, <1>6, SpanTypes
<1>10. Cardinality(Writing') = Cardinality(Writing)
                  + (IF l \in SelectStates \cup ReadStates THEN 1 ELSE 0)
                  - (IF pc[t] \in SelectStates \cup ReadStates THEN 1 ELSE 0)
  BY <1>3, <1>4, <1>7, <1>8, SpanTypes
<1> QED
  BY <1>9, <1>10, SpanTypes

(* The lines on their way stay within their bound. *)
LEMMA SpansStep ==
    Types /\ Spans /\ [Next]_vars => Spans'
<1> SUFFICES ASSUME Types, Spans, [Next]_vars PROVE Spans'
  OBVIOUS
<1> USE BoundAssumption DEF Spans
<1>1. CASE Handle
  <2>1. Len(requests') <= Len(requests) /\ Len(requests) \in Nat /\ Len(requests') \in Nat
    BY <1>1, TailFacts DEF Handle, Types
  <2>2. pc' = pc
    BY <1>1 DEF Handle
  <2>3. Selecting' = Selecting /\ Writing' = Writing
    BY <2>2 DEF Selecting, Writing
  <2> QED
    BY <2>1, <2>3, SpanTypes
<1>2. CASE Deliver
  BY <1>2 DEF Deliver, Selecting, Writing
<1>3. ASSUME NEW t \in Thread, Poll(t) PROVE Spans'
  <2> DEFINE l == IF Backlog THEN (IF InSelect(t) THEN "clear_s" ELSE "clear_r")
                   ELSE (IF InSelect(t) THEN "write_s" ELSE "write_r")
  <2>1. pc' = [pc EXCEPT ![t] = l] /\ requests' = requests
    BY <1>3 DEF Poll, Step, Goto, bus
  <2>2. /\ l \in SelectStates <=> pc[t] \in SelectStates
        /\ l \in SelectStates \cup ReadStates /\ pc[t] \in SelectStates \cup ReadStates
    BY <1>3 DEF Poll, PollStates, InSelect, SelectStates, ReadStates
  <2> HIDE DEF l
  <2>3. Len(requests) \in Nat
    BY DEF Types
  <2>4. /\ Cardinality(Thread) \in Nat
        /\ Cardinality(Selecting) \in Nat /\ Cardinality(Writing) \in Nat
        /\ Cardinality(Selecting') = Cardinality(Selecting)
               + (IF l \in SelectStates THEN 1 ELSE 0)
               - (IF pc[t] \in SelectStates THEN 1 ELSE 0)
        /\ Cardinality(Writing') = Cardinality(Writing)
               + (IF l \in SelectStates \cup ReadStates THEN 1 ELSE 0)
               - (IF pc[t] \in SelectStates \cup ReadStates THEN 1 ELSE 0)
    BY <2>1, SpanFacts
  <2> QED
    BY <2>1, <2>2, <2>3, <2>4
<1>4. ASSUME NEW t \in Thread, Clear(t) PROVE Spans'
  <2> DEFINE l == IF InSelect(t) THEN "poll_s" ELSE "poll_r"
  <2>1. pc' = [pc EXCEPT ![t] = l] /\ requests' = requests
    BY <1>4 DEF Clear, Step, Goto
  <2>2. /\ l \in SelectStates <=> pc[t] \in SelectStates
        /\ l \in SelectStates \cup ReadStates /\ pc[t] \in SelectStates \cup ReadStates
    BY <1>4 DEF Clear, ClearStates, InSelect, SelectStates, ReadStates
  <2> HIDE DEF l
  <2>3. Len(requests) \in Nat
    BY DEF Types
  <2>4. /\ Cardinality(Thread) \in Nat
        /\ Cardinality(Selecting) \in Nat /\ Cardinality(Writing) \in Nat
        /\ Cardinality(Selecting') = Cardinality(Selecting)
               + (IF l \in SelectStates THEN 1 ELSE 0)
               - (IF pc[t] \in SelectStates THEN 1 ELSE 0)
        /\ Cardinality(Writing') = Cardinality(Writing)
               + (IF l \in SelectStates \cup ReadStates THEN 1 ELSE 0)
               - (IF pc[t] \in SelectStates \cup ReadStates THEN 1 ELSE 0)
    BY <2>1, SpanFacts
  <2> QED
    BY <2>1, <2>2, <2>3, <2>4
<1>5. ASSUME NEW t \in Thread, Write(t) PROVE Spans'
  <2> DEFINE l == IF InSelect(t) THEN "poll_r" ELSE "await"
  <2>1. pc' = [pc EXCEPT ![t] = l]
    BY <1>5 DEF Write, Step, Goto
  <2>2. /\ l \notin SelectStates
        /\ pc[t] \in SelectStates \cup ReadStates
        /\ l \in ReadStates <=> pc[t] \in SelectStates
    BY <1>5 DEF Write, WriteStates, InSelect, SelectStates, ReadStates
  <2>3. Len(requests) \in Nat /\ Len(requests') = Len(requests) + 1
    BY <1>5 DEF Write, Types
  <2> HIDE DEF l
  <2>4. /\ Cardinality(Thread) \in Nat
        /\ Cardinality(Selecting) \in Nat /\ Cardinality(Writing) \in Nat
        /\ Cardinality(Selecting') = Cardinality(Selecting)
               + (IF l \in SelectStates THEN 1 ELSE 0)
               - (IF pc[t] \in SelectStates THEN 1 ELSE 0)
        /\ Cardinality(Writing') = Cardinality(Writing)
               + (IF l \in SelectStates \cup ReadStates THEN 1 ELSE 0)
               - (IF pc[t] \in SelectStates \cup ReadStates THEN 1 ELSE 0)
    BY <2>1, SpanFacts
  <2> QED
    BY <2>1, <2>2, <2>3, <2>4
<1>6. ASSUME NEW t \in Thread, WriteFails(t) PROVE Spans'
  <2>1. /\ pc' = [pc EXCEPT ![t] = "idle"]
        /\ pc[t] \in SelectStates \cup ReadStates
    BY <1>6 DEF WriteFails, Finish, Goto, PollStates, WriteStates, SelectStates, ReadStates
  <2>2. t \in Tags /\ "late" \in Tags
    BY DEF Tags
  <2>3. Len(requests) \in Nat /\ Len(requests') = Len(requests)
    BY <1>6, <2>2, RetagRequests DEF WriteFails, Finish, Types
  <2>4. /\ Cardinality(Thread) \in Nat
        /\ Cardinality(Selecting) \in Nat /\ Cardinality(Writing) \in Nat
        /\ Cardinality(Selecting') = Cardinality(Selecting)
               + (IF "idle" \in SelectStates THEN 1 ELSE 0)
               - (IF pc[t] \in SelectStates THEN 1 ELSE 0)
        /\ Cardinality(Writing') = Cardinality(Writing)
               + (IF "idle" \in SelectStates \cup ReadStates THEN 1 ELSE 0)
               - (IF pc[t] \in SelectStates \cup ReadStates THEN 1 ELSE 0)
    BY <2>1, SpanFacts
  <2> QED
    BY <2>1, <2>3, <2>4 DEF SelectStates, ReadStates
<1>12. ASSUME NEW t \in Thread, SelectFails(t) PROVE Spans'
  <2>1. /\ pc' = [pc EXCEPT ![t] = "poll_r"] /\ requests' = requests
        /\ pc[t] \in SelectStates
    BY <1>12 DEF SelectFails, Goto, SelectStates, bus
  <2>2. Len(requests) \in Nat
    BY DEF Types
  <2>3. /\ Cardinality(Thread) \in Nat
        /\ Cardinality(Selecting) \in Nat /\ Cardinality(Writing) \in Nat
        /\ Cardinality(Selecting') = Cardinality(Selecting)
               + (IF "poll_r" \in SelectStates THEN 1 ELSE 0)
               - (IF pc[t] \in SelectStates THEN 1 ELSE 0)
        /\ Cardinality(Writing') = Cardinality(Writing)
               + (IF "poll_r" \in SelectStates \cup ReadStates THEN 1 ELSE 0)
               - (IF pc[t] \in SelectStates \cup ReadStates THEN 1 ELSE 0)
    BY <2>1, SpanFacts
  <2> QED
    BY <2>1, <2>2, <2>3 DEF SelectStates, ReadStates
<1>7. ASSUME NEW t \in Thread, TimesOut(t) PROVE Spans'
  <2>1. pc' = [pc EXCEPT ![t] = "idle"] /\ pc[t] \in {"await", "take"}
    BY <1>7 DEF TimesOut, Finish, Goto, At
  <2>2. t \in Tags /\ "late" \in Tags
    BY DEF Tags
  <2>3. Len(requests) \in Nat /\ Len(requests') = Len(requests)
    BY <1>7, <2>2, RetagRequests DEF TimesOut, Finish, Types
  <2>4. /\ Cardinality(Thread) \in Nat
        /\ Cardinality(Selecting) \in Nat /\ Cardinality(Writing) \in Nat
        /\ Cardinality(Selecting') = Cardinality(Selecting)
               + (IF "idle" \in SelectStates THEN 1 ELSE 0)
               - (IF pc[t] \in SelectStates THEN 1 ELSE 0)
        /\ Cardinality(Writing') = Cardinality(Writing)
               + (IF "idle" \in SelectStates \cup ReadStates THEN 1 ELSE 0)
               - (IF pc[t] \in SelectStates \cup ReadStates THEN 1 ELSE 0)
    BY <2>1, SpanFacts
  <2> QED
    BY <2>1, <2>3, <2>4 DEF SelectStates, ReadStates
<1>8. ASSUME NEW t \in Thread, InputComes(t) PROVE Spans'
  <2>1. pc' = [pc EXCEPT ![t] = "take"] /\ pc[t] = "await" /\ requests' = requests
    BY <1>8 DEF InputComes, Goto, At, bus
  <2>2. Len(requests) \in Nat
    BY DEF Types
  <2>3. /\ Cardinality(Thread) \in Nat
        /\ Cardinality(Selecting) \in Nat /\ Cardinality(Writing) \in Nat
        /\ Cardinality(Selecting') = Cardinality(Selecting)
               + (IF "take" \in SelectStates THEN 1 ELSE 0)
               - (IF pc[t] \in SelectStates THEN 1 ELSE 0)
        /\ Cardinality(Writing') = Cardinality(Writing)
               + (IF "take" \in SelectStates \cup ReadStates THEN 1 ELSE 0)
               - (IF pc[t] \in SelectStates \cup ReadStates THEN 1 ELSE 0)
    BY <2>1, SpanFacts
  <2> QED
    BY <2>1, <2>2, <2>3 DEF SelectStates, ReadStates
<1>9. ASSUME NEW t \in Thread, Take(t) PROVE Spans'
  <2>1. pc' = [pc EXCEPT ![t] = "idle"] /\ pc[t] \in {"await", "take"}
    BY <1>9 DEF Take, Finish, Goto, At
  <2>2. t \in Tags /\ "late" \in Tags
    BY DEF Tags
  <2>3. Len(requests) \in Nat /\ Len(requests') = Len(requests)
    BY <1>9, <2>2, RetagRequests DEF Take, Finish, Types
  <2>4. /\ Cardinality(Thread) \in Nat
        /\ Cardinality(Selecting) \in Nat /\ Cardinality(Writing) \in Nat
        /\ Cardinality(Selecting') = Cardinality(Selecting)
               + (IF "idle" \in SelectStates THEN 1 ELSE 0)
               - (IF pc[t] \in SelectStates THEN 1 ELSE 0)
        /\ Cardinality(Writing') = Cardinality(Writing)
               + (IF "idle" \in SelectStates \cup ReadStates THEN 1 ELSE 0)
               - (IF pc[t] \in SelectStates \cup ReadStates THEN 1 ELSE 0)
    BY <2>1, SpanFacts
  <2> QED
    BY <2>1, <2>3, <2>4 DEF SelectStates, ReadStates
<1>10. ASSUME NEW t \in Thread, NEW x \in Targets, Begin(t, x)
      PROVE  Spans'
  <2>1. pc' = [pc EXCEPT ![t] = "poll_s"] /\ pc[t] = "idle"
    BY <1>10 DEF Begin, Goto, At
  <2>2. Len(requests) \in Nat /\ requests' = requests /\ Len(requests) <= MaxPending
    BY <1>10 DEF Begin, Types
  <2>3. /\ Cardinality(Selecting') <= Cardinality(Thread)
        /\ Cardinality(Writing') <= Cardinality(Thread)
        /\ Cardinality(Selecting') \in Nat /\ Cardinality(Writing') \in Nat
        /\ Cardinality(Thread) \in Nat
    BY SpanTypesNext
  <2> QED
    BY <2>2, <2>3
<1>11. CASE UNCHANGED vars
  BY <1>11 DEF vars, bus, Selecting, Writing
<1> QED
  BY <1>1, <1>2, <1>3, <1>4, <1>5, <1>6, <1>7, <1>8, <1>9, <1>10, <1>11,
     <1>12 DEF Next, Continue, Adapter

(* Two threads that are in read() at once have crossed. *)
LEMMA CrossingStep ==
    Types /\ Crossing /\ [Next]_vars => Crossing'
<1> SUFFICES ASSUME Types, Crossing, [Next]_vars PROVE Crossing'
  OBVIOUS
<1> USE DEF Types, Crossing, Active, At
<1>1. CASE Handle
  BY <1>1 DEF Handle, Finish, Goto
<1>2. CASE Deliver
  BY <1>2 DEF Deliver, Finish, Goto
<1>3. ASSUME NEW t \in Thread, Poll(t) PROVE Crossing'
  BY <1>3 DEF Poll, PollStates, Step, Goto
<1>4. ASSUME NEW t \in Thread, Clear(t) PROVE Crossing'
  BY <1>4 DEF Clear, ClearStates, Step, Goto
<1>5. ASSUME NEW t \in Thread, Write(t) PROVE Crossing'
  BY <1>5 DEF Write, WriteStates, Step, Goto
<1>6. ASSUME NEW t \in Thread, WriteFails(t) PROVE Crossing'
  BY <1>6 DEF WriteFails, PollStates, WriteStates, Finish, Goto
<1>12. ASSUME NEW t \in Thread, SelectFails(t) PROVE Crossing'
  BY <1>12 DEF SelectFails, Goto
<1>7. ASSUME NEW t \in Thread, TimesOut(t) PROVE Crossing'
  BY <1>7 DEF TimesOut, Finish, Goto
<1>8. ASSUME NEW t \in Thread, InputComes(t) PROVE Crossing'
  BY <1>8 DEF InputComes, Finish, Goto
<1>9. ASSUME NEW t \in Thread, Take(t) PROVE Crossing'
  BY <1>9 DEF Take, Finish, Goto
<1>10. ASSUME NEW t \in Thread, NEW x \in Targets, Begin(t, x)
      PROVE  Crossing'
  <2>1. pc' = [pc EXCEPT ![t] = "poll_s"]
    BY <1>10 DEF Begin, Goto
  <2>2. CASE Active = {}
    <3>1. /\ crossed' = crossed \ {t} /\ quiet' \in {quiet \cup {t}, quiet \ {t}}
          /\ \A u \in Thread : pc[u] = "idle"
      BY <1>10, <2>2 DEF Begin
    <3> QED
      BY <2>1, <3>1
  <2>3. CASE Active # {}
    <3>1. /\ crossed' = crossed \cup Active \cup {t}
          /\ quiet' = quiet \ (Active \cup {t})
      BY <1>10, <2>3 DEF Begin
    <3> QED
      BY <2>1, <3>1
  <2> QED
    BY <2>2, <2>3
<1>11. CASE UNCHANGED vars
  BY <1>11 DEF vars, bus
<1> QED
  BY <1>1, <1>2, <1>3, <1>4, <1>5, <1>6, <1>7, <1>8, <1>9, <1>10, <1>11,
     <1>12 DEF Next, Continue, Adapter

(* What was not left is not left when its read() has ended. *)
LEMMA LateIsNotLeft ==
    ASSUME NEW t \in Thread, NEW s, s \in Seq(Requests) \/ s \in Seq(Parts),
           \A i \in DOMAIN s : s[i].tag # "left"
    PROVE  \A i \in DOMAIN Retag(s, t, "late") : Retag(s, t, "late")[i].tag # "left"
<1>1. t \in Tags /\ "late" \in Tags
  BY DEF Tags
<1> DEFINE r == Retag(s, t, "late")
<1>2. /\ DOMAIN r = DOMAIN s
      /\ \A i \in DOMAIN s : r[i].tag = IF s[i].tag = t THEN "late" ELSE s[i].tag
  <2>1. CASE s \in Seq(Requests)
    BY <1>1, <2>1, RetagRequests
  <2>2. CASE s \in Seq(Parts)
    BY <1>1, <2>2, RetagParts
  <2> QED
    BY <2>1, <2>2
<1> HIDE DEF r
<1>3. \A i \in DOMAIN r : r[i].tag # "left"
  BY <1>2
<1> QED
  BY <1>3 DEF r

(* Only Begin says of a part that it was left, and of the line. *)
LEMMA NeverLeftStep ==
    Types /\ NeverLeft /\ [Next]_vars => NeverLeft'
<1> SUFFICES ASSUME Types, NeverLeft, [Next]_vars PROVE NeverLeft'
  OBVIOUS
<1> USE DEF NeverLeft
<1>1. CASE Handle
  <2> DEFINE req == Head(requests)
  <2>1. /\ req \in Requests /\ req.tag # "left"
        /\ \A i \in DOMAIN Tail(requests) : Tail(requests)[i].tag # "left"
    BY <1>1, TailFacts DEF Handle, Types
  <2>2. sending' \in {Reply(req), <<>>, sending}
    BY <1>1 DEF Handle
  <2>3. \A i \in DOMAIN Reply(req) : Reply(req)[i].tag # "left"
    BY <2>1, ReplyFacts
  <2> HIDE DEF req
  <2>4. \A i \in DOMAIN sending' : sending'[i].tag # "left"
    <3>1. CASE sending' = Reply(req)
      BY <2>3, <3>1
    <3>2. CASE sending' = <<>>
      BY <3>2
    <3>3. CASE sending' = sending
      BY <3>3
    <3> QED
      BY <2>2, <3>1, <3>2, <3>3
  <2> QED
    BY <1>1, <2>1, <2>4 DEF Handle
<1>2. CASE Deliver
  <2> PICK n \in 1 .. Len(sending) : sending' = SubSeq(sending, n + 1, Len(sending))
    BY <1>2 DEF Deliver
  <2>1. sending \in Seq(Parts)
    BY DEF Types
  <2>2. \A i \in DOMAIN sending' :
            i + n \in DOMAIN sending /\ sending'[i] = sending[i + n]
    BY <2>1, PartsOf
  <2> QED
    BY <1>2, <2>2 DEF Deliver
<1>3. ASSUME NEW t \in Thread, Poll(t) PROVE NeverLeft'
  BY <1>3 DEF Poll, bus
<1>4. ASSUME NEW t \in Thread, Clear(t) PROVE NeverLeft'
  BY <1>4 DEF Clear, bus
<1>5. ASSUME NEW t \in Thread, Write(t) PROVE NeverLeft'
  <2> DEFINE r == [kind |-> IF InSelect(t) THEN "select" ELSE "read",
                   to |-> target[t], tag |-> t]
  <2>1. r \in Requests /\ r.tag # "left"
    BY TagAssumption DEF Types, Requests, Tags
  <2>2. requests' = Append(requests, r)
    BY <1>5 DEF Write
  <2> HIDE DEF r
  <2>3. \A i \in DOMAIN requests' : requests'[i].tag # "left"
    BY <2>1, <2>2, AppendFacts DEF Types
  <2> QED
    BY <1>5, <2>3 DEF Write
<1>6. ASSUME NEW t \in Thread, WriteFails(t) PROVE NeverLeft'
  <2>1. requests' = Retag(requests, t, "late") /\ sending' = Retag(sending, t, "late")
    BY <1>6 DEF WriteFails, Finish
  <2>2. \A i \in DOMAIN requests' : requests'[i].tag # "left"
    BY <2>1, LateIsNotLeft DEF Types
  <2>3. \A i \in DOMAIN sending' : sending'[i].tag # "left"
    BY <2>1, LateIsNotLeft DEF Types
  <2> QED
    BY <2>2, <2>3
<1>12. ASSUME NEW t \in Thread, SelectFails(t) PROVE NeverLeft'
  BY <1>12 DEF SelectFails, bus
<1>7. ASSUME NEW t \in Thread, TimesOut(t) PROVE NeverLeft'
  <2>1. requests' = Retag(requests, t, "late") /\ sending' = Retag(sending, t, "late")
    BY <1>7 DEF TimesOut, Finish
  <2>2. \A i \in DOMAIN requests' : requests'[i].tag # "left"
    BY <2>1, LateIsNotLeft DEF Types
  <2>3. \A i \in DOMAIN sending' : sending'[i].tag # "left"
    BY <2>1, LateIsNotLeft DEF Types
  <2> QED
    BY <2>2, <2>3
<1>8. ASSUME NEW t \in Thread, InputComes(t) PROVE NeverLeft'
  BY <1>8 DEF InputComes, bus
<1>9. ASSUME NEW t \in Thread, Take(t) PROVE NeverLeft'
  <2>1. requests' = Retag(requests, t, "late") /\ sending' = Retag(sending, t, "late")
    BY <1>9 DEF Take, Finish
  <2>2. \A i \in DOMAIN requests' : requests'[i].tag # "left"
    BY <2>1, LateIsNotLeft DEF Types
  <2>3. \A i \in DOMAIN sending' : sending'[i].tag # "left"
    BY <2>1, LateIsNotLeft DEF Types
  <2> QED
    BY <2>2, <2>3
<1>10. ASSUME NEW t \in Thread, NEW x \in Targets, Begin(t, x)
      PROVE  NeverLeft'
  BY <1>10 DEF Begin, bus
<1>11. CASE UNCHANGED vars
  BY <1>11 DEF vars, bus
<1> QED
  BY <1>1, <1>2, <1>3, <1>4, <1>5, <1>6, <1>7, <1>8, <1>9, <1>10, <1>11,
     <1>12 DEF Next, Continue, Adapter

(* Nothing that was left stays on the line once it was found empty. *)
LEMMA NothingLeftStep ==
    Types /\ Crossing /\ NeverLeft /\ NothingLeft /\ [Next]_vars => NothingLeft'
<1> SUFFICES ASSUME Types, Crossing, NeverLeft, NothingLeft, [Next]_vars PROVE NothingLeft'
  OBVIOUS
<1> USE DEF NothingLeft
<1>1. CASE Handle
  BY <1>1 DEF Handle
<1>2. CASE Deliver
  <2> PICK n \in 1 .. Len(sending) : line' = line \o SubSeq(sending, 1, n)
    BY <1>2 DEF Deliver
  <2> DEFINE came == SubSeq(sending, 1, n)
  <2>1. Len(sending) \in Nat
    BY DEF Types
  <2>2. came \in Seq(Parts) /\ \A i \in DOMAIN came : came[i].tag # "left"
    BY <2>1, SubSeqFacts DEF Types, NeverLeft
  <2> HIDE DEF came
  <2>3. \A i \in DOMAIN line' :
            \/ i \in DOMAIN line /\ line'[i] = line[i]
            \/ line'[i].tag # "left"
    BY <2>2, ConcatFacts DEF Types, came
  <2> QED
    BY <1>2, <2>3 DEF Deliver
<1>3. ASSUME NEW t \in Thread, Poll(t) PROVE NothingLeft'
  <2>1. crossed' = crossed /\ line' = line /\ pc'[t] \in WriteStates => line = <<>>
    BY <1>3 DEF Poll, Step, Goto, Backlog, Types, WriteStates, bus
  <2>2. /\ crossed' = crossed /\ line' = line
        /\ pc'[t] \notin {"await", "take"}
        /\ \A u \in Thread : u # t => pc'[u] = pc[u]
    BY <1>3 DEF Poll, Step, Goto, Types, bus
  <2> QED
    BY <2>1, <2>2 DEF WriteStates
<1>4. ASSUME NEW t \in Thread, Clear(t) PROVE NothingLeft'
  <2>1. line' = <<>>
    BY <1>4 DEF Clear
  <2> QED
    BY <2>1
<1>5. ASSUME NEW t \in Thread, Write(t) PROVE NothingLeft'
  <2>1. /\ crossed' = crossed /\ line' = line /\ pc[t] \in {"write_s", "write_r"}
        /\ \A u \in Thread : u # t => pc'[u] = pc[u]
    BY <1>5 DEF Write, Step, Goto, Types, WriteStates
  <2> QED
    BY <2>1
<1>6. ASSUME NEW t \in Thread, WriteFails(t) PROVE NothingLeft'
  <2>1. /\ line' = Retag(line, t, "late") /\ crossed' = crossed
        /\ pc'[t] = "idle"
        /\ \A u \in Thread : u # t => pc'[u] = pc[u]
    BY <1>6 DEF WriteFails, Finish, Goto, Types
  <2>2. (\A i \in DOMAIN line : line[i].tag # "left")
            => \A i \in DOMAIN line' : line'[i].tag # "left"
    BY <2>1, LateIsNotLeft DEF Types
  <2> QED
    BY <2>1, <2>2
<1>12. ASSUME NEW t \in Thread, SelectFails(t) PROVE NothingLeft'
  <2>1. /\ crossed' = crossed /\ line' = line /\ pc'[t] = "poll_r"
        /\ \A u \in Thread : u # t => pc'[u] = pc[u]
    BY <1>12 DEF SelectFails, Goto, Types, bus
  <2> QED
    BY <2>1
<1>7. ASSUME NEW t \in Thread, TimesOut(t) PROVE NothingLeft'
  <2>1. /\ line' = Retag(line, t, "late") /\ crossed' = crossed
        /\ pc'[t] = "idle"
        /\ \A u \in Thread : u # t => pc'[u] = pc[u]
    BY <1>7 DEF TimesOut, Finish, Goto, Types
  <2>2. (\A i \in DOMAIN line : line[i].tag # "left")
            => \A i \in DOMAIN line' : line'[i].tag # "left"
    BY <2>1, LateIsNotLeft DEF Types
  <2> QED
    BY <2>1, <2>2
<1>8. ASSUME NEW t \in Thread, InputComes(t) PROVE NothingLeft'
  <2>1. /\ crossed' = crossed /\ line' = line /\ pc[t] = "await"
        /\ \A u \in Thread : u # t => pc'[u] = pc[u]
    BY <1>8 DEF InputComes, Goto, At, Types, bus
  <2> QED
    BY <2>1
<1>9. ASSUME NEW t \in Thread, Take(t) PROVE NothingLeft'
  <2>1. line' = <<>>
    BY <1>9 DEF Take
  <2> QED
    BY <2>1
<1>10. ASSUME NEW t \in Thread, NEW x \in Targets, Begin(t, x)
      PROVE  NothingLeft'
  <2>1. pc' = [pc EXCEPT ![t] = "poll_s"]
    BY <1>10 DEF Begin, Goto
  <2>2. ASSUME NEW u \in Thread, u # t, pc[u] # "idle" PROVE u \in crossed'
    BY <1>10, <2>2 DEF Begin, Active
  <2> QED
    BY <2>1, <2>2 DEF Types
<1>11. CASE UNCHANGED vars
  BY <1>11 DEF vars, bus
<1> QED
  BY <1>1, <1>2, <1>3, <1>4, <1>5, <1>6, <1>7, <1>8, <1>9, <1>10, <1>11,
     <1>12 DEF Next, Continue, Adapter

(* A thread blocks only if another took the input. *)
LEMMA BlockedStep ==
    Types /\ Crossing /\ BlockedByOthers /\ [Next]_vars => BlockedByOthers'
<1> SUFFICES ASSUME Types, Crossing, BlockedByOthers, [Next]_vars PROVE BlockedByOthers'
  OBVIOUS
<1> USE DEF BlockedByOthers, Blocked
<1>1. CASE Handle
  BY <1>1 DEF Handle
<1>2. CASE Deliver
  <2> PICK n \in 1 .. Len(sending) : line' = line \o SubSeq(sending, 1, n)
    BY <1>2 DEF Deliver
  <2>1. Len(sending) \in Nat
    BY DEF Types
  <2>2. SubSeq(sending, 1, n) \in Seq(Parts)
    BY <2>1, SubSeqFacts DEF Types
  <2>3. line' = <<>> => line = <<>>
    BY <2>2, ConcatFacts DEF Types
  <2> QED
    BY <1>2, <2>3 DEF Deliver
<1>3. ASSUME NEW t \in Thread, Poll(t) PROVE BlockedByOthers'
  <2>1. /\ crossed' = crossed /\ line' = line
        /\ pc'[t] \in ClearStates \cup {"take"} => line # <<>>
        /\ \A u \in Thread : u # t => pc'[u] = pc[u]
    BY <1>3 DEF Poll, Step, Goto, Backlog, Types, ClearStates, bus
  <2> QED
    BY <2>1
<1>4. ASSUME NEW t \in Thread, Clear(t) PROVE BlockedByOthers'
  <2>1. /\ crossed' = crossed /\ pc[t] # "idle" /\ pc'[t] \notin ClearStates \cup {"take"}
        /\ \A u \in Thread : u # t => pc'[u] = pc[u]
    BY <1>4 DEF Clear, Step, Goto, Types, ClearStates
  <2> QED
    BY <2>1 DEF Crossing, ClearStates
<1>5. ASSUME NEW t \in Thread, Write(t) PROVE BlockedByOthers'
  <2>1. /\ crossed' = crossed /\ line' = line /\ pc'[t] \notin ClearStates \cup {"take"}
        /\ \A u \in Thread : u # t => pc'[u] = pc[u]
    BY <1>5 DEF Write, Step, Goto, Types, ClearStates
  <2> QED
    BY <2>1
<1>6. ASSUME NEW t \in Thread, WriteFails(t) PROVE BlockedByOthers'
  <2>1. t \in Tags /\ "late" \in Tags
    BY DEF Tags
  <2>2. /\ line' = Retag(line, t, "late") /\ crossed' = crossed
        /\ pc'[t] \notin ClearStates \cup {"take"}
        /\ \A u \in Thread : u # t => pc'[u] = pc[u]
    BY <1>6 DEF WriteFails, Finish, Goto, Types, ClearStates
  <2>3. line' = <<>> => line = <<>>
    <3>1. Retag(line, t, "late") \in Seq(Parts) /\ Len(Retag(line, t, "late")) = Len(line)
      BY <2>1, RetagParts DEF Types
    <3>2. line \in Seq(Parts)
      BY DEF Types
    <3> QED
      BY <2>2, <3>1, <3>2, Emptiness
  <2> QED
    BY <2>2, <2>3
<1>12. ASSUME NEW t \in Thread, SelectFails(t) PROVE BlockedByOthers'
  <2>1. /\ crossed' = crossed /\ line' = line /\ pc'[t] = "poll_r"
        /\ \A u \in Thread : u # t => pc'[u] = pc[u]
    BY <1>12 DEF SelectFails, Goto, Types, bus
  <2> QED
    BY <2>1 DEF ClearStates
<1>7. ASSUME NEW t \in Thread, TimesOut(t) PROVE BlockedByOthers'
  <2>1. t \in Tags /\ "late" \in Tags
    BY DEF Tags
  <2>2. /\ line = <<>> /\ crossed' = crossed
        /\ pc'[t] \notin ClearStates \cup {"take"}
        /\ \A u \in Thread : u # t => pc'[u] = pc[u]
    BY <1>7 DEF TimesOut, Finish, Goto, Types, ClearStates
  <2> QED
    BY <2>2
<1>8. ASSUME NEW t \in Thread, InputComes(t) PROVE BlockedByOthers'
  <2>1. crossed' = crossed /\ line' = line /\ line # <<>>
    BY <1>8 DEF InputComes, bus
  <2> QED
    BY <2>1
<1>9. ASSUME NEW t \in Thread, Take(t) PROVE BlockedByOthers'
  <2>1. /\ crossed' = crossed /\ pc[t] # "idle" /\ pc'[t] \notin ClearStates \cup {"take"}
        /\ \A u \in Thread : u # t => pc'[u] = pc[u]
    BY <1>9 DEF Take, Finish, Goto, At, Types, ClearStates
  <2> QED
    BY <2>1 DEF Crossing, ClearStates
<1>10. ASSUME NEW t \in Thread, NEW x \in Targets, Begin(t, x)
      PROVE  BlockedByOthers'
  <2>1. pc' = [pc EXCEPT ![t] = "poll_s"]
    BY <1>10 DEF Begin, Goto
  <2>2. ASSUME NEW u \in Thread, u # t, pc[u] # "idle" PROVE u \in crossed'
    BY <1>10, <2>2 DEF Begin, Active
  <2> QED
    BY <2>1, <2>2 DEF Types, ClearStates
<1>11. CASE UNCHANGED vars
  BY <1>11 DEF vars, bus
<1> QED
  BY <1>1, <1>2, <1>3, <1>4, <1>5, <1>6, <1>7, <1>8, <1>9, <1>10, <1>11,
     <1>12 DEF Next, Continue, Adapter

(* A thread that is quiet stays alone with its lines and answers. *)
LEMMA QuietStep ==
    Types /\ Crossing /\ QuietIsAlone /\ [Next]_vars => QuietIsAlone'
<1> SUFFICES ASSUME Types, Crossing, QuietIsAlone, [Next]_vars PROVE QuietIsAlone'
  OBVIOUS
<1> USE DEF QuietIsAlone
<1>1. CASE Handle
  <2> SUFFICES ASSUME NEW u \in quiet PROVE AloneOn(u)'
    BY <1>1 DEF Handle
  <2>1. u \in Thread /\ AloneOn(u)
    BY DEF Crossing
  <2> DEFINE req == Head(requests)
  <2>2. /\ requests # <<>> /\ sending = <<>> /\ requests' = Tail(requests)
        /\ line' = line /\ pc' = pc /\ target' = target /\ quiet' = quiet
        /\ sending' \in {Reply(req), <<>>, sending}
        /\ req.kind = "select" =>
              /\ selected' = [selected EXCEPT ![req.to.dev] = req.to.cmd]
              /\ sending' = sending
        /\ req.kind # "select" => selected' = selected
        /\ missed' = missed
    BY <1>1 DEF Handle
  <2>3. SelectLine(u) \in Requests /\ ReadLine(u) \in Requests
    BY <2>1, LineTypes
  <2>4. target[u] \in Targets /\ target[u].dev \in Device
    BY <2>1 DEF Types, Targets, Device
  <2>5. CASE requests = <<SelectLine(u)>>
    <3>1. req = SelectLine(u) /\ requests' = <<>>
      BY <2>2, <2>3, <2>5, ShortSequences
    <3>2. IsSelected(u)' /\ sending' = sending
      BY <2>2, <2>4, <3>1 DEF IsSelected, SelectLine, Types
    <3>3. pc[u] \in ReadStates /\ (pc[u] \in WriteStates => line = <<>>)
      <4>1. SelectLine(u) # ReadLine(u)
        BY DEF SelectLine, ReadLine
      <4>2. /\ <<SelectLine(u)>> # <<>> /\ <<SelectLine(u)>> # <<ReadLine(u)>>
            /\ <<SelectLine(u)>> # <<SelectLine(u), ReadLine(u)>>
        BY <2>3, <4>1, ShortSequences
      <4> QED
        BY <2>1, <2>5, <4>2 DEF AloneOn, Crossing, Types
    <3> QED
      BY <2>1, <2>2, <3>1, <3>2, <3>3 DEF AloneOn, SelectStates, ReadStates
  <2>6. CASE requests = <<ReadLine(u)>> /\ pc[u] \in {"await", "take"}
    <3>1. req = ReadLine(u) /\ requests' = <<>>
      BY <2>2, <2>3, <2>6, ShortSequences
    <3>2. req.to = target[u] /\ req.tag = u /\ selected' = selected
      BY <2>2, <3>1 DEF ReadLine
    <3>3. IsSelected(u) /\ OwnParts(u, line)
      <4>1. <<ReadLine(u)>> # <<SelectLine(u), ReadLine(u)>>
        BY <2>3, ShortSequences
      <4> QED
        BY <2>1, <2>6, <4>1 DEF AloneOn
    <3>4. OwnParts(u, Reply(req))
      BY <2>3, <3>1, <3>2, ReplyFacts DEF OwnParts
    <3>5. OwnParts(u, sending')
      <4>1. sending' = Reply(req) \/ sending' = <<>>
        BY <2>2
      <4>2. OwnParts(u, <<>>)
        BY DEF OwnParts
      <4> HIDE DEF req
      <4> QED
        BY <3>4, <4>1, <4>2
    <3>6. OwnParts(u, sending)' /\ OwnParts(u, line)' /\ IsSelected(u)'
      BY <2>2, <3>2, <3>3, <3>5 DEF OwnParts, IsSelected, Selected
    <3> QED
      BY <2>2, <2>6, <3>1, <3>6 DEF AloneOn, SelectStates, ReadStates, WriteStates
  <2>7. CASE requests = <<SelectLine(u), ReadLine(u)>> /\ pc[u] \in {"await", "take"}
    <3>1. req = SelectLine(u) /\ requests' = <<ReadLine(u)>>
      BY <2>2, <2>3, <2>7, ShortSequences
    <3>2. IsSelected(u)' /\ sending' = <<>> /\ ReadLine(u)' = ReadLine(u)
      BY <2>2, <2>4, <3>1 DEF IsSelected, SelectLine, ReadLine, Types
    <3>3. line' = <<>>
      <4>1. <<SelectLine(u), ReadLine(u)>> # <<>>
            /\ <<SelectLine(u), ReadLine(u)>> # <<ReadLine(u)>>
        BY <2>3, ShortSequences
      <4> QED
        BY <2>1, <2>2, <2>7, <4>1 DEF AloneOn
    <3>4. OwnParts(u, sending)' /\ OwnParts(u, line)'
      BY <3>2, <3>3 DEF OwnParts
    <3> QED
      BY <2>2, <2>7, <3>1, <3>2, <3>4 DEF AloneOn, SelectStates, ReadStates, WriteStates
  <2> QED
    BY <2>1, <2>2, <2>5, <2>6, <2>7 DEF AloneOn, Types, Crossing
<1>2. CASE Deliver
  <2> SUFFICES ASSUME NEW u \in quiet PROVE AloneOn(u)'
    BY <1>2 DEF Deliver
  <2>1. u \in Thread /\ AloneOn(u) /\ pc[u] # "idle"
    BY DEF Crossing
  <2> PICK n \in 1 .. Len(sending) :
              /\ line' = line \o SubSeq(sending, 1, n)
              /\ sending' = SubSeq(sending, n + 1, Len(sending))
    BY <1>2 DEF Deliver
  <2>2. /\ sending # <<>> /\ requests' = requests /\ selected' = selected
        /\ pc' = pc /\ target' = target /\ missed' = missed
    BY <1>2 DEF Deliver
  <2>3. pc[u] \in {"await", "take"}
    BY <2>1, <2>2 DEF AloneOn, Types
  <2>4. sending \in Seq(Parts)
    BY DEF Types
  <2>5. /\ SubSeq(sending, 1, n) \in Seq(Parts)
        /\ \A i \in DOMAIN SubSeq(sending, 1, n) :
              /\ i \in DOMAIN sending
              /\ SubSeq(sending, 1, n)[i] = sending[i]
    BY <2>4, PartsOf
  <2>6. \A i \in DOMAIN sending' :
            i + n \in DOMAIN sending /\ sending'[i] = sending[i + n]
    BY <2>4, PartsOf
  <2>7. /\ requests = <<>> \/ requests = <<ReadLine(u)>>
        /\ IsSelected(u) /\ OwnParts(u, sending) /\ OwnParts(u, line)
    BY <2>1, <2>2, <2>3 DEF AloneOn
  <2>8. OwnParts(u, sending')
    BY <2>6, <2>7 DEF OwnParts
  <2>9. OwnParts(u, line')
    <3> DEFINE came == SubSeq(sending, 1, n)
    <3>1. OwnParts(u, came)
      BY <2>5, <2>7 DEF OwnParts
    <3>2. came \in Seq(Parts) /\ line' = line \o came
      BY <2>5
    <3> HIDE DEF came
    <3>3. \A i \in DOMAIN line' :
              \/ i \in DOMAIN line /\ line'[i] = line[i]
              \/ i - Len(line) \in DOMAIN came /\ line'[i] = came[i - Len(line)]
      BY <3>2, ConcatFacts DEF Types
    <3> QED
      BY <2>7, <3>1, <3>3 DEF OwnParts
  <2>10. /\ OwnParts(u, sending)' /\ OwnParts(u, line)'
         /\ IsSelected(u)' /\ ReadLine(u)' = ReadLine(u)
    BY <2>2, <2>7, <2>8, <2>9 DEF OwnParts, Selected, IsSelected, ReadLine
  <2> QED
    BY <2>2, <2>3, <2>7, <2>10 DEF AloneOn, SelectStates, ReadStates, WriteStates
<1>3. ASSUME NEW t \in Thread, Poll(t) PROVE QuietIsAlone'
  <2> SUFFICES ASSUME NEW u \in quiet PROVE AloneOn(u)'
    BY <1>3 DEF Poll
  <2>1. u \in Thread /\ AloneOn(u) /\ u = t
    BY <1>3 DEF Crossing, Poll, PollStates
  <2>2. /\ requests' = requests /\ selected' = selected /\ sending' = sending
        /\ line' = line /\ target' = target /\ missed' = missed
    BY <1>3 DEF Poll, bus
  <2>3. /\ pc[t] \in SelectStates => pc'[t] \in {"clear_s", "write_s"}
        /\ pc[t] \in ReadStates => pc'[t] \in {"clear_r", "write_r"}
        /\ pc[t] \in SelectStates \cup ReadStates
        /\ pc'[t] \in WriteStates => line = <<>>
    BY <1>3 DEF Poll, PollStates, WriteStates, InSelect, Step, Goto, Backlog, Types, SelectStates, ReadStates
  <2>4. IsSelected(t)' = IsSelected(t) /\ SelectLine(t)' = SelectLine(t)
    BY <2>2 DEF IsSelected, SelectLine
  <2> QED
    BY <2>1, <2>2, <2>3, <2>4 DEF AloneOn, SelectStates, ReadStates
<1>4. ASSUME NEW t \in Thread, Clear(t) PROVE QuietIsAlone'
  <2> SUFFICES ASSUME NEW u \in quiet PROVE AloneOn(u)'
    BY <1>4 DEF Clear
  <2>1. u \in Thread /\ AloneOn(u) /\ u = t
    BY <1>4 DEF Crossing, Clear, ClearStates
  <2>2. /\ requests' = requests /\ selected' = selected /\ sending' = sending
        /\ target' = target /\ missed' = missed
    BY <1>4 DEF Clear
  <2>3. /\ pc[t] \in SelectStates => pc'[t] = "poll_s"
        /\ pc[t] \in ReadStates => pc'[t] = "poll_r"
        /\ pc[t] \in SelectStates \cup ReadStates
    BY <1>4 DEF Clear, ClearStates, InSelect, Step, Goto, Types, SelectStates, ReadStates
  <2>4. IsSelected(t)' = IsSelected(t) /\ SelectLine(t)' = SelectLine(t)
    BY <2>2 DEF IsSelected, SelectLine
  <2> QED
    BY <2>1, <2>2, <2>3, <2>4 DEF AloneOn, SelectStates, ReadStates, WriteStates
<1>5. ASSUME NEW t \in Thread, Write(t) PROVE QuietIsAlone'
  <2> SUFFICES ASSUME NEW u \in quiet PROVE AloneOn(u)'
    BY <1>5 DEF Write
  <2>1. u \in Thread /\ AloneOn(u) /\ u = t
    BY <1>5 DEF Crossing, Write, WriteStates
  <2>2. /\ selected' = selected /\ sending' = sending /\ line' = line /\ target' = target
        /\ missed' = missed /\ line = <<>>
    BY <1>5, <2>1 DEF Write, AloneOn
  <2>3. /\ IsSelected(t)' = IsSelected(t) /\ SelectLine(t)' = SelectLine(t)
        /\ ReadLine(t)' = ReadLine(t)
    BY <2>2 DEF IsSelected, SelectLine, ReadLine
  <2>4. SelectLine(t) \in Requests /\ ReadLine(t) \in Requests
    BY <2>1, LineTypes
  <2>5. CASE InSelect(t)
    <3>1. pc'[t] = "poll_r" /\ requests' = Append(requests, SelectLine(t))
      BY <1>5, <2>5 DEF Write, Step, Goto, SelectLine, Types
    <3>2. requests = <<>> /\ sending = <<>>
      BY <2>1, <2>5 DEF AloneOn, InSelect, SelectStates
    <3>3. requests' = <<SelectLine(t)>>
      BY <2>4, <3>1, <3>2, ShortSequences
    <3> QED
      BY <2>1, <2>2, <2>3, <3>1, <3>2, <3>3 DEF AloneOn, SelectStates, ReadStates, WriteStates
  <2>6. CASE ~InSelect(t)
    <3>1. pc'[t] = "await" /\ requests' = Append(requests, ReadLine(t)) /\ pc[t] = "write_r"
      BY <1>5, <2>6 DEF Write, Step, Goto, InSelect, WriteStates, ReadLine, Types
    <3>2. /\ sending = <<>>
          /\ requests = <<SelectLine(t)>> \/ (requests = <<>> /\ IsSelected(t))
      BY <2>1, <3>1 DEF AloneOn, ReadStates
    <3>3. \/ requests' = <<SelectLine(t), ReadLine(t)>>
          \/ requests' = <<ReadLine(t)>> /\ IsSelected(t)
      BY <2>4, <3>1, <3>2, ShortSequences
    <3>4. OwnParts(t, sending)' /\ OwnParts(t, line)'
      BY <2>2, <3>2 DEF OwnParts
    <3> QED
      BY <2>1, <2>2, <2>3, <3>1, <3>2, <3>3, <3>4 DEF AloneOn, SelectStates, ReadStates, WriteStates
  <2> QED
    BY <2>5, <2>6
<1>6. ASSUME NEW t \in Thread, WriteFails(t) PROVE QuietIsAlone'
  <2>1. quiet' = quiet \ {t} /\ pc[t] # "idle"
    BY <1>6 DEF WriteFails, Finish, PollStates, WriteStates
  <2>2. quiet' = {}
    BY <2>1 DEF Crossing
  <2> QED
    BY <2>2
<1>12. ASSUME NEW t \in Thread, SelectFails(t) PROVE QuietIsAlone'
  <2> SUFFICES ASSUME NEW u \in quiet PROVE AloneOn(u)'
    BY <1>12 DEF SelectFails
  <2>1. u \in Thread /\ AloneOn(u) /\ u = t
    BY <1>12 DEF Crossing, SelectFails
  <2>2. requests' = requests /\ sending' = sending /\ pc'[t] = "poll_r" /\ t \in missed'
    BY <1>12 DEF SelectFails, Goto, Types, bus
  <2>3. requests = <<>> /\ sending = <<>>
    BY <1>12, <2>1 DEF SelectFails, AloneOn, SelectStates
  <2>4. IsSelected(t)'
    BY <2>2 DEF IsSelected
  <2> QED
    BY <2>1, <2>2, <2>3, <2>4 DEF AloneOn, SelectStates, ReadStates, WriteStates
<1>7. ASSUME NEW t \in Thread, TimesOut(t) PROVE QuietIsAlone'
  <2>1. quiet' = quiet \ {t} /\ pc[t] # "idle"
    BY <1>7 DEF TimesOut, Finish, At
  <2>2. quiet' = {}
    BY <2>1 DEF Crossing
  <2> QED
    BY <2>2
<1>8. ASSUME NEW t \in Thread, InputComes(t) PROVE QuietIsAlone'
  <2> SUFFICES ASSUME NEW u \in quiet PROVE AloneOn(u)'
    BY <1>8 DEF InputComes
  <2>1. u \in Thread /\ AloneOn(u) /\ u = t
    BY <1>8 DEF Crossing, InputComes, At
  <2>2. /\ requests' = requests /\ selected' = selected /\ sending' = sending
        /\ line' = line /\ target' = target /\ missed' = missed
        /\ pc[t] = "await" /\ pc'[t] = "take"
    BY <1>8 DEF InputComes, At, Goto, Types, bus
  <2>3. /\ IsSelected(t)' = IsSelected(t) /\ SelectLine(t)' = SelectLine(t)
        /\ ReadLine(t)' = ReadLine(t)
        /\ OwnParts(t, sending)' = OwnParts(t, sending) /\ OwnParts(t, line)' = OwnParts(t, line)
    BY <2>2 DEF IsSelected, SelectLine, ReadLine, OwnParts, Selected
  <2> QED
    BY <2>1, <2>2, <2>3 DEF AloneOn, SelectStates, ReadStates, WriteStates
<1>9. ASSUME NEW t \in Thread, Take(t) PROVE QuietIsAlone'
  <2>1. quiet' = quiet \ {t} /\ pc[t] # "idle"
    BY <1>9 DEF Take, Finish, At
  <2>2. quiet' = {}
    BY <2>1 DEF Crossing
  <2> QED
    BY <2>2
<1>10. ASSUME NEW t \in Thread, NEW x \in Targets, Begin(t, x)
      PROVE  QuietIsAlone'
  <2> SUFFICES ASSUME NEW u \in quiet' PROVE AloneOn(u)'
    OBVIOUS
  <2>1. u = t /\ requests = <<>> /\ sending = <<>>
    BY <1>10 DEF Begin, Crossing, Active
  <2>2. requests' = <<>> /\ sending' = <<>> /\ pc'[t] = "poll_s"
    BY <1>10, <2>1 DEF Begin, Goto, Types
  <2> QED
    BY <2>1, <2>2 DEF AloneOn, SelectStates, ReadStates, WriteStates
<1>11. CASE UNCHANGED vars
  BY <1>11 DEF vars, bus, AloneOn, IsSelected, SelectLine, ReadLine, OwnParts, Selected
<1> QED
  BY <1>1, <1>2, <1>3, <1>4, <1>5, <1>6, <1>7, <1>8, <1>9, <1>10, <1>11,
     <1>12 DEF Next, Continue, Adapter

-----------------------------------------------------------------------------
LEMMA InitInvariant == Init => IInv
<1> SUFFICES ASSUME Init PROVE IInv
  OBVIOUS
<1>1. Types
  <2>1. <<>> \in Seq(Requests) /\ <<>> \in Seq(Parts) /\ Len(<<>>) = 0
    OBVIOUS
  <2> QED
    BY <2>1 DEF Init, Types
<1>2. Spans
  <2>1. Selecting = {} /\ Writing = {}
    BY DEF Init, Selecting, Writing, SelectStates, ReadStates
  <2>2. Cardinality(Selecting) = 0 /\ Cardinality(Writing) = 0 /\ Len(requests) = 0
    BY <2>1, FS_EmptySet DEF Init
  <2> QED
    BY <2>2, SpanTypes, BoundAssumption DEF Spans
<1>3. Crossing /\ NeverLeft /\ NothingLeft /\ BlockedByOthers /\ QuietIsAlone
  BY DEF Init, Crossing, NeverLeft, NothingLeft, BlockedByOthers, Blocked, QuietIsAlone,
         ClearStates
<1> QED
  BY <1>1, <1>2, <1>3 DEF IInv

(* IInv holds in all states of the program. *)
THEOREM Invariant == Spec => []IInv
<1>1. IInv /\ [Next]_vars => IInv'
  BY TypesStep, SpansStep, CrossingStep, NeverLeftStep, NothingLeftStep, BlockedStep,
     QuietStep DEF IInv
<1> QED
  BY InitInvariant, <1>1, PTL DEF Spec

(* Every variable keeps its type, and the lines on their way are bounded   *)
(* by what the threads may still write.                                    *)
THEOREM TypeCorrect == Spec => []TypeOK
<1>1. IInv => TypeOK
  <2> SUFFICES ASSUME IInv PROVE TypeOK
    OBVIOUS
  <2>1. Len(requests) <= MaxPending + 2 * Cardinality(Thread)
    <3>1. Len(requests) \in Nat
      BY DEF IInv, Types
    <3> QED
      BY <3>1, SpanTypes, BoundAssumption DEF IInv, Spans
  <2>2. quiet \cap crossed = {}
    BY DEF IInv, Crossing
  <2> QED
    BY <2>1, <2>2 DEF IInv, Types, TypeOK, SelectStates, ReadStates
<1> QED
  BY Invariant, <1>1, PTL

(* A read() blocks without a timeout only after another thread took the    *)
(* input it had polled.                                                    *)
THEOREM OnlyOthersBlock == Spec => []BlockedByOthers
<1>1. IInv => BlockedByOthers
  BY DEF IInv
<1> QED
  BY Invariant, <1>1, PTL

(* A read() with the bus for itself returns its device's answer to its own *)
(* request, whatever earlier reads have left on the line; and what it has  *)
(* selected, unless the line that selects was not written.                 *)
THEOREM QuietReadsAreOwn == Spec => QuietReadIsOwn
<1>1. IInv /\ [Next]_vars => [\A t \in Thread : Returns(t) /\ t \in quiet => Own(t)]_vars
  <2> SUFFICES ASSUME IInv, NEW t \in Thread, Returns(t), t \in quiet PROVE Own(t)
    OBVIOUS
  <2>1. AloneOn(t) /\ pc[t] = "take" /\ line # <<>>
    BY DEF IInv, QuietIsAlone, Returns, Take, At
  <2>2. IsSelected(t) /\ OwnParts(t, line)
    BY <2>1 DEF AloneOn
  <2> QED
    BY <2>2 DEF OwnParts, Own
<1> QED
  BY Invariant, <1>1, PTL DEF Spec, QuietReadIsOwn

(* A read() that no other thread disturbs never returns an answer that had *)
(* come before it began.                                                   *)
THEOREM BacklogsAreCleared == Spec => BacklogIsCleared
<1>1. IInv /\ [Next]_vars =>
        [\A t \in Thread :
            Returns(t) /\ t \notin crossed =>
                \A i \in DOMAIN line : line[i].tag # "left"]_vars
  BY DEF IInv, NothingLeft, Returns, Take, At
<1> QED
  BY Invariant, <1>1, PTL DEF Spec, BacklogIsCleared

-----------------------------------------------------------------------------
(* The text of a line, and the values of the light sensor in it *)

(* What the loop of parse_bytes has after each character *)
Run(f, text, n) == f = [k \in 0 .. n |-> IF k = 0 THEN Nothing ELSE Scan(f[k - 1], text[k])]

LEMMA ScannedIs ==
    ASSUME NEW text
    PROVE  Scanned(text) = (CHOOSE f : Run(f, text, Len(text)))[Len(text)]
BY DEF Scanned, Run

(* A set of numbers that is not empty has a smallest one: the proofs below *)
(* go from the smallest place where something fails.                       *)
LEMMA Least == \A T \in SUBSET Nat : T # {} => \E x \in T : \A y \in T : ~(y < x)
<1> SUFFICES ASSUME NEW T \in SUBSET Nat, T # {} PROVE \E x \in T : \A y \in T : ~(y < x)
  OBVIOUS
<1> DEFINE R == OpToRel(<, Nat)
<1>1. IsWellFoundedOn(R, Nat)
  BY NatLessThanWellFounded, Zenon DEF R
<1>2. \A y, x \in Nat : y < x => <<y, x>> \in R
  BY DEF OpToRel
<1> HIDE DEF R
<1>3. \E x \in T : \A y \in T : ~(<<y, x>> \in R)
  BY <1>1, WFMin, Zenon
<1> QED
  BY <1>2, <1>3

(* The recursive function of Scanned exists, for a text of any length. *)
LEMMA RunsExist ==
    ASSUME NEW text, NEW n \in Nat
    PROVE  \E f : Run(f, text, n)
<1> DEFINE T == {k \in Nat : ~\E f : Run(f, text, k)}
<1>1. SUFFICES ASSUME T # {} PROVE FALSE
  BY <1>1
<1>2. PICK k \in T : \A j \in T : ~(j < k)
  <2>1. T \in SUBSET Nat
    OBVIOUS
  <2> HIDE DEF T
  <2> QED
    BY <1>1, <2>1, Least
<1>3. CASE k = 0
  <2>1. Run([j \in 0 .. 0 |-> Nothing], text, 0)
    BY DEF Run
  <2> QED
    BY <1>2, <1>3, <2>1
<1>4. CASE k # 0
  <2>1. k \in Nat /\ k - 1 \in Nat /\ k - 1 < k
    BY <1>2, <1>4
  <2>2. k - 1 \notin T
    BY <1>2, <2>1
  <2>3. PICK f : Run(f, text, k - 1)
    BY <2>1, <2>2
  <2> DEFINE g == [j \in 0 .. k |-> IF j = k THEN Scan(f[k - 1], text[k]) ELSE f[j]]
  <2>4. ASSUME NEW j \in 0 .. k
        PROVE  g[j] = IF j = 0 THEN Nothing ELSE Scan(g[j - 1], text[j])
    <3>1. CASE j = k
      <4>1. g[j] = Scan(f[k - 1], text[k]) /\ g[j - 1] = f[k - 1]
        BY <2>1, <3>1
      <4> QED
        BY <1>4, <3>1, <4>1
    <3>2. CASE j # k
      <4>1. j \in 0 .. k - 1 /\ g[j] = f[j] /\ (j # 0 => j - 1 \in 0 .. k /\ j - 1 # k)
        BY <2>1, <3>2
      <4>2. f[j] = IF j = 0 THEN Nothing ELSE Scan(f[j - 1], text[j])
        BY <2>3, <4>1 DEF Run
      <4> QED
        BY <4>1, <4>2
    <3> QED
      BY <3>1, <3>2
  <2>5. g = [j \in 0 .. k |-> IF j = 0 THEN Nothing ELSE Scan(g[j - 1], text[j])]
    BY <2>4
  <2>6. Run(g, text, k)
    BY <2>5 DEF Run
  <2> QED
    BY <1>2, <2>6
<1> QED
  BY <1>3, <1>4

LEMMA ScannedRuns ==
    ASSUME NEW text, Len(text) \in Nat
    PROVE  \E f : Run(f, text, Len(text)) /\ Scanned(text) = f[Len(text)]
<1> DEFINE f == CHOOSE f : Run(f, text, Len(text))
<1>1. Run(f, text, Len(text))
  BY RunsExist, Zenon
<1>2. Scanned(text) = f[Len(text)]
  BY ScannedIs
<1> HIDE DEF f
<1> QED
  BY <1>1, <1>2

LEMMA RunStep ==
    ASSUME NEW f, NEW text, NEW n \in Nat, Run(f, text, n), NEW k \in 0 .. n
    PROVE  /\ k = 0 => f[k] = Nothing
           /\ k # 0 => k - 1 \in 0 .. n /\ f[k] = Scan(f[k - 1], text[k])
<1>1. f[k] = IF k = 0 THEN Nothing ELSE Scan(f[k - 1], text[k])
  <2>1. f = [j \in 0 .. n |-> IF j = 0 THEN Nothing ELSE Scan(f[j - 1], text[j])]
    BY DEF Run
  <2>2. [j \in 0 .. n |-> IF j = 0 THEN Nothing ELSE Scan(f[j - 1], text[j])][k]
          = IF k = 0 THEN Nothing ELSE Scan(f[k - 1], text[k])
    OBVIOUS
  <2> QED
    BY <2>1, <2>2, Zenon
<1> QED
  BY <1>1

(* Texts that agree are parsed alike. *)
LEMMA RunsAgree ==
    ASSUME NEW n \in Nat, NEW m \in Nat, n <= m,
           NEW f, NEW g, NEW cut, NEW text,
           Run(f, cut, n), Run(g, text, m),
           \A k \in 1 .. n : cut[k] = text[k]
    PROVE  f[n] = g[n]
<1> DEFINE T == {k \in 0 .. n : f[k] # g[k]}
<1>1. SUFFICES ASSUME T # {} PROVE FALSE
  BY <1>1
<1>2. PICK k \in T : \A j \in T : ~(j < k)
  <2>1. T \in SUBSET Nat
    OBVIOUS
  <2> HIDE DEF T
  <2> QED
    BY <1>1, <2>1, Least
<1>3. k \in 0 .. n /\ k \in 0 .. m
  BY <1>2
<1>4. CASE k = 0
  <2>1. f[k] = Nothing /\ g[k] = Nothing
    BY <1>3, <1>4, RunStep
  <2> QED
    BY <1>2, <2>1
<1>5. CASE k # 0
  <2>1. k - 1 \in 0 .. n /\ f[k] = Scan(f[k - 1], cut[k])
    BY <1>3, <1>5, RunStep
  <2>2. g[k] = Scan(g[k - 1], text[k])
    BY <1>3, <1>5, RunStep
  <2>3. k - 1 < k /\ cut[k] = text[k]
    BY <1>3, <1>5
  <2>4. f[k - 1] = g[k - 1]
    BY <1>2, <2>1, <2>3
  <2>5. f[k] = g[k]
    BY <2>1, <2>2, <2>3, <2>4
  <2> QED
    BY <1>2, <2>5
<1> QED
  BY <1>4, <1>5

(* The states of the parser; what it has stored only grows. *)
Scans == [bytes : Seq(Byte), number : Nat, open : {"yes", "no"}, stop : {"yes", "no"}]

Begins(s, t) == Len(s) <= Len(t) /\ \A i \in 1 .. Len(s) : s[i] = t[i]

(* A character adds a byte or none, and takes none back. *)
LEMMA PushedIs ==
    ASSUME NEW s \in Scans, NEW b \in Seq(Byte)
    PROVE  [s EXCEPT !.bytes = b, !.number = 0, !.open = "no"] \in Scans
<1> DEFINE B == Seq(Byte)
<1>1. s \in [bytes : B, number : Nat, open : {"yes", "no"}, stop : {"yes", "no"}]
  BY DEF Scans
<1>2. b \in B
  OBVIOUS
<1> HIDE DEF B
<1>3. [s EXCEPT !.bytes = b, !.number = 0, !.open = "no"]
        \in [bytes : B, number : Nat, open : {"yes", "no"}, stop : {"yes", "no"}]
  BY <1>1, <1>2
<1> QED
  BY <1>3 DEF Scans, B

LEMMA PushGrows ==
    ASSUME NEW s \in Scans
    PROVE  Push(s) \in Scans /\ Begins(s.bytes, Push(s).bytes)
<1>1. /\ s.bytes \in Seq(Byte) /\ s.number \in Nat /\ s.stop \in {"yes", "no"}
      /\ s = [bytes |-> s.bytes, number |-> s.number, open |-> s.open, stop |-> s.stop]
  BY DEF Scans
<1>2. s.number % 256 \in Byte
  <2>1. \A n \in Nat : n % 256 \in 0 .. 255
    OBVIOUS
  <2> QED
    BY <1>1, <2>1 DEF Byte
<1>3. CASE s.open = "yes"
  <2>1. Push(s) = [s EXCEPT !.bytes = Append(s.bytes, s.number % 256), !.number = 0, !.open = "no"]
    BY <1>3 DEF Push
  <2>2. /\ Append(s.bytes, s.number % 256) \in Seq(Byte)
        /\ Begins(s.bytes, Append(s.bytes, s.number % 256))
    BY <1>1, <1>2 DEF Begins
  <2>3. Push(s).bytes = Append(s.bytes, s.number % 256)
    BY <2>1 DEF Scans
  <2>4. Push(s) \in Scans
    <3> DEFINE b == Append(s.bytes, s.number % 256)
    <3>1. b \in Seq(Byte)
      BY <2>2
    <3> HIDE DEF b
    <3>2. [s EXCEPT !.bytes = b, !.number = 0, !.open = "no"] \in Scans
      BY <3>1, PushedIs
    <3> QED
      BY <2>1, <3>2 DEF b
  <2> QED
    BY <2>2, <2>3, <2>4
<1>4. CASE s.open # "yes"
  <2>1. Push(s) = [s EXCEPT !.bytes = s.bytes, !.number = 0, !.open = "no"]
    BY <1>4 DEF Push
  <2>2. Begins(s.bytes, s.bytes)
    BY <1>1 DEF Begins
  <2>3. Push(s).bytes = s.bytes
    BY <2>1 DEF Scans
  <2>4. Push(s) \in Scans
    BY <1>1, <2>1, PushedIs
  <2> QED
    BY <2>2, <2>3, <2>4
<1> QED
  BY <1>3, <1>4

LEMMA ScanGrows ==
    ASSUME NEW s \in Scans, NEW c \in Characters
    PROVE  Scan(s, c) \in Scans /\ Begins(s.bytes, Scan(s, c).bytes)
<1>1. Begins(s.bytes, s.bytes)
  BY DEF Scans, Begins
<1>2. CASE s.stop = "yes"
  BY <1>1, <1>2 DEF Scan
<1>3. CASE s.stop = "no" /\ c = Delimiter
  <2>1. Scan(s, c) = Push(s)
    BY <1>3 DEF Scan, Delimiter, Other
  <2> QED
    BY <2>1, PushGrows
<1>4. CASE s.stop = "no" /\ c = Other
  <2>1. Scan(s, c) = [Push(s) EXCEPT !.stop = "yes"]
    BY <1>4 DEF Scan, Delimiter, Other
  <2>2. [Push(s) EXCEPT !.stop = "yes"] \in Scans /\ [Push(s) EXCEPT !.stop = "yes"].bytes = Push(s).bytes
    BY PushGrows DEF Scans
  <2> QED
    BY <2>1, <2>2, PushGrows
<1>5. CASE s.stop = "no" /\ c # Delimiter /\ c # Other
  <2>1. Scan(s, c) = [s EXCEPT !.number = 16 * s.number + c, !.open = "yes"]
    BY <1>5 DEF Scan
  <2>2. c \in Nat
    BY <1>5, TextAssumption DEF Characters
  <2>3. s.number \in Nat /\ 16 * s.number + c \in Nat
    BY <2>2 DEF Scans
  <2> QED
    BY <1>1, <2>1, <2>3 DEF Scans
<1>6. s.stop = "yes" \/ s.stop = "no"
  BY DEF Scans
<1> QED
  BY <1>2, <1>3, <1>4, <1>5, <1>6

LEMMA RunGrows ==
    ASSUME NEW m \in Nat, NEW n \in 0 .. m, NEW text, NEW f, Run(f, text, m),
           \A k \in 1 .. m : text[k] \in Characters
    PROVE  f[m] \in Scans /\ f[n] \in Scans /\ Begins(f[n].bytes, f[m].bytes)
<1> DEFINE T == {k \in 0 .. m : ~(f[k] \in Scans /\ (n <= k => f[n] \in Scans /\ Begins(f[n].bytes, f[k].bytes)))}
<1>1. SUFFICES ASSUME T # {} PROVE FALSE
  BY <1>1
<1>2. PICK k \in T : \A j \in T : ~(j < k)
  <2>1. T \in SUBSET Nat
    OBVIOUS
  <2> HIDE DEF T
  <2> QED
    BY <1>1, <2>1, Least
<1>3. k \in 0 .. m
  BY <1>2
<1>4. f[k] \in Scans
  <2>1. CASE k = 0
    <3>1. f[k] = Nothing
      BY <1>3, <2>1, RunStep
    <3> QED
      BY <3>1 DEF Nothing, Scans
  <2>2. CASE k # 0
    <3>1. k - 1 \in 0 .. m /\ f[k] = Scan(f[k - 1], text[k])
      BY <1>3, <2>2, RunStep
    <3>2. k - 1 < k /\ text[k] \in Characters
      BY <1>3, <2>2
    <3>3. f[k - 1] \in Scans
      BY <1>2, <3>1, <3>2
    <3> QED
      BY <3>1, <3>2, <3>3, ScanGrows
  <2> QED
    BY <2>1, <2>2
<1>5. CASE n = k
  <2>1. Begins(f[n].bytes, f[k].bytes)
    BY <1>4, <1>5 DEF Begins, Scans
  <2> QED
    BY <1>2, <1>4, <1>5, <2>1
<1>6. CASE n < k
  <2>1. k # 0
    BY <1>3, <1>6
  <2>2. k - 1 \in 0 .. m /\ f[k] = Scan(f[k - 1], text[k])
    BY <1>3, <2>1, RunStep
  <2>3. k - 1 < k /\ n <= k - 1 /\ text[k] \in Characters
    BY <1>3, <1>6, <2>1
  <2>4. f[k - 1] \in Scans /\ f[n] \in Scans /\ Begins(f[n].bytes, f[k - 1].bytes)
    BY <1>2, <2>2, <2>3
  <2>5. Begins(f[k - 1].bytes, f[k].bytes)
    BY <2>2, <2>3, <2>4, ScanGrows
  <2>6. Begins(f[n].bytes, f[k].bytes)
    <3>1. /\ Len(f[n].bytes) \in Nat /\ Len(f[k - 1].bytes) \in Nat /\ Len(f[k].bytes) \in Nat
      BY <1>4, <2>4 DEF Scans
    <3> DEFINE a == f[n].bytes
               b == f[k - 1].bytes
               c == f[k].bytes
    <3>2. Begins(a, b) /\ Begins(b, c) /\ Len(a) \in Nat /\ Len(b) \in Nat /\ Len(c) \in Nat
      BY <2>4, <2>5, <3>1
    <3> HIDE DEF a, b, c
    <3>3. Begins(a, c)
      <4>1. Len(a) <= Len(b) /\ Len(b) <= Len(c)
        BY <3>2 DEF Begins
      <4>2. \A i \in 1 .. Len(a) : i \in 1 .. Len(b) /\ a[i] = b[i]
        BY <3>2, <4>1 DEF Begins
      <4>3. \A i \in 1 .. Len(b) : b[i] = c[i]
        BY <3>2 DEF Begins
      <4> QED
        BY <3>2, <4>1, <4>2, <4>3 DEF Begins
    <3> QED
      BY <3>3 DEF a, c
  <2> QED
    BY <1>2, <1>4, <2>4, <2>6
<1>7. CASE k < n
  BY <1>2, <1>3, <1>4, <1>7
<1> QED
  BY <1>3, <1>5, <1>6, <1>7

(* What is parsed of a part of a text is the beginning of what is parsed   *)
(* of the whole text, for texts of any length.                             *)
LEMMA PartsArePrefixes ==
    ASSUME NEW text \in Seq(Characters), NEW n \in 0 .. Len(text)
    PROVE  Starts(Bytes(SubSeq(text, 1, n)), Bytes(text))
<1> DEFINE cut == SubSeq(text, 1, n)
           m == Len(text)
<1>1. /\ m \in Nat /\ n \in Nat /\ n <= m
      /\ Len(cut) = n
      /\ \A k \in 1 .. n : cut[k] = text[k]
      /\ \A k \in 1 .. m : text[k] \in Characters
  OBVIOUS
<1> HIDE DEF cut, m
<1>2. PICK f : Run(f, cut, n) /\ Scanned(cut) = f[n]
  BY <1>1, ScannedRuns
<1>3. PICK g : Run(g, text, m) /\ Scanned(text) = g[m]
  BY <1>1, ScannedRuns DEF m
<1>4. f[n] = g[n]
  BY <1>1, <1>2, <1>3, RunsAgree
<1>5. g[m] \in Scans /\ g[n] \in Scans /\ Begins(g[n].bytes, g[m].bytes)
  BY <1>1, <1>3, RunGrows
<1> DEFINE s == g[n].bytes
           t == g[m].bytes
<1>6. Bytes(cut) = s /\ Bytes(text) = t /\ s \in Seq(Byte) /\ t \in Seq(Byte)
  BY <1>2, <1>3, <1>4, <1>5 DEF Bytes, Scans
<1> HIDE DEF s, t
<1>7. Begins(s, t)
  BY <1>5 DEF s, t
<1>8. Starts(s, t)
  <2>1. Len(s) \in Nat /\ Len(t) \in Nat /\ Len(s) <= Len(t)
    BY <1>6, <1>7 DEF Begins
  <2>2. SubSeq(t, 1, Len(s)) \in Seq(Byte) /\ Len(SubSeq(t, 1, Len(s))) = Len(s)
    BY <1>6, <2>1
  <2>3. \A i \in 1 .. Len(s) : s[i] = SubSeq(t, 1, Len(s))[i]
    BY <1>6, <1>7, <2>1 DEF Begins
  <2>4. s = SubSeq(t, 1, Len(s))
    BY <1>6, <2>1, <2>2, <2>3, SeqEqual
  <2> QED
    BY <2>1, <2>4 DEF Starts
<1> QED
  BY <1>6, <1>8 DEF cut

(* An answer that is taken in parts, wherever it was cut, gives the first  *)
(* bytes of its values and never a wrong one: for texts of any digits and  *)
(* any length.                                                             *)
THEOREM CutAnswersArePrefixes == Spec => []CutIsPrefix
<1>1. CutsArePrefixes
  <2> SUFFICES ASSUME NEW text \in Texts, NEW n \in 0 .. Len(text)
               PROVE  Starts(Bytes(SubSeq(text, 1, n)), Bytes(text))
    BY DEF CutsArePrefixes
  <2>1. text \in Seq(Characters)
    BY TextAssumption, SeqDef DEF Texts
  <2> QED
    BY <2>1, PartsArePrefixes
<1>2. CutIsPrefix
  BY <1>1 DEF CutIsPrefix
<1> QED
  BY <1>2, PTL

(* The two parts of the converter's byte *)
LEMMA ChordValues ==
    ASSUME NEW b \in 0 .. 255
    PROVE  /\ Chord(b) \in 0 .. 7
           /\ Position(b) \in 0 .. 15
           /\ b % 128 = 16 * Chord(b) + Position(b)
BY SMT DEF Chord, Position

(* More light is a higher count: adc2count() is strictly monotone on the   *)
(* values that are valid, over the borders of its chords, too.             *)
THEOREM CountIsMonotone ==
    \A a, b \in 0 .. 255 : Valid(a) /\ Valid(b) /\ a < b => Count(a) < Count(b)
<1> SUFFICES ASSUME NEW a \in 0 .. 255, NEW b \in 0 .. 255,
                    Valid(a), Valid(b), a < b
             PROVE  Count(a) < Count(b)
  OBVIOUS
<1>1. 16 * Chord(a) + Position(a) < 16 * Chord(b) + Position(b)
  <2>1. a % 128 = a - 128 /\ b % 128 = b - 128
    BY SMT DEF Valid
  <2> QED
    BY <2>1, ChordValues, SMT
<1>2. /\ Chord(a) \in 0 .. 7 /\ Position(a) \in 0 .. 15
      /\ Chord(b) \in 0 .. 7 /\ Position(b) \in 0 .. 15
  BY ChordValues
<1> DEFINE W(c) == Weight[c + 1]
           V(c) == (33 * (Weight[c + 1] - 1)) \div 2
<1>3. /\ W(0) = 1 /\ W(1) = 2 /\ W(2) = 4 /\ W(3) = 8
      /\ W(4) = 16 /\ W(5) = 32 /\ W(6) = 64 /\ W(7) = 128
  BY DEF Weight
<1>4. /\ V(0) = 0 /\ V(1) = 16 /\ V(2) = 49 /\ V(3) = 115
      /\ V(4) = 247 /\ V(5) = 511 /\ V(6) = 1039 /\ V(7) = 2095
  BY <1>3, SMT
<1>5. ASSUME NEW p \in 0 .. 15, NEW q \in 0 .. 15, NEW c \in 0 .. 7, p < q
      PROVE  V(c) + p * W(c) < V(c) + q * W(c)
  BY <1>3, <1>4, <1>5, SMT
<1>6. ASSUME NEW p \in 0 .. 15, NEW q \in 0 .. 15, NEW c \in 0 .. 7, NEW e \in 0 .. 7, c < e
      PROVE  V(c) + p * W(c) < V(e) + q * W(e)
  <2>1. W(c) \in Nat /\ W(e) \in Nat /\ V(c) \in Nat /\ V(e) \in Nat
    BY <1>3, <1>4, SMT
  <2>2. p * W(c) <= 15 * W(c) /\ 0 <= q * W(e)
    BY <2>1, SMT
  <2>3. V(c) + 15 * W(c) < V(e)
    BY <1>3, <1>4, <1>6, SMT
  <2> DEFINE P == p * W(c)
             Q == q * W(e)
             F == 15 * W(c)
  <2>4. P \in Int /\ Q \in Int /\ F \in Int
    BY <2>1, SMT
  <2>5. P <= F /\ 0 <= Q
    BY <2>2
  <2>6. V(c) + F < V(e)
    BY <2>3
  <2> HIDE DEF V, W, P, Q, F
  <2>7. V(c) + P < V(e) + Q
    BY <2>1, <2>4, <2>5, <2>6, SMT
  <2> QED
    BY <2>7 DEF P, Q
<1>7. Chord(a) < Chord(b) \/ (Chord(a) = Chord(b) /\ Position(a) < Position(b))
  BY <1>1, <1>2, SMT
<1> QED
  BY <1>2, <1>5, <1>6, <1>7 DEF Count, ChordValue
=============================================================================
