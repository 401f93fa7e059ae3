------------------------------ MODULE AtmelProofs ------------------------------
(***************************************************************************)
(* Proofs about Atmel for any finite set of connection threads, any        *)
(* controls and values and any number of late replies: a call that has the *)
(* line for itself is exact; the read of an analog input that no other     *)
(* call overlaps is not taken in by one late reply of an input with        *)
(* another number; and no pulse is reported twice.                         *)
(***************************************************************************)
EXTENDS Atmel, FiniteSetTheorems, TLAPS

USE DEF boards, accounts, history

(* A thread is in a call or idle; only the read of an analog input has     *)
(* more than one stage.                                                    *)
Staged ==
    \A t \in Thread :
        /\ pc[t] = "idle" <=> call[t] = NoCall
        /\ stage[t] # "only" => pc[t] # "idle" /\ call[t].op = "adc"

(* A conversion in the new way names its input; a counter is a number.     *)
Honest(r) ==
    /\ r.op = "adc" => r.data = r.on
    /\ r.op \in {"count", "reset"} => r.data \in Nat

RepliesAreHonest ==
    /\ \A b \in Board : reply[b] # NoReply => Honest(reply[b]) /\ reply[b].from = b
    /\ \A i \in DOMAIN line : Honest(line[i])

(* Calls that do not overlap. *)
Alone ==
    tangled = "no" => \A t, u \in Thread : pc[t] # "idle" /\ pc[u] # "idle" => t = u

(* The converter is set to the input that is read. *)
ChannelIsSet ==
    tangled = "no" =>
        \A t \in Thread :
            /\ pc[t] # "idle" /\ call[t].op = "adc"
            /\ stage[t] = "start" \/ pc[t] \in {"ask", "await"}
            => channel[call[t].to] = call[t].on

(* Behind one stale reply there are only replies of this call, and the     *)
(* stale one is gone when a conversion is started in the old way.          *)
OfItsInput(t, r) == r.op = "start" => r.data = call[t].on

StartsAreOwn ==
    tangled = "no" /\ stale <= 1 =>
        \A t \in Thread :
            pc[t] # "idle" /\ call[t].op = "adc" =>
                /\ pc[t] = "ask" => OfItsInput(t, reply[call[t].to])
                /\ \A i \in DOMAIN line :
                      i >= 2 \/ stage[t] = "start" => OfItsInput(t, line[i])

(* What was written is there. *)
WrittenIsStored ==
    tangled = "no" =>
        \A t \in Thread :
            pc[t] \in {"ask", "await"} /\ call[t].op = "set" =>
                stored[call[t].to][call[t].on] = call[t].value

(* With nothing stale on its way every reply is of this call. *)
Exact(t, r) ==
    call[t].op = "get" /\ call[t].on \in Output \cup Mode /\ r # NoReply =>
        Returned(call[t], r.data) = stored[call[t].to][call[t].on]

RepliesAreExact ==
    tangled = "no" /\ stale = 0 =>
        \A t \in Thread :
            pc[t] # "idle" /\ call[t].op # "adc" =>
                /\ pc[t] \in {"command", "ask"} => line = <<>>
                /\ pc[t] = "ask" => Exact(t, reply[call[t].to])
                /\ \A i \in DOMAIN line : Exact(t, line[i])

(* And of this board. *)
LineIsOwn ==
    tangled = "no" /\ stale = 0 =>
        \A t \in Thread :
            pc[t] # "idle" => \A i \in DOMAIN line : line[i].from = call[t].to

(* The pulses a reply reports if readresetcounter() accepts it. *)
Pulses(r) == IF r.op = "reset" THEN r.data ELSE 0

(* Functions that grow along the line by what its replies report, or more: *)
(* the last value of one is a bound of their sum.                          *)
Sums(s) ==
    {f \in [0 .. Len(s) -> Nat] :
        \A i \in 1 .. Len(s) : \A j \in 0 .. i - 1 : f[j] + Pulses(s[i]) <= f[i]}

(* A sum of the line is within what there was, also with what a call is    *)
(* about to ask its board for.                                             *)
Covers(f) ==
    /\ reported + Counted + f[Len(line)] <= made
    /\ \A t \in Thread : pc[t] = "ask" =>
          reported + Counted + Pulses(reply[call[t].to]) + f[Len(line)] <= made

NotTwice == tangled = "no" => \E f \in Sums(line) : Covers(f)

(* Until such a call fails there is one reply of it at most, and it is     *)
(* where the call is.                                                      *)
Resetting(t, l) == pc[t] = l /\ call[t].op = "reset"

NothingDue ==
    /\ \A i \in DOMAIN line : line[i].op = "reset" =>
          /\ i = Len(line) /\ \E t \in Thread : Resetting(t, "await")
          /\ reported + Counted + line[i].data = made
    /\ \A t \in Thread : Resetting(t, "ask") =>
          reply[call[t].to].op = "reset" /\ reported + Counted + reply[call[t].to].data = made
    /\ \A t \in Thread : pc[t] = "ask" /\ call[t].op # "reset" => reply[call[t].to].op # "reset"
    /\ (\A t \in Thread : ~Resetting(t, "ask") /\ ~Resetting(t, "await")) =>
          reported + Counted = made

NothingLost == tangled = "no" /\ lossy = "no" => NothingDue

IInv ==
    /\ TypeOK /\ Staged /\ RepliesAreHonest /\ Alone /\ ChannelIsSet
    /\ StartsAreOwn /\ WrittenIsStored /\ RepliesAreExact /\ LineIsOwn
    /\ NotTwice /\ NothingLost

-----------------------------------------------------------------------------
(* What is left of the line when some of its first replies are gone. *)
LEMMA Suffixes ==
    ASSUME line \in Seq(Replies), NEW n \in 0 .. Len(line)
    PROVE  LET rest == SubSeq(line, n + 1, Len(line))
           IN  /\ rest \in Seq(Replies)
               /\ Len(rest) = Len(line) - n
               /\ \A i \in DOMAIN rest : i + n \in DOMAIN line /\ rest[i] = line[i + n]
OBVIOUS

LEMMA Backlogs ==
    ASSUME line \in Seq(Replies), NEW rest \in Backlog
    PROVE  \E n \in 0 .. Len(line) :
               /\ rest \in Seq(Replies)
               /\ Len(rest) = Len(line) - n
               /\ \A i \in DOMAIN rest : i + n \in DOMAIN line /\ rest[i] = line[i + n]
<1>1. PICK n \in 0 .. Len(line) : rest = SubSeq(line, n + 1, Len(line))
  BY DEF Backlog
<1> QED
  BY <1>1, Suffixes

(* A reply that is added comes last. *)
LEMMA Added ==
    ASSUME NEW s \in Seq(Replies), NEW r \in Replies
    PROVE  /\ Append(s, r) \in Seq(Replies)
           /\ \A i \in DOMAIN Append(s, r) :
                 \/ i \in DOMAIN s /\ Append(s, r)[i] = s[i]
                 \/ Append(s, r)[i] = r
OBVIOUS

(* The remainder of a division by a positive number. *)
LEMMA Remainder ==
    ASSUME NEW m \in Nat
    PROVE  m % Byte \in Nat /\ m % Byte <= m /\ (m < Byte => m % Byte = m)
BY ValueAssumption, SMTT(30)

(* What a call is. *)
LEMMA CallFacts ==
    ASSUME NEW c \in Calls
    PROVE  /\ c.op \in {"adc", "get", "set", "count", "reset"} /\ c # NoCall
           /\ c.to \in Board /\ c.on \in Control /\ c.value \in Nat
           /\ c.op = "adc" => c.on \in Analog
           /\ c.op = "set" => c.on \in Output \cup Mode
           /\ c.op = "set" /\ c.on \in Mode => c.value <= 3
<1>1. Modes \subseteq Nat /\ \A m \in Modes : m <= 3
  BY DEF Modes
<1>2. /\ c.op \in {"adc", "get", "set", "count", "reset"}
      /\ c.to \in Board /\ c.on \in Control
  BY DEF Calls, Control
<1>3. c.value \in Nat
  <2>1. c.value \in {0} \cup Value
    BY DEF Calls
  <2>2. \A v \in Value : v \in Nat
    BY ValueAssumption
  <2> QED
    BY <2>1, <2>2
<1>4. c # NoCall
  BY <1>2 DEF NoCall
<1>5. c.op = "adc" => c.on \in Analog
  BY DEF Calls
<1>6. c.op = "set" => (c.on \in Output \/ (c.on \in Mode /\ c.value \in Modes))
  BY DEF Calls
<1>7. c.op = "set" /\ c.on \in Mode => c.value <= 3
  BY <1>1, <1>6, KindAssumption
<1> QED
  BY <1>2, <1>3, <1>4, <1>5, <1>6, <1>7

LEMMA InCall ==
    ASSUME TypeOK, Staged, NEW t \in Thread, pc[t] # "idle"
    PROVE  call[t] \in Calls
BY DEF TypeOK, Staged

(* A reply of the board is one, and is honest. *)
LEMMA AnswerFacts ==
    ASSUME TypeOK, Staged, NEW t \in Thread, pc[t] # "idle", NEW r \in Answers(t)
    PROVE  /\ r \in Replies /\ Honest(r) /\ r.data \in Data(t)
           /\ r.op = "start" => r.data = channel[call[t].to]
           /\ r.from = call[t].to /\ call[t].to \in Board
<1>1. call[t] \in Calls
  BY InCall
<1> DEFINE b == call[t].to
<1>2. /\ call[t].op \in {"adc", "get", "set", "count", "reset"}
      /\ b \in Board /\ call[t].on \in Control
      /\ call[t].op = "adc" => call[t].on \in Analog
  BY <1>1, CallFacts
<1>3. /\ r.op = Sent(t).op /\ r.from = b
      /\ r.on = IF stage[t] = "start" THEN channel[b] ELSE call[t].on
      /\ r.size \in {0, 1} /\ r.good \in {"yes", "no"} /\ r.data \in Data(t)
      /\ r = [from |-> r.from, op |-> r.op, on |-> r.on, size |-> r.size, good |-> r.good,
              data |-> r.data]
  BY DEF Answers, Size
<1>4. /\ stage[t] = "start" => r.op = "start"
      /\ stage[t] # "start" => r.op = call[t].op
  BY <1>3 DEF Sent
<1>5. channel[b] \in Analog /\ channel[b] \in Control
  BY <1>2 DEF TypeOK, Control
<1>6. counter[b] \in Nat
  BY <1>2 DEF TypeOK
<1>7. \A x \in Output \cup Mode : stored[b][x] \in Nat
  BY <1>2 DEF TypeOK
<1>8. r.data \in Nat \cup Analog
  BY <1>2, <1>3, <1>5, <1>6, <1>7 DEF Data
<1>9. r \in Replies
  BY <1>2, <1>3, <1>4, <1>5, <1>8 DEF Replies
<1>10. Honest(r)
  BY <1>2, <1>3, <1>4, <1>6 DEF Honest, Data
<1>11. r.op = "start" => r.data = channel[b]
  <2>1. stage[t] = "start" => Data(t) = {channel[b]}
    BY DEF Data
  <2> QED
    BY <1>2, <1>3, <1>4, <2>1
<1> QED
  BY <1>2, <1>3, <1>9, <1>10, <1>11

(* The pulses of a board are some of all; its answer is the reply it holds *)
(* then; and what nobody asks for is forgotten.                            *)
LEMMA CountedFacts ==
    ASSUME TypeOK
    PROVE  /\ Counted \in Nat
           /\ \A b \in Board : counter[b] \in Nat /\ counter[b] <= Counted
           /\ \A b \in Board : counter' = [counter EXCEPT ![b] = 0] =>
                 Counted' = Counted - counter[b]
           /\ \A b \in Board : counter' = [counter EXCEPT ![b] = counter[b] + 1] =>
                 Counted' = Counted + 1
           /\ counter' = counter => Counted' = Counted
<1>1. /\ counter[Board02] \in Nat /\ counter[Board03] \in Nat
      /\ DOMAIN counter = Board /\ Board02 \in Board /\ Board03 \in Board
  BY DEF TypeOK, Board
<1>2. ASSUME NEW b \in Board, counter' = [counter EXCEPT ![b] = 0]
      PROVE  Counted' = Counted - counter[b]
  <2>1. CASE b = Board02
    BY <1>1, <1>2, <2>1, BoardAssumption DEF Counted
  <2>2. CASE b = Board03
    BY <1>1, <1>2, <2>2, BoardAssumption DEF Counted
  <2> QED
    BY <2>1, <2>2 DEF Board
<1>3. ASSUME NEW b \in Board, counter' = [counter EXCEPT ![b] = counter[b] + 1]
      PROVE  Counted' = Counted + 1
  <2>1. CASE b = Board02
    BY <1>1, <1>3, <2>1, BoardAssumption DEF Counted
  <2>2. CASE b = Board03
    BY <1>1, <1>3, <2>2, BoardAssumption DEF Counted
  <2> QED
    BY <2>1, <2>2 DEF Board
<1>4. Counted \in Nat /\ \A b \in Board : counter[b] \in Nat /\ counter[b] <= Counted
  BY <1>1 DEF Counted, Board
<1>5. counter' = counter => Counted' = Counted
  BY DEF Counted
<1> QED
  BY <1>2, <1>3, <1>4, <1>5

LEMMA Numbers ==
    ASSUME TypeOK
    PROVE  reported \in Nat /\ Counted \in Nat /\ made \in Nat
<1>1. reported \in Nat /\ made \in Nat
  BY BoundAssumption DEF TypeOK
<1> QED
  BY <1>1, CountedFacts

LEMMA Answered ==
    ASSUME TypeOK, Staged, NEW t \in Thread, WriteCommand(t)
    PROVE  /\ pc[t] # "idle" /\ call[t] \in Calls /\ call[t].to \in Board
           /\ reply'[call[t].to] \in Answers(t)
           /\ \A b \in Board : b # call[t].to => reply'[b] = reply[b]
           /\ DOMAIN reply' = Board /\ reply' = [b \in Board |-> reply'[b]]
<1>1. pc[t] # "idle" /\ call[t] \in Calls
  BY InCall DEF WriteCommand
<1>2. call[t].to \in Board
  BY <1>1, CallFacts
<1>3. PICK r \in Answers(t) : reply' = [reply EXCEPT ![call[t].to] = r]
  BY DEF WriteCommand
<1> QED
  BY <1>1, <1>2, <1>3 DEF TypeOK

LEMMA Forgotten ==
    ASSUME NEW t \in Thread, Forget(t)
    PROVE  /\ reply' = [b \in Board |-> reply'[b]]
           /\ \A b \in Board : reply'[b] \in {reply[b], NoReply}
BY DEF Forget

LEMMA Asked ==
    ASSUME TypeOK, Staged, NEW t \in Thread, AskReply(t)
    PROVE  /\ pc[t] = "ask" /\ pc[t] # "idle" /\ call[t].to \in Board
           /\ reply' = [b \in Board |-> reply'[b]]
           /\ \A b \in Board : reply'[b] \in {reply[b], NoReply}
           /\ \E rest \in Backlog :
                 \/ line' = rest
                 \/ /\ reply[call[t].to] # NoReply
                    /\ line' = Append(rest, reply[call[t].to])
<1>1. pc[t] = "ask" /\ pc[t] # "idle"
  BY DEF AskReply
<1>2. call[t].to \in Board
  BY <1>1, InCall, CallFacts
<1>3. reply' = [reply EXCEPT ![call[t].to] = NoReply]
  BY DEF AskReply
<1>4. \E rest \in Backlog :
          \/ line' = rest
          \/ /\ reply[call[t].to] # NoReply
             /\ line' = Append(rest, reply[call[t].to])
  BY DEF AskReply
<1> QED
  BY <1>1, <1>2, <1>3, <1>4 DEF TypeOK

(* An exception: the old ADC protocol is tried, or the call has ended. *)
Falls(t) ==
    /\ call[t].op = "adc" /\ stage[t] = "only"
    /\ pc' = [pc EXCEPT ![t] = "command"]
    /\ stage' = [stage EXCEPT ![t] = "select"]
    /\ UNCHANGED <<call, history>>

Ends(t) ==
    /\ pc' = [pc EXCEPT ![t] = "idle"]
    /\ call' = [call EXCEPT ![t] = NoCall]
    /\ stage' = [stage EXCEPT ![t] = "only"]
    /\ UNCHANGED <<tangled, stale, made>>

LEMMA FailFacts ==
    ASSUME TypeOK, Staged, NEW t \in Thread, Fail(t)
    PROVE  \/ Falls(t)
           \/ /\ Ends(t) /\ reported' = reported /\ lossy' \in {"yes", "no"}
BY DEF Fail, Falls, Ends, End, Goto, Fallback, TypeOK

(* No step leaves the types. *)
LEMMA TypeStep ==
    TypeOK /\ Staged /\ RepliesAreHonest /\ [Next]_vars => TypeOK'
<1> SUFFICES ASSUME TypeOK, Staged, RepliesAreHonest, [Next]_vars PROVE TypeOK'
  OBVIOUS
<1> USE DEF TypeOK
<1>1. ASSUME NEW t \in Thread, WriteCommand(t) PROVE TypeOK'
  <2>1. line' \in Seq(Replies)
    BY <1>1, Backlogs DEF WriteCommand
  <2>2. call[t] \in Calls /\ pc[t] # "idle"
    BY <1>1, InCall DEF WriteCommand
  <2>3. reply' \in [Board -> Replies \cup {NoReply}]
    <3>1. reply'[call[t].to] \in Replies
      BY <1>1, <2>2, Answered, AnswerFacts
    <3>2. \A b \in Board : reply'[b] \in Replies \cup {NoReply}
      BY <1>1, <3>1, Answered
    <3> QED
      BY <1>1, <3>2, Answered
  <2>4. channel' \in [Board -> Analog]
    <3>1. Sent(t).op = "adc" => call[t].op = "adc"
      BY DEF Sent
    <3> QED
      BY <1>1, <2>2, <3>1, CallFacts DEF WriteCommand
  <2>5. /\ stored' \in [Board -> [Output \cup Mode -> Nat]]
        /\ \A b \in Board, x \in Mode : stored'[b][x] <= 3
    <3>1. Sent(t).op = "set" => call[t].op = "set"
      BY DEF Sent
    <3>2. CASE stored' = stored
      BY <3>2
    <3>3. CASE Sent(t).op = "set"
               /\ stored' = [stored EXCEPT ![call[t].to][call[t].on] = call[t].value]
      <4>1. /\ call[t].value \in Nat /\ call[t].on \in Output \cup Mode
            /\ call[t].to \in Board
            /\ call[t].on \in Mode => call[t].value <= 3
        BY <2>2, <3>1, <3>3, CallFacts
      <4> QED
        BY <3>3, <4>1
    <3> QED
      BY <1>1, <3>2, <3>3 DEF WriteCommand
  <2>6. counter' \in [Board -> Nat] /\ Counted' <= MaxPulses
    <3>1. counter' = counter \/ counter' = [counter EXCEPT ![call[t].to] = 0]
      BY <1>1 DEF WriteCommand
    <3>2. counter' \in [Board -> Nat]
      BY <3>1
    <3>3. Counted \in Nat /\ Counted <= MaxPulses /\ MaxPulses \in Nat
      BY CountedFacts, BoundAssumption
    <3>4. Counted' = Counted \/ Counted' = Counted - counter[call[t].to]
      BY <1>1, <3>1, Answered, CountedFacts
    <3>5. counter[call[t].to] \in Nat /\ counter[call[t].to] <= Counted
      BY <1>1, Answered, CountedFacts
    <3> QED
      BY <3>2, <3>3, <3>4, <3>5
  <2> QED
    BY <1>1, <2>1, <2>3, <2>4, <2>5, <2>6 DEF WriteCommand, Goto
<1>2. ASSUME NEW t \in Thread, AskReply(t) PROVE TypeOK'
  <2> DEFINE held == reply[call[t].to]
  <2>1. PICK rest \in Backlog :
            line' = rest \/ (held # NoReply /\ line' = Append(rest, held))
    BY <1>2, Asked
  <2>2. rest \in Seq(Replies) /\ held \in Replies \cup {NoReply}
    BY <1>2, Asked, Backlogs
  <2>3. line' \in Seq(Replies)
    <3> HIDE DEF held
    <3> QED
      BY <2>1, <2>2, Added
  <2>4. reply' \in [Board -> Replies \cup {NoReply}]
    BY <1>2, Asked
  <2>5. Counted' = Counted
    BY <1>2, CountedFacts DEF AskReply
  <2> QED
    BY <1>2, <2>3, <2>4, <2>5 DEF AskReply, Goto
<1>3. ASSUME NEW t \in Thread, WriteFails(t) PROVE TypeOK'
  <2>1. line' \in Seq(Replies)
    BY <1>3, Backlogs DEF WriteFails
  <2>2. Falls(t) \/ (Ends(t) /\ reported' = reported /\ lossy' \in {"yes", "no"})
    BY <1>3, FailFacts DEF WriteFails
  <2>3. reply' \in [Board -> Replies \cup {NoReply}]
    BY <1>3, Forgotten DEF WriteFails
  <2>4. Counted' = Counted
    BY <1>3, CountedFacts DEF WriteFails
  <2> QED
    BY <1>3, <2>1, <2>2, <2>3, <2>4 DEF WriteFails, Falls, Ends
<1>4. ASSUME NEW t \in Thread, TimesOut(t) PROVE TypeOK'
  <2>1. Falls(t) \/ (Ends(t) /\ reported' = reported /\ lossy' \in {"yes", "no"})
    BY <1>4, FailFacts DEF TimesOut
  <2>2. Counted' = Counted
    BY <1>4, CountedFacts DEF TimesOut
  <2> QED
    BY <1>4, <2>1, <2>2 DEF TimesOut, Falls, Ends
<1>5. ASSUME NEW t \in Thread, Accept(t) PROVE TypeOK'
  <2>1. line' \in Seq(Replies)
    BY <1>5, Suffixes DEF Accept
  <2>2. PICK n \in 1 .. Len(line) : Acceptable(t, n)
    BY <1>5 DEF Accept
  <2>3. reported' \in Nat
    <3>1. CASE call[t].op = "reset" /\ NextStage(t) # "start"
      <4>1. Len(line) \in Nat /\ 1 \in DOMAIN line
        BY <2>2
      <4>2. line[1].op = "reset"
        BY <1>5, <2>2, <3>1 DEF Acceptable, Names, Sent, Staged
      <4>3. line[1].data \in Nat
        BY <4>1, <4>2 DEF RepliesAreHonest, Honest
      <4>4. Returned(call[t], line[1].data) \in Nat
        BY <3>1, <4>3, Remainder DEF Returned
      <4> QED
        BY <1>5, <3>1, <4>4 DEF Accept
    <3>2. CASE ~(call[t].op = "reset" /\ NextStage(t) # "start")
      BY <1>5, <3>2 DEF Accept
    <3> QED
      BY <3>1, <3>2
  <2>4. Counted' = Counted
    BY <1>5, CountedFacts DEF Accept
  <2> QED
    BY <1>5, <2>1, <2>3, <2>4 DEF Accept, End, Goto
<1>6. ASSUME NEW t \in Thread, Reject(t) PROVE TypeOK'
  <2>1. line' \in Seq(Replies)
    BY <1>6, Suffixes DEF Reject
  <2>2. Falls(t) \/ (Ends(t) /\ reported' = reported /\ lossy' \in {"yes", "no"})
    BY <1>6, FailFacts DEF Reject
  <2>3. Counted' = Counted
    BY <1>6, CountedFacts DEF Reject
  <2> QED
    BY <1>6, <2>1, <2>2, <2>3 DEF Reject, Falls, Ends
<1>7. ASSUME NEW t \in Thread, NEW c \in Calls, Begin(t, c) PROVE TypeOK'
  <2>1. Len(line) \in 0 .. MaxLate
    <3>1. Cardinality(Active) \in Nat
      BY ThreadAssumption, FS_Subset, FS_CardinalityType DEF Active
    <3>2. Len(line) \in Nat
      OBVIOUS
    <3> QED
      BY <1>7, <3>1, <3>2, BoundAssumption DEF Begin
  <2>2. made' \in 0 .. MaxPulses /\ reported' \in Nat /\ lossy' \in {"yes", "no"}
    <3>1. Counted \in Nat
      BY CountedFacts
    <3>2. Counted \in 0 .. MaxPulses /\ 0 \in 0 .. MaxPulses
      BY <3>1, BoundAssumption
    <3> QED
      BY <1>7, <3>2 DEF Begin
  <2>3. stale' \in 0 .. MaxLate
    BY <1>7, <2>1, BoundAssumption DEF Begin
  <2>4. Counted' = Counted
    BY <1>7, CountedFacts DEF Begin
  <2> QED
    BY <1>7, <2>2, <2>3, <2>4 DEF Begin, Goto
<1>8. ASSUME NEW b \in Board, Pulse(b) PROVE TypeOK'
  <2>1. counter' \in [Board -> Nat]
    BY <1>8 DEF Pulse
  <2>2. Counted' = Counted + 1 /\ Counted \in Nat
    BY <1>8, CountedFacts DEF Pulse
  <2>3. Counted' <= MaxPulses /\ made' \in 0 .. MaxPulses
    BY <1>8, <2>2, BoundAssumption DEF Pulse
  <2> QED
    BY <1>8, <2>1, <2>3 DEF Pulse
<1>9. CASE UNCHANGED vars
  BY <1>9, CountedFacts DEF vars
<1> QED
  BY <1>1, <1>2, <1>3, <1>4, <1>5, <1>6, <1>7, <1>8, <1>9 DEF Next, Continue

(* Only a call that reads an analog input has stages. *)
LEMMA StagedStep ==
    TypeOK /\ Staged /\ [Next]_vars => Staged'
<1> SUFFICES ASSUME TypeOK, Staged, [Next]_vars PROVE Staged'
  OBVIOUS
<1> USE DEF TypeOK, Staged
<1>1. ASSUME NEW t \in Thread, WriteCommand(t) PROVE Staged'
  BY <1>1 DEF WriteCommand, Goto
<1>2. ASSUME NEW t \in Thread, AskReply(t) PROVE Staged'
  BY <1>2 DEF AskReply, Goto
<1>3. ASSUME NEW t \in Thread, WriteFails(t) PROVE Staged'
  <2>1. Falls(t) \/ Ends(t)
    BY <1>3, FailFacts DEF WriteFails
  <2>2. pc[t] # "idle"
    BY <1>3 DEF WriteFails
  <2> QED
    BY <2>1, <2>2 DEF Falls, Ends
<1>4. ASSUME NEW t \in Thread, TimesOut(t) PROVE Staged'
  <2>1. Falls(t) \/ Ends(t)
    BY <1>4, FailFacts DEF TimesOut
  <2>2. pc[t] # "idle"
    BY <1>4 DEF TimesOut
  <2> QED
    BY <2>1, <2>2 DEF Falls, Ends
<1>5. ASSUME NEW t \in Thread, Accept(t) PROVE Staged'
  <2>1. CASE NextStage(t) = "start"
    <3>1. /\ pc' = [pc EXCEPT ![t] = "command"] /\ call' = call
          /\ stage' = [stage EXCEPT ![t] = "start"]
          /\ pc[t] = "await" /\ stage[t] = "select"
      BY <1>5, <2>1 DEF Accept, Goto, NextStage
    <3> QED
      BY <3>1
  <2>2. CASE NextStage(t) # "start"
    <3>1. /\ pc' = [pc EXCEPT ![t] = "idle"] /\ call' = [call EXCEPT ![t] = NoCall]
          /\ stage' = [stage EXCEPT ![t] = "only"]
      BY <1>5, <2>2 DEF Accept, End, Goto
    <3> QED
      BY <3>1
  <2> QED
    BY <2>1, <2>2
<1>6. ASSUME NEW t \in Thread, Reject(t) PROVE Staged'
  <2>1. Falls(t) \/ Ends(t)
    BY <1>6, FailFacts DEF Reject
  <2>2. pc[t] # "idle"
    BY <1>6 DEF Reject
  <2> QED
    BY <2>1, <2>2 DEF Falls, Ends
<1>7. ASSUME NEW t \in Thread, NEW c \in Calls, Begin(t, c) PROVE Staged'
  <2>1. c # NoCall
    BY CallFacts
  <2> QED
    BY <1>7, <2>1 DEF Begin, Goto
<1>8. ASSUME NEW b \in Board, Pulse(b) PROVE Staged'
  BY <1>8 DEF Pulse
<1>9. CASE UNCHANGED vars
  BY <1>9 DEF vars
<1> QED
  BY <1>1, <1>2, <1>3, <1>4, <1>5, <1>6, <1>7, <1>8, <1>9 DEF Next, Continue

(* The board gives honest replies. *)
LEMMA HonestStep ==
    TypeOK /\ Staged /\ RepliesAreHonest /\ [Next]_vars => RepliesAreHonest'
<1> SUFFICES ASSUME TypeOK, Staged, RepliesAreHonest, [Next]_vars PROVE RepliesAreHonest'
  OBVIOUS
<1> USE DEF RepliesAreHonest
<1>1. ASSUME NEW t \in Thread, WriteCommand(t) PROVE RepliesAreHonest'
  <2>1. Honest(reply'[call[t].to]) /\ reply'[call[t].to].from = call[t].to
    BY <1>1, Answered, AnswerFacts
  <2>2. \A b \in Board : reply'[b] # NoReply => Honest(reply'[b]) /\ reply'[b].from = b
    BY <1>1, <2>1, Answered
  <2>3. \A i \in DOMAIN line' : Honest(line'[i])
    BY <1>1, Backlogs DEF WriteCommand, TypeOK
  <2> QED
    BY <2>2, <2>3 DEF Honest
<1>2. ASSUME NEW t \in Thread, AskReply(t) PROVE RepliesAreHonest'
  <2> DEFINE held == reply[call[t].to]
  <2>1. PICK rest \in Backlog :
            line' = rest \/ (held # NoReply /\ line' = Append(rest, held))
    BY <1>2, Asked
  <2>2. rest \in Seq(Replies) /\ \A i \in DOMAIN rest : Honest(rest[i])
    BY Backlogs DEF TypeOK
  <2>3. \A i \in DOMAIN line' : Honest(line'[i])
    <3>1. CASE line' = rest
      BY <2>2, <3>1
    <3>2. CASE held # NoReply /\ line' = Append(rest, held)
      <4>1. held \in Replies /\ Honest(held)
        BY <1>2, <3>2, Asked DEF TypeOK
      <4> HIDE DEF held
      <4>2. \A i \in DOMAIN line' :
                (i \in DOMAIN rest /\ line'[i] = rest[i]) \/ line'[i] = held
        BY <2>2, <3>2, <4>1, Added
      <4> QED
        BY <2>2, <4>1, <4>2
    <3> QED
      BY <2>1, <3>1, <3>2
  <2>4. \A b \in Board : reply'[b] # NoReply => Honest(reply'[b]) /\ reply'[b].from = b
    BY <1>2, Asked
  <2> QED
    BY <2>3, <2>4 DEF Honest
<1>3. ASSUME NEW t \in Thread, WriteFails(t) PROVE RepliesAreHonest'
  <2>1. \A i \in DOMAIN line' : Honest(line'[i])
    BY <1>3, Backlogs DEF WriteFails, TypeOK
  <2>2. \A b \in Board : reply'[b] # NoReply => Honest(reply'[b]) /\ reply'[b].from = b
    BY <1>3, Forgotten DEF WriteFails
  <2> QED
    BY <2>1, <2>2 DEF Honest
<1>4. ASSUME NEW t \in Thread, TimesOut(t) PROVE RepliesAreHonest'
  BY <1>4 DEF TimesOut, Honest
<1>5. ASSUME NEW t \in Thread, Accept(t) PROVE RepliesAreHonest'
  <2>1. \A i \in DOMAIN line' : Honest(line'[i])
    BY <1>5, Suffixes DEF Accept, TypeOK
  <2> QED
    BY <1>5, <2>1 DEF Accept, Honest
<1>6. ASSUME NEW t \in Thread, Reject(t) PROVE RepliesAreHonest'
  <2>1. \A i \in DOMAIN line' : Honest(line'[i])
    BY <1>6, Suffixes DEF Reject, TypeOK
  <2> QED
    BY <1>6, <2>1 DEF Reject, Honest
<1>7. ASSUME NEW t \in Thread, NEW c \in Calls, Begin(t, c) PROVE RepliesAreHonest'
  BY <1>7 DEF Begin, Honest
<1>8. ASSUME NEW b \in Board, Pulse(b) PROVE RepliesAreHonest'
  BY <1>8 DEF Pulse, Honest
<1>9. CASE UNCHANGED vars
  BY <1>9 DEF vars, Honest
<1> QED
  BY <1>1, <1>2, <1>3, <1>4, <1>5, <1>6, <1>7, <1>8, <1>9 DEF Next, Continue

(* A call that overlaps another tangles them. *)
LEMMA AloneStep ==
    TypeOK /\ Alone /\ [Next]_vars => Alone'
<1> SUFFICES ASSUME TypeOK, Alone, [Next]_vars PROVE Alone'
  OBVIOUS
<1> USE DEF TypeOK, Alone
<1>1. ASSUME NEW t \in Thread, WriteCommand(t) PROVE Alone'
  BY <1>1 DEF WriteCommand, Goto
<1>2. ASSUME NEW t \in Thread, AskReply(t) PROVE Alone'
  BY <1>2 DEF AskReply, Goto
<1>3. ASSUME NEW t \in Thread, WriteFails(t) PROVE Alone'
  <2>1. /\ tangled' = tangled /\ pc[t] # "idle"
        /\ \A u \in Thread : u # t => pc'[u] = pc[u]
    BY <1>3 DEF WriteFails, Fail, End, Goto
  <2> QED
    BY <2>1
<1>4. ASSUME NEW t \in Thread, TimesOut(t) PROVE Alone'
  <2>1. /\ tangled' = tangled /\ pc[t] # "idle"
        /\ \A u \in Thread : u # t => pc'[u] = pc[u]
    BY <1>4 DEF TimesOut, Fail, End, Goto
  <2> QED
    BY <2>1
<1>5. ASSUME NEW t \in Thread, Accept(t) PROVE Alone'
  <2>1. /\ tangled' = tangled /\ pc[t] # "idle"
        /\ \A u \in Thread : u # t => pc'[u] = pc[u]
    BY <1>5 DEF Accept, End, Goto
  <2> QED
    BY <2>1
<1>6. ASSUME NEW t \in Thread, Reject(t) PROVE Alone'
  <2>1. /\ tangled' = tangled /\ pc[t] # "idle"
        /\ \A u \in Thread : u # t => pc'[u] = pc[u]
    BY <1>6 DEF Reject, Fail, End, Goto
  <2> QED
    BY <2>1
<1>7. ASSUME NEW t \in Thread, NEW c \in Calls, Begin(t, c) PROVE Alone'
  BY <1>7 DEF Begin, Goto, Active
<1>8. ASSUME NEW b \in Board, Pulse(b) PROVE Alone'
  BY <1>8 DEF Pulse
<1>9. CASE UNCHANGED vars
  BY <1>9 DEF vars
<1> QED
  BY <1>1, <1>2, <1>3, <1>4, <1>5, <1>6, <1>7, <1>8, <1>9 DEF Next, Continue

(* As long as calls do not overlap, the others are idle when one moves.    *)
LEMMA OthersIdle ==
    ASSUME TypeOK, Alone, tangled = "no", NEW t \in Thread, pc[t] # "idle"
    PROVE  \A u \in Thread : u # t => pc[u] = "idle"
BY DEF Alone

(* The converter stays at the input of a call that is alone. *)
LEMMA ChannelStep ==
    TypeOK /\ Staged /\ Alone /\ ChannelIsSet /\ [Next]_vars => ChannelIsSet'
<1> SUFFICES ASSUME TypeOK, Staged, Alone, ChannelIsSet, [Next]_vars PROVE ChannelIsSet'
  OBVIOUS
<1> USE DEF ChannelIsSet
<1>1. ASSUME NEW t \in Thread, WriteCommand(t) PROVE ChannelIsSet'
  <2> SUFFICES ASSUME tangled = "no", NEW u \in Thread, pc'[u] # "idle",
                      call'[u].op = "adc",
                      stage'[u] = "start" \/ pc'[u] \in {"ask", "await"}
               PROVE  channel'[call'[u].to] = call'[u].on
    BY <1>1 DEF WriteCommand, Fail
  <2>1. u = t
    BY <1>1, OthersIdle DEF WriteCommand, Fail, End, Goto, TypeOK
  <2>2. call' = call /\ stage' = stage /\ pc[t] # "idle"
    BY <1>1 DEF WriteCommand
  <2>3. CASE stage[t] = "start"
    <3>1. Sent(t).op = "start"
      BY <2>3 DEF Sent
    <3>2. channel' = channel
      BY <1>1, <3>1 DEF WriteCommand
    <3> QED
      BY <2>1, <2>2, <2>3, <3>2
  <2>4. CASE stage[t] # "start"
    <3>1. Sent(t).op = "adc"
      BY <2>1, <2>2, <2>4 DEF Sent
    <3>2. channel'[call[t].to] = call[t].on
      BY <1>1, <3>1, Answered DEF WriteCommand, TypeOK
    <3> QED
      BY <2>1, <2>2, <3>2
  <2> QED
    BY <2>3, <2>4
<1>2. ASSUME NEW t \in Thread, AskReply(t) PROVE ChannelIsSet'
  <2> SUFFICES ASSUME tangled = "no", NEW u \in Thread, pc'[u] # "idle",
                      call'[u].op = "adc",
                      stage'[u] = "start" \/ pc'[u] \in {"ask", "await"}
               PROVE  channel'[call'[u].to] = call'[u].on
    BY <1>2 DEF AskReply, Fail
  <2>1. u = t
    BY <1>2, OthersIdle DEF AskReply, Fail, End, Goto, TypeOK
  <2>2. call' = call /\ stage' = stage /\ channel' = channel /\ pc[t] = "ask"
    BY <1>2 DEF AskReply
  <2> QED
    BY <2>1, <2>2
<1>3. ASSUME NEW t \in Thread, WriteFails(t) PROVE ChannelIsSet'
  <2> SUFFICES ASSUME tangled = "no", NEW u \in Thread, pc'[u] # "idle",
                      call'[u].op = "adc",
                      stage'[u] = "start" \/ pc'[u] \in {"ask", "await"}
               PROVE  channel'[call'[u].to] = call'[u].on
    BY <1>3 DEF WriteFails, Fail
  <2>1. u = t
    BY <1>3, OthersIdle DEF WriteFails, Fail, End, Goto, TypeOK
  <2>2. Falls(t) \/ Ends(t)
    BY <1>3, FailFacts DEF WriteFails
  <2> QED
    BY <2>1, <2>2 DEF Falls, Ends, TypeOK
<1>4. ASSUME NEW t \in Thread, TimesOut(t) PROVE ChannelIsSet'
  <2> SUFFICES ASSUME tangled = "no", NEW u \in Thread, pc'[u] # "idle",
                      call'[u].op = "adc",
                      stage'[u] = "start" \/ pc'[u] \in {"ask", "await"}
               PROVE  channel'[call'[u].to] = call'[u].on
    BY <1>4 DEF TimesOut, Fail
  <2>1. u = t
    BY <1>4, OthersIdle DEF TimesOut, Fail, End, Goto, TypeOK
  <2>2. Falls(t) \/ Ends(t)
    BY <1>4, FailFacts DEF TimesOut
  <2> QED
    BY <2>1, <2>2 DEF Falls, Ends, TypeOK
<1>5. ASSUME NEW t \in Thread, Accept(t) PROVE ChannelIsSet'
  <2> SUFFICES ASSUME tangled = "no", NEW u \in Thread, pc'[u] # "idle",
                      call'[u].op = "adc",
                      stage'[u] = "start" \/ pc'[u] \in {"ask", "await"}
               PROVE  channel'[call'[u].to] = call'[u].on
    BY <1>5 DEF Accept
  <2>1. u = t
    BY <1>5, OthersIdle DEF Accept, End, Goto, TypeOK
  <2>2. NextStage(t) = "start"
    BY <1>5, <2>1 DEF Accept, End, Goto, TypeOK
  <2>3. call' = call /\ channel' = channel /\ pc[t] = "await"
    BY <1>5, <2>2 DEF Accept
  <2> QED
    BY <2>1, <2>3
<1>6. ASSUME NEW t \in Thread, Reject(t) PROVE ChannelIsSet'
  <2> SUFFICES ASSUME tangled = "no", NEW u \in Thread, pc'[u] # "idle",
                      call'[u].op = "adc",
                      stage'[u] = "start" \/ pc'[u] \in {"ask", "await"}
               PROVE  channel'[call'[u].to] = call'[u].on
    BY <1>6 DEF Reject, Fail
  <2>1. u = t
    BY <1>6, OthersIdle DEF Reject, Fail, End, Goto, TypeOK
  <2>2. Falls(t) \/ Ends(t)
    BY <1>6, FailFacts DEF Reject
  <2> QED
    BY <2>1, <2>2 DEF Falls, Ends, TypeOK
<1>7. ASSUME NEW t \in Thread, NEW c \in Calls, Begin(t, c) PROVE ChannelIsSet'
  <2> SUFFICES ASSUME tangled' = "no", NEW u \in Thread, pc'[u] # "idle",
                      stage'[u] = "start" \/ pc'[u] \in {"ask", "await"}
               PROVE  FALSE
    OBVIOUS
  <2>1. Active = {}
    BY <1>7 DEF Begin
  <2>2. u = t
    BY <1>7, <2>1 DEF Begin, Goto, Active, TypeOK
  <2> QED
    BY <1>7, <2>2 DEF Begin, Goto, TypeOK
<1>8. ASSUME NEW b \in Board, Pulse(b) PROVE ChannelIsSet'
  BY <1>8 DEF Pulse
<1>9. CASE UNCHANGED vars
  BY <1>9 DEF vars
<1> QED
  BY <1>1, <1>2, <1>3, <1>4, <1>5, <1>6, <1>7, <1>8, <1>9 DEF Next, Continue

(* What a call wrote alone stays. *)
LEMMA StoredStep ==
    TypeOK /\ Staged /\ Alone /\ WrittenIsStored /\ [Next]_vars => WrittenIsStored'
<1> SUFFICES ASSUME TypeOK, Staged, Alone, WrittenIsStored, [Next]_vars PROVE WrittenIsStored'
  OBVIOUS
<1> USE DEF WrittenIsStored
<1>1. ASSUME NEW t \in Thread, WriteCommand(t) PROVE WrittenIsStored'
  <2> SUFFICES ASSUME tangled = "no", NEW u \in Thread, pc'[u] \in {"ask", "await"},
                      call'[u].op = "set"
               PROVE  stored'[call'[u].to][call'[u].on] = call'[u].value
    BY <1>1 DEF WriteCommand
  <2>1. u = t /\ call' = call /\ pc[t] # "idle"
    BY <1>1, OthersIdle DEF WriteCommand, Goto, TypeOK
  <2>2. Sent(t).op = "set"
    BY <2>1 DEF Sent, Staged
  <2>3. stored' = [stored EXCEPT ![call[t].to][call[t].on] = call[t].value]
    BY <1>1, <2>2 DEF WriteCommand
  <2>4. call[t].to \in Board /\ call[t].on \in Output \cup Mode
    BY <2>1, InCall, CallFacts
  <2> QED
    BY <2>1, <2>3, <2>4 DEF TypeOK
<1>2. ASSUME NEW t \in Thread, AskReply(t) PROVE WrittenIsStored'
  <2>1. /\ call' = call /\ stored' = stored /\ tangled' = tangled /\ pc[t] = "ask"
        /\ \A u \in Thread : u # t => pc'[u] = pc[u]
    BY <1>2 DEF AskReply, Goto, TypeOK
  <2> QED
    BY <2>1
<1>3. ASSUME NEW t \in Thread, WriteFails(t) PROVE WrittenIsStored'
  <2>1. Falls(t) \/ Ends(t)
    BY <1>3, FailFacts DEF WriteFails
  <2>2. /\ stored' = stored /\ tangled' = tangled
        /\ pc'[t] \notin {"ask", "await"}
        /\ \A u \in Thread : u # t => pc'[u] = pc[u] /\ call'[u] = call[u]
    BY <1>3, <2>1 DEF WriteFails, Falls, Ends, TypeOK
  <2> QED
    BY <2>2
<1>4. ASSUME NEW t \in Thread, TimesOut(t) PROVE WrittenIsStored'
  <2>1. Falls(t) \/ Ends(t)
    BY <1>4, FailFacts DEF TimesOut
  <2>2. /\ stored' = stored /\ tangled' = tangled
        /\ pc'[t] \notin {"ask", "await"}
        /\ \A u \in Thread : u # t => pc'[u] = pc[u] /\ call'[u] = call[u]
    BY <1>4, <2>1 DEF TimesOut, Falls, Ends, TypeOK
  <2> QED
    BY <2>2
<1>5. ASSUME NEW t \in Thread, Accept(t) PROVE WrittenIsStored'
  <2>1. /\ stored' = stored /\ tangled' = tangled
        /\ pc'[t] \notin {"ask", "await"}
        /\ \A u \in Thread : u # t => pc'[u] = pc[u] /\ call'[u] = call[u]
    BY <1>5 DEF Accept, End, Goto, TypeOK
  <2> QED
    BY <2>1
<1>6. ASSUME NEW t \in Thread, Reject(t) PROVE WrittenIsStored'
  <2>1. Falls(t) \/ Ends(t)
    BY <1>6, FailFacts DEF Reject
  <2>2. /\ stored' = stored /\ tangled' = tangled
        /\ pc'[t] \notin {"ask", "await"}
        /\ \A u \in Thread : u # t => pc'[u] = pc[u] /\ call'[u] = call[u]
    BY <1>6, <2>1 DEF Reject, Falls, Ends, TypeOK
  <2> QED
    BY <2>2
<1>7. ASSUME NEW t \in Thread, NEW c \in Calls, Begin(t, c) PROVE WrittenIsStored'
  <2>1. pc' = [pc EXCEPT ![t] = "command"]
    BY <1>7 DEF Begin, Goto
  <2>2. tangled' = "no" => \A u \in Thread : u # t => pc[u] = "idle"
    BY <1>7 DEF Begin, Active
  <2> QED
    BY <2>1, <2>2 DEF TypeOK
<1>8. ASSUME NEW b \in Board, Pulse(b) PROVE WrittenIsStored'
  BY <1>8 DEF Pulse
<1>9. CASE UNCHANGED vars
  BY <1>9 DEF vars
<1> QED
  BY <1>1, <1>2, <1>3, <1>4, <1>5, <1>6, <1>7, <1>8, <1>9 DEF Next, Continue

(* What is started in the old way is of its input. *)
LEMMA StartsStep ==
    TypeOK /\ Staged /\ Alone /\ ChannelIsSet /\ StartsAreOwn /\ [Next]_vars => StartsAreOwn'
<1> SUFFICES ASSUME TypeOK, Staged, Alone, ChannelIsSet, StartsAreOwn, [Next]_vars PROVE StartsAreOwn'
  OBVIOUS
<1> USE DEF StartsAreOwn
<1>1. ASSUME NEW t \in Thread, WriteCommand(t) PROVE StartsAreOwn'
  <2> SUFFICES ASSUME tangled = "no", stale <= 1, NEW u \in Thread, pc'[u] # "idle",
                      call'[u].op = "adc"
               PROVE  /\ pc'[u] = "ask" => OfItsInput(u, reply[call[u].to])'
                      /\ \A i \in DOMAIN line' :
                            i >= 2 \/ stage'[u] = "start" => OfItsInput(u, line[i])'
    BY <1>1 DEF WriteCommand, Fail
  <2>1. u = t /\ pc[t] # "idle"
    BY <1>1, OthersIdle DEF WriteCommand, Fail, End, Goto, TypeOK
  <2>2. call' = call /\ stage' = stage /\ pc[t] = "command"
    BY <1>1 DEF WriteCommand
  <2>3. PICK n \in 0 .. Len(line) :
            /\ line' \in Seq(Replies)
            /\ \A i \in DOMAIN line' : i + n \in DOMAIN line /\ line'[i] = line[i + n]
    BY <1>1, Backlogs DEF WriteCommand, TypeOK
  <2>4. OfItsInput(t, reply'[call[t].to])
    <3> DEFINE r == reply'[call[t].to]
    <3>1. r.op = "start" => r.data = channel[call[t].to] /\ stage[t] = "start"
      <4>1. r \in Answers(t)
        BY <1>1, Answered
      <4>2. r.op = "start" => r.data = channel[call[t].to]
        BY <2>1, <4>1, AnswerFacts
      <4>3. r.op = Sent(t).op
        BY <4>1 DEF Answers
      <4>4. Sent(t).op = "start" => stage[t] = "start"
        BY <2>1, <2>2 DEF Sent
      <4> QED
        BY <4>2, <4>3, <4>4
    <3>2. stage[t] = "start" => channel[call[t].to] = call[t].on
      BY <2>1, <2>2 DEF ChannelIsSet
    <3> QED
      BY <3>1, <3>2 DEF OfItsInput
  <2>5. \A i \in DOMAIN line' : i >= 2 \/ stage[t] = "start" => OfItsInput(t, line'[i])
    <3> SUFFICES ASSUME NEW i \in DOMAIN line', i >= 2 \/ stage[t] = "start"
                 PROVE  OfItsInput(t, line'[i])
      OBVIOUS
    <3>1. i \in Nat
      BY <2>3
    <3>2. /\ i + n \in DOMAIN line /\ line'[i] = line[i + n]
          /\ i + n >= 2 \/ stage[t] = "start"
      BY <2>3, <3>1
    <3> QED
      BY <2>1, <2>2, <3>2
  <2> QED
    BY <2>1, <2>2, <2>4, <2>5 DEF OfItsInput
<1>2. ASSUME NEW t \in Thread, AskReply(t) PROVE StartsAreOwn'
  <2> SUFFICES ASSUME tangled = "no", stale <= 1, NEW u \in Thread, pc'[u] # "idle",
                      call'[u].op = "adc"
               PROVE  /\ pc'[u] = "ask" => OfItsInput(u, reply[call[u].to])'
                      /\ \A i \in DOMAIN line' :
                            i >= 2 \/ stage'[u] = "start" => OfItsInput(u, line[i])'
    BY <1>2 DEF AskReply, Fail
  <2>1. u = t /\ pc[t] # "idle"
    BY <1>2, OthersIdle DEF AskReply, Fail, End, Goto, TypeOK
  <2>2. call' = call /\ stage' = stage /\ pc[t] = "ask" /\ pc'[t] = "await"
    BY <1>2 DEF AskReply, Goto, TypeOK
  <2> DEFINE held == reply[call[t].to]
  <2>3. PICK rest \in Backlog :
            line' = rest \/ (held # NoReply /\ line' = Append(rest, held))
    BY <1>2, Asked
  <2>4. PICK n \in 0 .. Len(line) :
            /\ rest \in Seq(Replies)
            /\ \A i \in DOMAIN rest : i + n \in DOMAIN line /\ rest[i] = line[i + n]
    BY Backlogs DEF TypeOK
  <2>5. \A i \in DOMAIN rest : i >= 2 \/ stage[t] = "start" => OfItsInput(t, rest[i])
    <3> SUFFICES ASSUME NEW i \in DOMAIN rest, i >= 2 \/ stage[t] = "start"
                 PROVE  OfItsInput(t, rest[i])
      OBVIOUS
    <3>1. i \in Nat
      BY <2>4
    <3>2. /\ i + n \in DOMAIN line /\ rest[i] = line[i + n]
          /\ i + n >= 2 \/ stage[t] = "start"
      BY <2>4, <3>1
    <3> QED
      BY <2>1, <2>2, <3>2
  <2>6. \A i \in DOMAIN line' : i >= 2 \/ stage[t] = "start" => OfItsInput(t, line'[i])
    <3>1. CASE line' = rest
      BY <2>5, <3>1
    <3>2. CASE held # NoReply /\ line' = Append(rest, held)
      <4>1. held \in Replies
        BY <1>2, <3>2, Asked DEF TypeOK
      <4>2. OfItsInput(t, held)
        BY <2>1, <2>2
      <4> HIDE DEF held
      <4>3. \A i \in DOMAIN line' :
                (i \in DOMAIN rest /\ line'[i] = rest[i]) \/ line'[i] = held
        BY <2>4, <3>2, <4>1, Added
      <4> QED
        BY <2>5, <4>2, <4>3
    <3> QED
      BY <2>3, <3>1, <3>2
  <2> QED
    BY <2>1, <2>2, <2>6 DEF OfItsInput
<1>3. ASSUME NEW t \in Thread, WriteFails(t) PROVE StartsAreOwn'
  <2> SUFFICES ASSUME tangled = "no", stale <= 1, NEW u \in Thread, pc'[u] # "idle",
                      call'[u].op = "adc"
               PROVE  /\ pc'[u] = "ask" => OfItsInput(u, reply[call[u].to])'
                      /\ \A i \in DOMAIN line' :
                            i >= 2 \/ stage'[u] = "start" => OfItsInput(u, line[i])'
    BY <1>3 DEF WriteFails, Fail
  <2>1. u = t /\ pc[t] # "idle"
    BY <1>3, OthersIdle DEF WriteFails, Fail, End, Goto, TypeOK
  <2>2. Falls(t)
    <3>1. Falls(t) \/ Ends(t)
      BY <1>3, FailFacts DEF WriteFails
    <3> QED
      BY <2>1, <3>1 DEF Ends, TypeOK
  <2>3. /\ call' = call /\ pc'[t] = "command" /\ stage'[t] = "select" /\ stage[t] = "only"
        /\ call[t].op = "adc"
    BY <2>2 DEF Falls, TypeOK
  <2>4. PICK n \in 0 .. Len(line) :
            /\ line' \in Seq(Replies)
            /\ \A i \in DOMAIN line' : i + n \in DOMAIN line /\ line'[i] = line[i + n]
    BY <1>3, Backlogs DEF WriteFails, TypeOK
  <2>5. \A i \in DOMAIN line' : i >= 2 => OfItsInput(t, line'[i])
    <3> SUFFICES ASSUME NEW i \in DOMAIN line', i >= 2 PROVE OfItsInput(t, line'[i])
      OBVIOUS
    <3>1. i \in Nat
      BY <2>4
    <3>2. i + n \in DOMAIN line /\ i + n >= 2 /\ line'[i] = line[i + n]
      BY <2>4, <3>1
    <3> QED
      BY <2>1, <2>3, <3>2
  <2> QED
    BY <2>1, <2>3, <2>5 DEF OfItsInput
<1>4. ASSUME NEW t \in Thread, TimesOut(t) PROVE StartsAreOwn'
  <2> SUFFICES ASSUME tangled = "no", stale <= 1, NEW u \in Thread, pc'[u] # "idle",
                      call'[u].op = "adc"
               PROVE  /\ pc'[u] = "ask" => OfItsInput(u, reply[call[u].to])'
                      /\ \A i \in DOMAIN line' :
                            i >= 2 \/ stage'[u] = "start" => OfItsInput(u, line[i])'
    BY <1>4 DEF TimesOut, Fail
  <2>1. u = t /\ pc[t] # "idle"
    BY <1>4, OthersIdle DEF TimesOut, Fail, End, Goto, TypeOK
  <2>2. Falls(t)
    <3>1. Falls(t) \/ Ends(t)
      BY <1>4, FailFacts DEF TimesOut
    <3> QED
      BY <2>1, <3>1 DEF Ends, TypeOK
  <2>3. /\ call' = call /\ pc'[t] = "command" /\ stage'[t] = "select" /\ stage[t] = "only"
        /\ call[t].op = "adc"
    BY <2>2 DEF Falls, TypeOK
  <2>4. line' = line
    BY <1>4 DEF TimesOut
  <2> QED
    BY <2>1, <2>3, <2>4 DEF OfItsInput
<1>5. ASSUME NEW t \in Thread, Accept(t) PROVE StartsAreOwn'
  <2> SUFFICES ASSUME tangled = "no", stale <= 1, NEW u \in Thread, pc'[u] # "idle",
                      call'[u].op = "adc"
               PROVE  /\ pc'[u] = "ask" => OfItsInput(u, reply[call[u].to])'
                      /\ \A i \in DOMAIN line' :
                            i >= 2 \/ stage'[u] = "start" => OfItsInput(u, line[i])'
    BY <1>5 DEF Accept
  <2>1. u = t /\ pc[t] # "idle"
    BY <1>5, OthersIdle DEF Accept, End, Goto, TypeOK
  <2>2. NextStage(t) = "start"
    BY <1>5, <2>1 DEF Accept, End, Goto, TypeOK
  <2>3. call' = call /\ pc'[t] = "command"
    BY <1>5, <2>2 DEF Accept, Goto, TypeOK
  <2>4. PICK n \in 1 .. Len(line) :
            /\ line' \in Seq(Replies)
            /\ \A i \in DOMAIN line' : i + n \in DOMAIN line /\ line'[i] = line[i + n]
    BY <1>5, Suffixes DEF Accept, TypeOK
  <2>5. \A i \in DOMAIN line' : OfItsInput(t, line'[i])
    <3> SUFFICES ASSUME NEW i \in DOMAIN line' PROVE OfItsInput(t, line'[i])
      OBVIOUS
    <3>1. i \in Nat /\ i >= 1
      BY <2>4
    <3>2. i + n \in DOMAIN line /\ i + n >= 2 /\ line'[i] = line[i + n]
      BY <2>4, <3>1
    <3> QED
      BY <2>1, <2>3, <3>2
  <2> QED
    BY <2>1, <2>3, <2>5 DEF OfItsInput
<1>6. ASSUME NEW t \in Thread, Reject(t) PROVE StartsAreOwn'
  <2> SUFFICES ASSUME tangled = "no", stale <= 1, NEW u \in Thread, pc'[u] # "idle",
                      call'[u].op = "adc"
               PROVE  /\ pc'[u] = "ask" => OfItsInput(u, reply[call[u].to])'
                      /\ \A i \in DOMAIN line' :
                            i >= 2 \/ stage'[u] = "start" => OfItsInput(u, line[i])'
    BY <1>6 DEF Reject, Fail
  <2>1. u = t /\ pc[t] # "idle"
    BY <1>6, OthersIdle DEF Reject, Fail, End, Goto, TypeOK
  <2>2. Falls(t)
    <3>1. Falls(t) \/ Ends(t)
      BY <1>6, FailFacts DEF Reject
    <3> QED
      BY <2>1, <3>1 DEF Ends, TypeOK
  <2>3. /\ call' = call /\ pc'[t] = "command" /\ stage'[t] = "select" /\ stage[t] = "only"
        /\ call[t].op = "adc"
    BY <2>2 DEF Falls, TypeOK
  <2>4. PICK n \in 1 .. Len(line) :
            /\ line' \in Seq(Replies)
            /\ \A i \in DOMAIN line' : i + n \in DOMAIN line /\ line'[i] = line[i + n]
    BY <1>6, Suffixes DEF Reject, TypeOK
  <2>5. \A i \in DOMAIN line' : i >= 2 => OfItsInput(t, line'[i])
    <3> SUFFICES ASSUME NEW i \in DOMAIN line', i >= 2 PROVE OfItsInput(t, line'[i])
      OBVIOUS
    <3>1. i \in Nat
      BY <2>4
    <3>2. i + n \in DOMAIN line /\ i + n >= 2 /\ line'[i] = line[i + n]
      BY <2>4, <3>1
    <3> QED
      BY <2>1, <2>3, <3>2
  <2> QED
    BY <2>1, <2>3, <2>5 DEF OfItsInput
<1>7. ASSUME NEW t \in Thread, NEW c \in Calls, Begin(t, c) PROVE StartsAreOwn'
  <2> SUFFICES ASSUME tangled' = "no", stale' <= 1, NEW u \in Thread, pc'[u] # "idle"
               PROVE  /\ pc'[u] # "ask" /\ stage'[u] # "start"
                      /\ \A i \in DOMAIN line' : ~(i >= 2)
    OBVIOUS
  <2>1. Active = {}
    BY <1>7 DEF Begin
  <2>2. u = t
    BY <1>7, <2>1 DEF Begin, Goto, Active, TypeOK
  <2>3. line' = line /\ Len(line) <= 1 /\ DOMAIN line = 1 .. Len(line) /\ Len(line) \in Nat
    BY <1>7 DEF Begin, TypeOK
  <2>4. pc'[t] = "command" /\ stage'[t] = "only"
    BY <1>7 DEF Begin, Goto, TypeOK
  <2> QED
    BY <2>2, <2>3, <2>4
<1>8. ASSUME NEW b \in Board, Pulse(b) PROVE StartsAreOwn'
  BY <1>8 DEF Pulse, OfItsInput
<1>9. CASE UNCHANGED vars
  BY <1>9 DEF vars, OfItsInput
<1> QED
  BY <1>1, <1>2, <1>3, <1>4, <1>5, <1>6, <1>7, <1>8, <1>9 DEF Next, Continue

(* The reply command() accepts is the first on the line, and names the     *)
(* command that was sent.                                                  *)
LEMMA Accepted ==
    ASSUME TypeOK, NEW t \in Thread, Accept(t)
    PROVE  1 \in DOMAIN line /\ Names(t, line[1]) /\ pc[t] = "await"
<1>1. PICK n \in 1 .. Len(line) : Acceptable(t, n)
  BY DEF Accept
<1>2. Len(line) \in Nat /\ DOMAIN line = 1 .. Len(line)
  BY DEF TypeOK
<1> QED
  BY <1>1, <1>2 DEF Acceptable, Accept

(* What the board says of an output, or of the mode of one, is what it     *)
(* holds.                                                                  *)
LEMMA AnswerIsStored ==
    ASSUME TypeOK, NEW t \in Thread, call[t].to \in Board, stage[t] = "only", NEW x \in Data(t),
           call[t].op = "get", call[t].on \in Output \cup Mode
    PROVE  Returned(call[t], x) = stored[call[t].to][call[t].on]
<1>1. CASE call[t].on \in Mode
  <2>1. stored[call[t].to][call[t].on] \in Nat /\ stored[call[t].to][call[t].on] <= 3
    BY <1>1 DEF TypeOK
  <2>2. x \in IF stored[call[t].to][call[t].on] = 3 THEN {3, 4} ELSE {stored[call[t].to][call[t].on]}
    BY <1>1, KindAssumption DEF Data
  <2> QED
    BY <1>1, <2>1, <2>2 DEF Returned
<1>2. CASE call[t].on \in Output
  <2>1. call[t].on \notin Mode
    BY <1>2, KindAssumption
  <2>2. x = stored[call[t].to][call[t].on]
    BY <1>2, <2>1 DEF Data
  <2> QED
    BY <2>1, <2>2 DEF Returned
<1> QED
  BY <1>1, <1>2

(* With nothing stale on its way replies stay exact. *)
LEMMA ExactStep ==
    TypeOK /\ Staged /\ Alone /\ RepliesAreExact /\ [Next]_vars => RepliesAreExact'
<1> SUFFICES ASSUME TypeOK, Staged, Alone, RepliesAreExact, [Next]_vars PROVE RepliesAreExact'
  OBVIOUS
<1> USE DEF RepliesAreExact
<1>1. ASSUME NEW t \in Thread, WriteCommand(t) PROVE RepliesAreExact'
  <2> SUFFICES ASSUME tangled = "no", stale = 0, NEW u \in Thread, pc'[u] # "idle",
                      call'[u].op # "adc"
               PROVE  /\ pc'[u] \in {"command", "ask"} => line' = <<>>
                      /\ pc'[u] = "ask" => Exact(u, reply[call[u].to])'
                      /\ \A i \in DOMAIN line' : Exact(u, line[i])'
    BY <1>1 DEF WriteCommand, Fail
  <2>1. u = t /\ pc[t] # "idle"
    BY <1>1, OthersIdle DEF WriteCommand, Fail, End, Goto, TypeOK
  <2>2. call' = call /\ pc[t] = "command" /\ stage[t] = "only" /\ call[t].op # "adc"
    BY <1>1, <2>1 DEF WriteCommand, Staged
  <2>3. line = <<>>
    BY <2>1, <2>2
  <2>4. line' = <<>>
    BY <1>1, <2>3 DEF WriteCommand, Backlog
  <2>5. call[t].op = "get" => stored' = stored
    BY <1>1, <2>2 DEF WriteCommand, Sent
  <2>6. Exact(t, reply'[call[t].to])
    <3> SUFFICES ASSUME call[t].op = "get", call[t].on \in Output \cup Mode
                 PROVE  Returned(call[t], reply'[call[t].to].data) = stored[call[t].to][call[t].on]
      BY <2>2 DEF Exact
    <3>1. reply'[call[t].to].data \in Data(t) /\ call[t].to \in Board
      BY <1>1, Answered, AnswerFacts
    <3> QED
      BY <2>2, <3>1, AnswerIsStored
  <2> QED
    BY <2>1, <2>2, <2>4, <2>5, <2>6 DEF Exact, Returned
<1>2. ASSUME NEW t \in Thread, AskReply(t) PROVE RepliesAreExact'
  <2> SUFFICES ASSUME tangled = "no", stale = 0, NEW u \in Thread, pc'[u] # "idle",
                      call'[u].op # "adc"
               PROVE  /\ pc'[u] \in {"command", "ask"} => line' = <<>>
                      /\ pc'[u] = "ask" => Exact(u, reply[call[u].to])'
                      /\ \A i \in DOMAIN line' : Exact(u, line[i])'
    BY <1>2 DEF AskReply, Fail
  <2>1. u = t /\ pc[t] # "idle"
    BY <1>2, OthersIdle DEF AskReply, Fail, End, Goto, TypeOK
  <2>2. /\ call' = call /\ stored' = stored /\ pc[t] = "ask" /\ pc'[t] = "await"
        /\ call[t].op # "adc"
    BY <1>2, <2>1 DEF AskReply, Goto, TypeOK
  <2> DEFINE held == reply[call[t].to]
  <2>3. line = <<>> /\ Exact(t, held)
    BY <2>1, <2>2
  <2>4. line' = <<>> \/ line' = Append(<<>>, held)
    <3>1. \A rest \in Backlog : rest = <<>>
      BY <2>3 DEF Backlog
    <3>2. \E rest \in Backlog : line' = rest \/ line' = Append(rest, held)
      BY <1>2, Asked
    <3> HIDE DEF held
    <3> QED
      BY <3>1, <3>2
  <2> HIDE DEF held
  <2>5. \A i \in DOMAIN line' : line'[i] = held
    BY <2>4
  <2> QED
    BY <2>1, <2>2, <2>3, <2>5 DEF Exact
<1>3. ASSUME NEW t \in Thread, WriteFails(t) PROVE RepliesAreExact'
  <2> SUFFICES ASSUME tangled = "no", stale = 0, NEW u \in Thread, pc'[u] # "idle",
                      call'[u].op # "adc"
               PROVE  /\ pc'[u] \in {"command", "ask"} => line' = <<>>
                      /\ pc'[u] = "ask" => Exact(u, reply[call[u].to])'
                      /\ \A i \in DOMAIN line' : Exact(u, line[i])'
    BY <1>3 DEF WriteFails, Fail
  <2>1. u = t /\ pc[t] # "idle"
    BY <1>3, OthersIdle DEF WriteFails, Fail, End, Goto, TypeOK
  <2>2. Falls(t) \/ Ends(t)
    BY <1>3, FailFacts DEF WriteFails
  <2> QED
    BY <2>1, <2>2 DEF Falls, Ends, TypeOK
<1>4. ASSUME NEW t \in Thread, TimesOut(t) PROVE RepliesAreExact'
  <2> SUFFICES ASSUME tangled = "no", stale = 0, NEW u \in Thread, pc'[u] # "idle",
                      call'[u].op # "adc"
               PROVE  /\ pc'[u] \in {"command", "ask"} => line' = <<>>
                      /\ pc'[u] = "ask" => Exact(u, reply[call[u].to])'
                      /\ \A i \in DOMAIN line' : Exact(u, line[i])'
    BY <1>4 DEF TimesOut, Fail
  <2>1. u = t /\ pc[t] # "idle"
    BY <1>4, OthersIdle DEF TimesOut, Fail, End, Goto, TypeOK
  <2>2. Falls(t) \/ Ends(t)
    BY <1>4, FailFacts DEF TimesOut
  <2> QED
    BY <2>1, <2>2 DEF Falls, Ends, TypeOK
<1>5. ASSUME NEW t \in Thread, Accept(t) PROVE RepliesAreExact'
  <2> SUFFICES ASSUME tangled = "no", stale = 0, NEW u \in Thread, pc'[u] # "idle",
                      call'[u].op # "adc"
               PROVE  /\ pc'[u] \in {"command", "ask"} => line' = <<>>
                      /\ pc'[u] = "ask" => Exact(u, reply[call[u].to])'
                      /\ \A i \in DOMAIN line' : Exact(u, line[i])'
    BY <1>5 DEF Accept
  <2>1. u = t /\ pc[t] # "idle"
    BY <1>5, OthersIdle DEF Accept, End, Goto, TypeOK
  <2>2. stage[t] = "only" /\ pc'[t] = "idle"
    BY <1>5, <2>1 DEF Accept, End, Goto, TypeOK, Staged, NextStage
  <2> QED
    BY <2>1, <2>2
<1>6. ASSUME NEW t \in Thread, Reject(t) PROVE RepliesAreExact'
  <2> SUFFICES ASSUME tangled = "no", stale = 0, NEW u \in Thread, pc'[u] # "idle",
                      call'[u].op # "adc"
               PROVE  /\ pc'[u] \in {"command", "ask"} => line' = <<>>
                      /\ pc'[u] = "ask" => Exact(u, reply[call[u].to])'
                      /\ \A i \in DOMAIN line' : Exact(u, line[i])'
    BY <1>6 DEF Reject, Fail
  <2>1. u = t /\ pc[t] # "idle"
    BY <1>6, OthersIdle DEF Reject, Fail, End, Goto, TypeOK
  <2>2. Falls(t) \/ Ends(t)
    BY <1>6, FailFacts DEF Reject
  <2> QED
    BY <2>1, <2>2 DEF Falls, Ends, TypeOK
<1>7. ASSUME NEW t \in Thread, NEW c \in Calls, Begin(t, c) PROVE RepliesAreExact'
  <2> SUFFICES ASSUME tangled' = "no", stale' = 0, NEW u \in Thread, pc'[u] # "idle"
               PROVE  /\ pc'[u] # "ask" /\ line' = <<>>
                      /\ \A i \in DOMAIN line' : FALSE
    OBVIOUS
  <2>1. Active = {}
    BY <1>7 DEF Begin
  <2>2. u = t
    BY <1>7, <2>1 DEF Begin, Goto, Active, TypeOK
  <2>3. line' = <<>>
    BY <1>7 DEF Begin, TypeOK
  <2>4. pc'[t] = "command"
    BY <1>7 DEF Begin, Goto, TypeOK
  <2> QED
    BY <2>2, <2>3, <2>4
<1>8. ASSUME NEW b \in Board, Pulse(b) PROVE RepliesAreExact'
  BY <1>8 DEF Pulse, Exact
<1>9. CASE UNCHANGED vars
  BY <1>9 DEF vars, Exact
<1> QED
  BY <1>1, <1>2, <1>3, <1>4, <1>5, <1>6, <1>7, <1>8, <1>9 DEF Next, Continue

(* They stay of this board. *)
LEMMA LineIsOwnStep ==
    TypeOK /\ Staged /\ RepliesAreHonest /\ Alone /\ LineIsOwn /\ [Next]_vars => LineIsOwn'
<1> SUFFICES ASSUME TypeOK, Staged, RepliesAreHonest, Alone, LineIsOwn, [Next]_vars
             PROVE  LineIsOwn'
  OBVIOUS
<1> USE DEF LineIsOwn
<1>1. ASSUME NEW t \in Thread, WriteCommand(t) PROVE LineIsOwn'
  <2>1. /\ call' = call /\ tangled' = tangled /\ stale' = stale /\ pc[t] # "idle"
        /\ \A u \in Thread : u # t => pc'[u] = pc[u]
    BY <1>1 DEF WriteCommand, Goto, TypeOK
  <2>2. \A i \in DOMAIN line' : \E k \in DOMAIN line : line'[i] = line[k]
    BY <1>1, Backlogs DEF WriteCommand, TypeOK
  <2> QED
    BY <2>1, <2>2
<1>2. ASSUME NEW t \in Thread, AskReply(t) PROVE LineIsOwn'
  <2> SUFFICES ASSUME tangled = "no", stale = 0, NEW u \in Thread, pc'[u] # "idle"
               PROVE  \A i \in DOMAIN line' : line'[i].from = call'[u].to
    BY <1>2 DEF AskReply
  <2> DEFINE held == reply[call[t].to]
  <2>1. u = t /\ call' = call /\ pc[t] # "idle"
    BY <1>2, OthersIdle DEF AskReply, Goto, TypeOK
  <2>2. PICK rest \in Backlog :
            line' = rest \/ (held # NoReply /\ line' = Append(rest, held))
    BY <1>2, Asked
  <2>3. rest \in Seq(Replies) /\ \A i \in DOMAIN rest : rest[i].from = call[t].to
    BY <2>1, Backlogs DEF TypeOK
  <2>4. CASE line' = rest
    BY <2>1, <2>3, <2>4
  <2>5. CASE held # NoReply /\ line' = Append(rest, held)
    <3>1. held \in Replies /\ held.from = call[t].to
      BY <1>2, <2>5, Asked DEF TypeOK, RepliesAreHonest
    <3> HIDE DEF held
    <3>2. \A i \in DOMAIN line' :
              (i \in DOMAIN rest /\ line'[i] = rest[i]) \/ line'[i] = held
      BY <2>3, <2>5, <3>1, Added
    <3> QED
      BY <2>1, <2>3, <3>1, <3>2
  <2> QED
    BY <2>2, <2>4, <2>5
<1>3. ASSUME NEW t \in Thread, WriteFails(t) PROVE LineIsOwn'
  <2>1. Falls(t) \/ Ends(t)
    BY <1>3, FailFacts DEF WriteFails
  <2>2. /\ tangled' = tangled /\ stale' = stale /\ pc[t] # "idle"
        /\ \A u \in Thread : u # t => pc'[u] = pc[u] /\ call'[u] = call[u]
        /\ pc'[t] # "idle" => call'[t] = call[t]
    BY <1>3, <2>1 DEF WriteFails, Falls, Ends, TypeOK
  <2>3. \A i \in DOMAIN line' : \E k \in DOMAIN line : line'[i] = line[k]
    BY <1>3, Backlogs DEF WriteFails, TypeOK
  <2> QED
    BY <2>2, <2>3
<1>4. ASSUME NEW t \in Thread, TimesOut(t) PROVE LineIsOwn'
  <2>1. Falls(t) \/ Ends(t)
    BY <1>4, FailFacts DEF TimesOut
  <2>2. /\ tangled' = tangled /\ stale' = stale /\ pc[t] # "idle" /\ line' = line
        /\ \A u \in Thread : u # t => pc'[u] = pc[u] /\ call'[u] = call[u]
        /\ pc'[t] # "idle" => call'[t] = call[t]
    BY <1>4, <2>1 DEF TimesOut, Falls, Ends, TypeOK
  <2> QED
    BY <2>2
<1>5. ASSUME NEW t \in Thread, Accept(t) PROVE LineIsOwn'
  <2>1. /\ tangled' = tangled /\ stale' = stale /\ pc[t] # "idle"
        /\ \A u \in Thread : u # t => pc'[u] = pc[u] /\ call'[u] = call[u]
        /\ pc'[t] # "idle" => call'[t] = call[t]
    BY <1>5 DEF Accept, End, Goto, TypeOK
  <2>2. \A i \in DOMAIN line' : \E k \in DOMAIN line : line'[i] = line[k]
    BY <1>5, Suffixes DEF Accept, TypeOK
  <2> QED
    BY <2>1, <2>2
<1>6. ASSUME NEW t \in Thread, Reject(t) PROVE LineIsOwn'
  <2>1. Falls(t) \/ Ends(t)
    BY <1>6, FailFacts DEF Reject
  <2>2. /\ tangled' = tangled /\ stale' = stale /\ pc[t] # "idle"
        /\ \A u \in Thread : u # t => pc'[u] = pc[u] /\ call'[u] = call[u]
        /\ pc'[t] # "idle" => call'[t] = call[t]
    BY <1>6, <2>1 DEF Reject, Falls, Ends, TypeOK
  <2>3. \A i \in DOMAIN line' : \E k \in DOMAIN line : line'[i] = line[k]
    BY <1>6, Suffixes DEF Reject, TypeOK
  <2> QED
    BY <2>2, <2>3
<1>7. ASSUME NEW t \in Thread, NEW c \in Calls, Begin(t, c) PROVE LineIsOwn'
  <2>1. tangled' = "no" /\ stale' = 0 => line' = <<>>
    BY <1>7 DEF Begin, TypeOK
  <2> QED
    BY <2>1
<1>8. ASSUME NEW b \in Board, Pulse(b) PROVE LineIsOwn'
  BY <1>8 DEF Pulse
<1>9. CASE UNCHANGED vars
  BY <1>9 DEF vars
<1> QED
  BY <1>1, <1>2, <1>3, <1>4, <1>5, <1>6, <1>7, <1>8, <1>9 DEF Next, Continue

(* What a reply reports is a number. *)
LEMMA PulsesAreNat ==
    ASSUME NEW r, Honest(r)
    PROVE  Pulses(r) \in Nat
BY DEF Honest, Pulses

(* Without its first replies the line reports so much less. *)
LEMMA SumOfRest ==
    ASSUME NEW s \in Seq(Replies), NEW f \in Sums(s), NEW n \in 0 .. Len(s),
           \A i \in DOMAIN s : Honest(s[i]),
           NEW rest \in Seq(Replies), Len(rest) = Len(s) - n,
           \A i \in DOMAIN rest : i + n \in DOMAIN s /\ rest[i] = s[i + n]
    PROVE  /\ f[Len(s)] \in Nat /\ f[n] \in Nat /\ f[n] <= f[Len(s)]
           /\ n > 0 => Pulses(s[1]) <= f[n]
           /\ \E g \in Sums(rest) : g[Len(rest)] = f[Len(s)] - f[n]
<1> DEFINE g == [i \in 0 .. Len(rest) |-> f[i + n] - f[n]]
<1>1. /\ Len(s) \in Nat /\ Len(rest) \in Nat /\ n \in Nat
      /\ DOMAIN s = 1 .. Len(s) /\ DOMAIN rest = 1 .. Len(rest)
  OBVIOUS
<1>2. \A i \in 0 .. Len(s) : f[i] \in Nat
  BY DEF Sums
<1>3. \A i \in 1 .. Len(s) : Pulses(s[i]) \in Nat
  BY <1>1, PulsesAreNat
<1>4. \A i \in 1 .. Len(s) : \A j \in 0 .. i - 1 : f[j] + Pulses(s[i]) <= f[i]
  BY DEF Sums
<1>5. \A i \in 0 .. Len(s), j \in 0 .. Len(s) : j <= i => f[j] <= f[i]
  <2> SUFFICES ASSUME NEW i \in 0 .. Len(s), NEW j \in 0 .. Len(s), j < i PROVE f[j] <= f[i]
    BY <1>1, <1>2
  <2>1. i \in 1 .. Len(s) /\ j \in 0 .. i - 1
    BY <1>1
  <2>2. f[j] + Pulses(s[i]) <= f[i]
    BY <1>4, <2>1
  <2> QED
    BY <1>2, <1>3, <2>1, <2>2
<1>6. f[Len(s)] \in Nat /\ f[n] \in Nat /\ f[n] <= f[Len(s)]
  BY <1>1, <1>2, <1>5
<1>7. n > 0 => Pulses(s[1]) <= f[n]
  <2> SUFFICES ASSUME n > 0 PROVE Pulses(s[1]) <= f[n]
    OBVIOUS
  <2>1. 1 \in 1 .. Len(s) /\ 0 \in 0 .. 1 - 1 /\ 0 \in 0 .. Len(s) /\ 1 \in 0 .. Len(s)
    BY <1>1
  <2>2. f[0] + Pulses(s[1]) <= f[1] /\ f[1] <= f[n]
    BY <1>1, <1>4, <1>5, <2>1
  <2> QED
    BY <1>2, <1>3, <1>6, <2>1, <2>2
<1>8. \A i \in 0 .. Len(rest) : g[i] \in Nat /\ g[i] = f[i + n] - f[n]
  <2> SUFFICES ASSUME NEW i \in 0 .. Len(rest) PROVE g[i] \in Nat /\ g[i] = f[i + n] - f[n]
    OBVIOUS
  <2>1. i + n \in 0 .. Len(s) /\ n \in 0 .. Len(s) /\ n <= i + n
    BY <1>1
  <2>2. f[n] <= f[i + n] /\ f[i + n] \in Nat
    BY <1>2, <1>5, <2>1
  <2> QED
    BY <1>6, <2>2
<1>9. \A i \in 1 .. Len(rest) : \A j \in 0 .. i - 1 : g[j] + Pulses(rest[i]) <= g[i]
  <2> SUFFICES ASSUME NEW i \in 1 .. Len(rest), NEW j \in 0 .. i - 1
               PROVE  g[j] + Pulses(rest[i]) <= g[i]
    OBVIOUS
  <2>1. /\ i + n \in 1 .. Len(s) /\ j + n \in 0 .. (i + n) - 1
        /\ i \in 0 .. Len(rest) /\ j \in 0 .. Len(rest) /\ j + n \in 0 .. Len(s)
        /\ i + n \in 0 .. Len(s)
    BY <1>1
  <2>2. rest[i] = s[i + n]
    BY <1>1
  <2>3. f[j + n] + Pulses(rest[i]) <= f[i + n]
    BY <1>4, <2>1, <2>2
  <2>4. /\ f[j + n] \in Nat /\ f[i + n] \in Nat /\ Pulses(rest[i]) \in Nat
        /\ g[i] = f[i + n] - f[n] /\ g[j] = f[j + n] - f[n]
    BY <1>2, <1>3, <1>8, <2>1, <2>2
  <2> HIDE DEF g
  <2> QED
    BY <1>6, <2>3, <2>4
<1>10. g \in Sums(rest)
  <2>1. g \in [0 .. Len(rest) -> Nat]
    BY <1>8
  <2> HIDE DEF g
  <2> QED
    BY <1>9, <2>1 DEF Sums
<1>11. g[Len(rest)] = f[Len(s)] - f[n]
  <2>1. Len(rest) \in 0 .. Len(rest) /\ Len(rest) + n = Len(s)
    BY <1>1
  <2> QED
    BY <1>8, <2>1
<1> QED
  BY <1>6, <1>7, <1>10, <1>11

(* With one more it reports so much more. *)
LEMMA SumOfAdded ==
    ASSUME NEW s \in Seq(Replies), NEW f \in Sums(s), NEW r \in Replies, Honest(r),
           \A i \in DOMAIN s : Honest(s[i])
    PROVE  \E g \in Sums(Append(s, r)) : g[Len(Append(s, r))] = f[Len(s)] + Pulses(r)
<1> DEFINE m == Len(s)
           g == [i \in 0 .. m + 1 |-> IF i = m + 1 THEN f[m] + Pulses(r) ELSE f[i]]
           a == Append(s, r)
<1>1. /\ m \in Nat /\ DOMAIN s = 1 .. m /\ Len(a) = m + 1
      /\ \A i \in 1 .. m : a[i] = s[i]
      /\ a[m + 1] = r
  OBVIOUS
<1>2. \A i \in 0 .. m : f[i] \in Nat
  BY DEF Sums
<1>3. \A i \in 1 .. m : \A j \in 0 .. i - 1 : f[j] + Pulses(s[i]) <= f[i]
  BY DEF Sums
<1>4. Pulses(r) \in Nat /\ \A i \in 1 .. m : Pulses(s[i]) \in Nat
  BY <1>1, PulsesAreNat
<1> HIDE DEF m, a
<1>5. /\ g[m + 1] = f[m] + Pulses(r) /\ f[m] \in Nat
      /\ \A i \in 0 .. m : g[i] = f[i]
  BY <1>1, <1>2
<1>6. g \in [0 .. m + 1 -> Nat]
  BY <1>1, <1>2, <1>4
<1> HIDE DEF g
<1>7. ASSUME NEW i \in 1 .. m + 1, NEW j \in 0 .. i - 1
      PROVE  g[j] + Pulses(a[i]) <= g[i]
  <2>1. CASE i = m + 1
    <3>1. j \in 0 .. m /\ m \in 0 .. m /\ g[j] = f[j] /\ f[j] \in Nat
      BY <1>1, <1>2, <1>5, <2>1
    <3>2. f[j] <= f[m]
      <4>1. CASE j = m
        BY <1>5, <4>1
      <4>2. CASE j # m
        <5>1. m \in 1 .. m /\ j \in 0 .. m - 1
          BY <1>1, <3>1, <4>2
        <5>2. f[j] + Pulses(s[m]) <= f[m] /\ Pulses(s[m]) \in Nat
          BY <1>3, <1>4, <5>1
        <5> QED
          BY <1>5, <3>1, <5>2
      <4> QED
        BY <4>1, <4>2
    <3> QED
      BY <1>1, <1>4, <1>5, <2>1, <3>1, <3>2
  <2>2. CASE i # m + 1
    <3>1. i \in 1 .. m /\ i \in 0 .. m /\ j \in 0 .. m
      BY <1>1, <2>2
    <3> QED
      BY <1>1, <1>3, <1>5, <3>1
  <2> QED
    BY <2>1, <2>2
<1>8. g \in Sums(a)
  BY <1>1, <1>6, <1>7 DEF Sums
<1> QED
  BY <1>1, <1>5, <1>8 DEF m, a

(* No pulse comes to be reported twice. *)
LEMMA NotTwiceStep ==
    TypeOK /\ Staged /\ RepliesAreHonest /\ Alone /\ NotTwice /\ [Next]_vars => NotTwice'
<1> SUFFICES ASSUME TypeOK, Staged, RepliesAreHonest, Alone, NotTwice, [Next]_vars
             PROVE  NotTwice'
  OBVIOUS
<1> USE DEF NotTwice
<1>1. ASSUME NEW t \in Thread, WriteCommand(t) PROVE NotTwice'
  <2> SUFFICES ASSUME tangled = "no" PROVE \E g \in Sums(line') : Covers(g)'
    BY <1>1 DEF WriteCommand
  <2>1. PICK f \in Sums(line) : Covers(f)
    OBVIOUS
  <2>2. pc[t] # "idle" /\ reported \in Nat /\ Counted \in Nat /\ made \in Nat
    BY <1>1, Numbers DEF WriteCommand
  <2>3. PICK n \in 0 .. Len(line) :
            /\ line' \in Seq(Replies) /\ Len(line') = Len(line) - n
            /\ \A i \in DOMAIN line' : i + n \in DOMAIN line /\ line'[i] = line[i + n]
    BY <1>1, Backlogs DEF WriteCommand, TypeOK
  <2>4. PICK g \in Sums(line') : g[Len(line')] = f[Len(line)] - f[n]
    BY <2>3, SumOfRest DEF RepliesAreHonest, TypeOK
  <2>5. /\ f[Len(line)] \in Nat /\ f[n] \in Nat /\ f[n] <= f[Len(line)]
        /\ n > 0 => Pulses(line[1]) <= f[n]
    BY <2>3, SumOfRest DEF RepliesAreHonest, TypeOK
  <2> DEFINE b == call[t].to
  <2>6. /\ Counted' + Pulses(reply'[b]) = Counted
        /\ Counted' \in Nat /\ Pulses(reply'[b]) \in Nat
    <3>1. reply'[b] \in Answers(t) /\ b \in Board
      BY <1>1, Answered
    <3>2. counter[b] \in Nat /\ counter[b] <= Counted
      BY <3>1, CountedFacts
    <3>3. reply'[b].op = Sent(t).op /\ reply'[b].data \in Data(t)
      BY <3>1 DEF Answers
    <3>4. CASE Sent(t).op = "reset"
      <4>1. stage[t] # "start" /\ call[t].op = "reset"
        BY <3>4 DEF Sent
      <4>2. reply'[b].data = counter[b]
        BY <3>3, <4>1 DEF Data
      <4>3. counter' = [counter EXCEPT ![b] = 0]
        BY <1>1, <3>4 DEF WriteCommand
      <4>4. Counted' = Counted - counter[b]
        BY <3>1, <4>3, CountedFacts
      <4>5. Pulses(reply'[b]) = counter[b]
        BY <3>3, <3>4, <4>2 DEF Pulses
      <4> QED
        BY <2>2, <3>2, <4>4, <4>5
    <3>5. CASE Sent(t).op # "reset"
      <4>1. Counted' = Counted
        BY <1>1, <3>5, CountedFacts DEF WriteCommand
      <4>2. Pulses(reply'[b]) = 0
        BY <3>3, <3>5 DEF Pulses
      <4> QED
        BY <2>2, <4>1, <4>2
    <3> QED
      BY <3>4, <3>5
  <2>7. /\ call' = call /\ reported' = reported /\ made' = made
        /\ \A u \in Thread : pc'[u] = "ask" => u = t
    BY <1>1, OthersIdle DEF WriteCommand, Goto, TypeOK
  <2>8. reported + Counted + f[Len(line)] <= made
    BY <2>1 DEF Covers
  <2>9. /\ reported' + Counted' + g[Len(line')] <= made'
        /\ reported' + Counted' + Pulses(reply'[b]) + g[Len(line')] <= made'
    BY <2>2, <2>4, <2>5, <2>6, <2>7, <2>8
  <2>10. Covers(g)'
    BY <2>7, <2>9 DEF Covers
  <2> QED
    BY <2>10
<1>2. ASSUME NEW t \in Thread, AskReply(t) PROVE NotTwice'
  <2> SUFFICES ASSUME tangled = "no" PROVE \E g \in Sums(line') : Covers(g)'
    BY <1>2 DEF AskReply
  <2>1. PICK f \in Sums(line) : Covers(f)
    OBVIOUS
  <2>2. pc[t] # "idle" /\ reported \in Nat /\ Counted \in Nat /\ made \in Nat
    BY <1>2, Numbers DEF AskReply
  <2> DEFINE held == reply[call[t].to]
  <2>3. PICK rest \in Backlog :
            line' = rest \/ (held # NoReply /\ line' = Append(rest, held))
    BY <1>2, Asked
  <2>4. PICK n \in 0 .. Len(line) :
            /\ rest \in Seq(Replies) /\ Len(rest) = Len(line) - n
            /\ \A i \in DOMAIN rest : i + n \in DOMAIN line /\ rest[i] = line[i + n]
    BY Backlogs DEF TypeOK
  <2>5. PICK g \in Sums(rest) : g[Len(rest)] = f[Len(line)] - f[n]
    BY <2>4, SumOfRest DEF RepliesAreHonest, TypeOK
  <2>6. f[Len(line)] \in Nat /\ f[n] \in Nat /\ f[n] <= f[Len(line)]
    BY <2>4, SumOfRest DEF RepliesAreHonest, TypeOK
  <2>7. /\ reported' = reported /\ Counted' = Counted /\ made' = made
        /\ \A u \in Thread : pc'[u] # "ask"
    BY <1>2, <2>2, CountedFacts, OthersIdle DEF AskReply, Goto, TypeOK
  <2>8. /\ reported + Counted + f[Len(line)] <= made
        /\ reported + Counted + Pulses(held) + f[Len(line)] <= made
    BY <1>2, <2>1, Asked DEF Covers
  <2>9. CASE line' = rest
    <3>1. reported' + Counted' + g[Len(line')] <= made'
      BY <2>2, <2>5, <2>6, <2>7, <2>8, <2>9
    <3>2. Covers(g)'
      BY <2>7, <3>1 DEF Covers
    <3> QED
      BY <2>9, <3>2
  <2>10. CASE held # NoReply /\ line' = Append(rest, held)
    <3>1. held \in Replies /\ Honest(held) /\ \A i \in DOMAIN rest : Honest(rest[i])
      BY <1>2, <2>4, <2>10, Asked DEF TypeOK, RepliesAreHonest
    <3>2. Pulses(held) \in Nat
      BY <3>1, PulsesAreNat
    <3> HIDE DEF held
    <3>3. PICK h \in Sums(line') : h[Len(line')] = g[Len(rest)] + Pulses(held)
      BY <2>4, <2>10, <3>1, SumOfAdded
    <3>4. reported' + Counted' + h[Len(line')] <= made'
      BY <2>2, <2>5, <2>6, <2>7, <2>8, <3>2, <3>3
    <3>5. Covers(h)'
      BY <2>7, <3>4 DEF Covers
    <3> QED
      BY <3>5
  <2> QED
    BY <2>3, <2>9, <2>10
<1>3. ASSUME NEW t \in Thread, WriteFails(t) PROVE NotTwice'
  <2> SUFFICES ASSUME tangled = "no" PROVE \E g \in Sums(line') : Covers(g)'
    BY <1>3 DEF WriteFails, Fail
  <2>1. PICK f \in Sums(line) : Covers(f)
    OBVIOUS
  <2>2. pc[t] # "idle" /\ reported \in Nat /\ Counted \in Nat /\ made \in Nat
    BY <1>3, Numbers DEF WriteFails
  <2>3. PICK n \in 0 .. Len(line) :
            /\ line' \in Seq(Replies) /\ Len(line') = Len(line) - n
            /\ \A i \in DOMAIN line' : i + n \in DOMAIN line /\ line'[i] = line[i + n]
    BY <1>3, Backlogs DEF WriteFails, TypeOK
  <2>4. PICK g \in Sums(line') : g[Len(line')] = f[Len(line)] - f[n]
    BY <2>3, SumOfRest DEF RepliesAreHonest, TypeOK
  <2>5. /\ f[Len(line)] \in Nat /\ f[n] \in Nat /\ f[n] <= f[Len(line)]
        /\ n > 0 => Pulses(line[1]) <= f[n]
    BY <2>3, SumOfRest DEF RepliesAreHonest, TypeOK
  <2>6. \A u \in Thread : pc'[u] # "ask"
    <3>1. pc' = [pc EXCEPT ![t] = "idle"] \/ pc' = [pc EXCEPT ![t] = "command"]
      BY <1>3, FailFacts DEF WriteFails, Falls, Ends
    <3> QED
      BY <2>2, <3>1, OthersIdle DEF TypeOK
  <2>7. reported' = reported /\ Counted' = Counted /\ made' = made
    BY <1>3, CountedFacts, FailFacts DEF WriteFails, Falls, Ends
  <2>8. reported + Counted + f[Len(line)] <= made
    BY <2>1 DEF Covers
  <2>9. reported' + Counted' + g[Len(line')] <= made'
    BY <2>2, <2>4, <2>5, <2>7, <2>8
  <2>10. Covers(g)'
    BY <2>6, <2>9 DEF Covers
  <2> QED
    BY <2>10
<1>4. ASSUME NEW t \in Thread, TimesOut(t) PROVE NotTwice'
  <2> SUFFICES ASSUME tangled = "no" PROVE \E g \in Sums(line') : Covers(g)'
    BY <1>4 DEF TimesOut, Fail
  <2>1. PICK f \in Sums(line) : Covers(f)
    OBVIOUS
  <2>2. pc[t] # "idle" /\ reported \in Nat /\ Counted \in Nat /\ made \in Nat
    BY <1>4, Numbers DEF TimesOut
  <2>3. line' = line /\ reported' = reported /\ Counted' = Counted /\ made' = made
    BY <1>4, CountedFacts, FailFacts DEF TimesOut, Falls, Ends
  <2>4. \A u \in Thread : pc'[u] # "ask"
    <3>1. pc' = [pc EXCEPT ![t] = "idle"] \/ pc' = [pc EXCEPT ![t] = "command"]
      BY <1>4, FailFacts DEF TimesOut, Falls, Ends
    <3> QED
      BY <2>2, <3>1, OthersIdle DEF TypeOK
  <2>5. reported + Counted + f[Len(line)] <= made
    BY <2>1 DEF Covers
  <2>6. Covers(f)'
    BY <2>3, <2>4, <2>5 DEF Covers
  <2> QED
    BY <2>3, <2>6
<1>5. ASSUME NEW t \in Thread, Accept(t) PROVE NotTwice'
  <2> SUFFICES ASSUME tangled = "no" PROVE \E g \in Sums(line') : Covers(g)'
    BY <1>5 DEF Accept
  <2>1. PICK f \in Sums(line) : Covers(f)
    OBVIOUS
  <2>2. pc[t] # "idle" /\ reported \in Nat /\ Counted \in Nat /\ made \in Nat
    BY <1>5, Numbers DEF Accept
  <2>3. PICK n \in 0 .. Len(line) :
            /\ n > 0 /\ line' \in Seq(Replies) /\ Len(line') = Len(line) - n
            /\ \A i \in DOMAIN line' : i + n \in DOMAIN line /\ line'[i] = line[i + n]
    <3>1. PICK k \in 1 .. Len(line) : line' = SubSeq(line, k + 1, Len(line))
      BY <1>5 DEF Accept
    <3>2. k \in 0 .. Len(line) /\ k > 0 /\ line \in Seq(Replies)
      BY DEF TypeOK
    <3> QED
      BY <3>1, <3>2, Suffixes
  <2>4. PICK g \in Sums(line') : g[Len(line')] = f[Len(line)] - f[n]
    BY <2>3, SumOfRest DEF RepliesAreHonest, TypeOK
  <2>5. /\ f[Len(line)] \in Nat /\ f[n] \in Nat /\ f[n] <= f[Len(line)]
        /\ n > 0 => Pulses(line[1]) <= f[n]
    BY <2>3, SumOfRest DEF RepliesAreHonest, TypeOK
  <2>6. \A u \in Thread : pc'[u] # "ask"
    <3>1. pc' = [pc EXCEPT ![t] = "idle"] \/ pc' = [pc EXCEPT ![t] = "command"]
      BY <1>5 DEF Accept, End, Goto
    <3> QED
      BY <2>2, <3>1, OthersIdle DEF TypeOK
  <2>7. Counted' = Counted /\ made' = made
    BY <1>5, CountedFacts DEF Accept
  <2>8. PICK x \in Nat : reported' = reported + x /\ x <= f[n]
    <3>1. CASE reported' = reported
      BY <2>2, <2>5, <3>1
    <3>2. CASE call[t].op = "reset" /\ reported' = reported + Returned(call[t], line[1].data)
      <4>1. 1 \in DOMAIN line /\ line[1].op = "reset"
        BY <1>5, <2>2, <3>2, Accepted DEF Names, Sent, Staged
      <4>2. Pulses(line[1]) = line[1].data /\ line[1].data \in Nat
        BY <4>1 DEF Pulses, RepliesAreHonest, Honest
      <4>3. Returned(call[t], line[1].data) = line[1].data % Byte
        BY <3>2 DEF Returned
      <4>4. line[1].data % Byte \in Nat /\ line[1].data % Byte <= line[1].data
        BY <4>2, Remainder
      <4>5. PICK x \in Nat : x = line[1].data % Byte
        BY <4>4
      <4>6. n > 0 /\ x <= line[1].data /\ line[1].data <= f[n]
        BY <2>3, <2>5, <4>2, <4>4, <4>5
      <4>7. x <= f[n]
        BY <2>5, <4>2, <4>6
      <4> QED
        BY <3>2, <4>3, <4>5, <4>7
    <3> QED
      BY <1>5, <3>1, <3>2 DEF Accept
  <2>9. reported + Counted + f[Len(line)] <= made
    BY <2>1 DEF Covers
  <2>10. reported' + Counted' + g[Len(line')] <= made'
    BY <2>2, <2>4, <2>5, <2>7, <2>8, <2>9
  <2>11. Covers(g)'
    BY <2>6, <2>10 DEF Covers
  <2> QED
    BY <2>11
<1>6. ASSUME NEW t \in Thread, Reject(t) PROVE NotTwice'
  <2> SUFFICES ASSUME tangled = "no" PROVE \E g \in Sums(line') : Covers(g)'
    BY <1>6 DEF Reject, Fail
  <2>1. PICK f \in Sums(line) : Covers(f)
    OBVIOUS
  <2>2. pc[t] # "idle" /\ reported \in Nat /\ Counted \in Nat /\ made \in Nat
    BY <1>6, Numbers DEF Reject
  <2>3. PICK n \in 0 .. Len(line) :
            /\ n > 0 /\ line' \in Seq(Replies) /\ Len(line') = Len(line) - n
            /\ \A i \in DOMAIN line' : i + n \in DOMAIN line /\ line'[i] = line[i + n]
    <3>1. PICK k \in 1 .. Len(line) : line' = SubSeq(line, k + 1, Len(line))
      BY <1>6 DEF Reject
    <3>2. k \in 0 .. Len(line) /\ k > 0 /\ line \in Seq(Replies)
      BY DEF TypeOK
    <3> QED
      BY <3>1, <3>2, Suffixes
  <2>4. PICK g \in Sums(line') : g[Len(line')] = f[Len(line)] - f[n]
    BY <2>3, SumOfRest DEF RepliesAreHonest, TypeOK
  <2>5. /\ f[Len(line)] \in Nat /\ f[n] \in Nat /\ f[n] <= f[Len(line)]
        /\ n > 0 => Pulses(line[1]) <= f[n]
    BY <2>3, SumOfRest DEF RepliesAreHonest, TypeOK
  <2>6. \A u \in Thread : pc'[u] # "ask"
    <3>1. pc' = [pc EXCEPT ![t] = "idle"] \/ pc' = [pc EXCEPT ![t] = "command"]
      BY <1>6, FailFacts DEF Reject, Falls, Ends
    <3> QED
      BY <2>2, <3>1, OthersIdle DEF TypeOK
  <2>7. reported' = reported /\ Counted' = Counted /\ made' = made
    BY <1>6, CountedFacts, FailFacts DEF Reject, Falls, Ends
  <2>8. reported + Counted + f[Len(line)] <= made
    BY <2>1 DEF Covers
  <2>9. reported' + Counted' + g[Len(line')] <= made'
    BY <2>2, <2>4, <2>5, <2>7, <2>8
  <2>10. Covers(g)'
    BY <2>6, <2>9 DEF Covers
  <2> QED
    BY <2>10
<1>7. ASSUME NEW t \in Thread, NEW c \in Calls, Begin(t, c) PROVE NotTwice'
  <2> SUFFICES ASSUME tangled' = "no" PROVE \E g \in Sums(line') : Covers(g)'
    OBVIOUS
  <2>1. Active = {} /\ line' = line /\ Counted' = Counted /\ Counted \in Nat
    BY <1>7, CountedFacts DEF Begin
  <2>2. \A u \in Thread : pc'[u] # "ask"
    BY <1>7, <2>1 DEF Begin, Goto, Active, TypeOK
  <2>3. CASE line = <<>>
    <3>1. reported' = 0 /\ made' = Counted
      BY <1>7, <2>3 DEF Begin
    <3> DEFINE g == [i \in 0 .. 0 |-> 0]
    <3>2. g \in Sums(<<>>) /\ g[0] = 0 /\ Len(<<>>) = 0
      BY DEF Sums
    <3> HIDE DEF g
    <3>3. Covers(g)'
      BY <2>1, <2>2, <2>3, <3>1, <3>2 DEF Covers
    <3> QED
      BY <2>1, <2>3, <3>2, <3>3
  <2>4. CASE line # <<>>
    <3>1. tangled = "no" /\ reported' = reported /\ made' = made
      BY <1>7, <2>1, <2>4 DEF Begin
    <3>2. PICK f \in Sums(line) : Covers(f)
      BY <3>1
    <3>3. Covers(f)'
      BY <2>1, <2>2, <3>1, <3>2 DEF Covers
    <3> QED
      BY <2>1, <3>3
  <2> QED
    BY <2>3, <2>4
<1>8. ASSUME NEW b \in Board, Pulse(b) PROVE NotTwice'
  <2> SUFFICES ASSUME tangled = "no" PROVE \E g \in Sums(line') : Covers(g)'
    BY <1>8 DEF Pulse
  <2>1. PICK f \in Sums(line) : Covers(f)
    OBVIOUS
  <2>2. /\ line' = line /\ pc' = pc /\ call' = call /\ reply' = reply
        /\ reported' = reported /\ Counted' = Counted + 1 /\ made' = made + 1
    BY <1>8, CountedFacts DEF Pulse
  <2>3. /\ f[Len(line)] \in Nat /\ reported \in Nat /\ Counted \in Nat /\ made \in Nat
    <3>1. Len(line) \in 0 .. Len(line)
      BY DEF TypeOK
    <3>2. f[Len(line)] \in Nat
      BY <3>1 DEF Sums
    <3> QED
      BY <3>2, Numbers
  <2>4. \A u \in Thread : pc[u] = "ask" => Pulses(reply[call[u].to]) \in Nat
    <3> SUFFICES ASSUME NEW u \in Thread, pc[u] = "ask"
                 PROVE  Pulses(reply[call[u].to]) \in Nat
      OBVIOUS
    <3>1. call[u].to \in Board
      BY InCall, CallFacts
    <3>2. reply[call[u].to] # NoReply => Pulses(reply[call[u].to]) \in Nat
      BY <3>1, PulsesAreNat DEF RepliesAreHonest
    <3>3. Pulses(NoReply) = 0
      BY DEF Pulses, NoReply
    <3> QED
      BY <3>2, <3>3
  <2>5. reported' + Counted' + f[Len(line')] <= made'
    BY <2>1, <2>2, <2>3 DEF Covers
  <2>6. ASSUME NEW u \in Thread, pc'[u] = "ask"
        PROVE  reported' + Counted' + Pulses(reply'[call'[u].to]) + f[Len(line')] <= made'
    <3>1. reported + Counted + Pulses(reply[call[u].to]) + f[Len(line)] <= made
      BY <2>1, <2>2, <2>6 DEF Covers
    <3> QED
      BY <2>2, <2>3, <2>4, <2>6, <3>1
  <2>7. Covers(f)'
    BY <2>5, <2>6 DEF Covers
  <2> QED
    BY <2>2, <2>7
<1>9. CASE UNCHANGED vars
  BY <1>9, CountedFacts DEF vars, Covers
<1> QED
  BY <1>1, <1>2, <1>3, <1>4, <1>5, <1>6, <1>7, <1>8, <1>9 DEF Next, Continue

(* No pulse is lost without notice. *)
LEMMA NothingLostStep ==
    TypeOK /\ Staged /\ RepliesAreHonest /\ Alone /\ NothingLost /\ [Next]_vars => NothingLost'
<1> SUFFICES ASSUME TypeOK, Staged, RepliesAreHonest, Alone, NothingLost, [Next]_vars PROVE NothingLost'
  OBVIOUS
<1> USE DEF NothingLost
<1>1. ASSUME NEW t \in Thread, WriteCommand(t) PROVE NothingLost'
  <2> SUFFICES ASSUME tangled = "no", lossy = "no" PROVE NothingDue'
    BY <1>1 DEF WriteCommand
  <2>1. /\ pc[t] = "command" /\ pc' = [pc EXCEPT ![t] = "ask"] /\ call' = call
        /\ reported' = reported /\ made' = made
    BY <1>1 DEF WriteCommand, Goto
  <2>2. \A u \in Thread : \A l \in {"ask", "await"} : ~Resetting(u, l)
    BY <2>1, OthersIdle DEF Resetting
  <2>3. reported + Counted = made /\ \A i \in DOMAIN line : line[i].op # "reset"
    BY <2>2 DEF NothingDue
  <2>4. \A i \in DOMAIN line' : line'[i].op # "reset"
    BY <1>1, <2>3, Backlogs DEF WriteCommand, TypeOK
  <2>5. \A u \in Thread : u # t => pc'[u] = "idle"
    BY <2>1, OthersIdle DEF TypeOK
  <2>6. pc'[t] = "ask"
    BY <2>1 DEF TypeOK
  <2>7. CASE call[t].op = "reset"
    <3>1. stage[t] = "only" /\ Sent(t).op = "reset"
      BY <2>1, <2>7 DEF Sent, Staged
    <3>2. Counted' = Counted - counter[call[t].to] /\ reply'[call[t].to] \in Answers(t)
      <4>1. counter' = [counter EXCEPT ![call[t].to] = 0]
        BY <1>1, <3>1 DEF WriteCommand
      <4> QED
        BY <1>1, <4>1, Answered, CountedFacts
    <3>3. reply'[call[t].to].op = "reset" /\ reply'[call[t].to].data = counter[call[t].to]
      BY <2>7, <3>1, <3>2 DEF Answers, Data
    <3>4. reported' + Counted' + reply'[call[t].to].data = made'
      <4>1. /\ reported \in Nat /\ Counted \in Nat /\ made \in Nat
            /\ counter[call[t].to] \in Nat
        BY <1>1, Answered, CountedFacts, Numbers
      <4> QED
        BY <2>1, <2>3, <3>2, <3>3, <4>1
    <3> QED
      BY <2>1, <2>4, <2>5, <2>6, <2>7, <3>3, <3>4 DEF NothingDue, Resetting
  <2>8. CASE call[t].op # "reset"
    <3>1. Sent(t).op # "reset"
      BY <2>8 DEF Sent
    <3>2. Counted' = Counted /\ reply'[call[t].to] \in Answers(t)
      BY <1>1, <3>1, Answered, CountedFacts DEF WriteCommand
    <3>3. reply'[call[t].to].op # "reset"
      BY <3>1, <3>2 DEF Answers
    <3> QED
      BY <2>1, <2>3, <2>4, <2>5, <2>8, <3>2, <3>3 DEF NothingDue, Resetting
  <2> QED
    BY <2>7, <2>8
<1>2. ASSUME NEW t \in Thread, AskReply(t) PROVE NothingLost'
  <2> SUFFICES ASSUME tangled = "no", lossy = "no" PROVE NothingDue'
    BY <1>2 DEF AskReply
  <2>1. /\ pc[t] = "ask" /\ pc' = [pc EXCEPT ![t] = "await"] /\ call' = call
        /\ reported' = reported /\ made' = made /\ Counted' = Counted
    BY <1>2, CountedFacts DEF AskReply, Goto
  <2>2. \A u \in Thread : ~Resetting(u, "await")
    BY <2>1, OthersIdle DEF Resetting
  <2>3. \A i \in DOMAIN line : line[i].op # "reset"
    BY <2>2 DEF NothingDue
  <2> DEFINE held == reply[call[t].to]
  <2>4. PICK rest \in Backlog :
            line' = rest \/ (held # NoReply /\ line' = Append(rest, held))
    BY <1>2, Asked
  <2>5. rest \in Seq(Replies) /\ \A i \in DOMAIN rest : rest[i].op # "reset"
    BY <2>3, Backlogs DEF TypeOK
  <2>6. \A i \in DOMAIN line' : line'[i].op = "reset" => i = Len(line') /\ line'[i] = held
    <3>1. CASE line' = rest
      BY <2>5, <3>1
    <3>2. CASE held # NoReply /\ line' = Append(rest, held)
      <4>1. held \in Replies
        BY <1>2, <3>2, Asked DEF TypeOK
      <4> HIDE DEF held
      <4> QED
        BY <2>5, <3>2, <4>1
    <3> QED
      BY <2>4, <3>1, <3>2
  <2>7. /\ pc'[t] = "await" /\ \A u \in Thread : u # t => pc'[u] = "idle"
    BY <2>1, OthersIdle DEF TypeOK
  <2>8. CASE call[t].op = "reset"
    <3>1. reported + Counted + held.data = made
      BY <2>1, <2>8 DEF NothingDue, Resetting
    <3> QED
      BY <2>1, <2>6, <2>7, <2>8, <3>1 DEF NothingDue, Resetting
  <2>9. CASE call[t].op # "reset"
    <3>1. \A u \in Thread : ~Resetting(u, "ask")
      BY <2>1, <2>9, OthersIdle DEF Resetting
    <3>2. reported + Counted = made
      BY <2>2, <3>1 DEF NothingDue
    <3>3. \A i \in DOMAIN line' : line'[i].op # "reset"
      <4>1. held # NoReply => held.op # "reset"
        BY <2>1, <2>9 DEF NothingDue
      <4> QED
        BY <2>6, <4>1 DEF NoReply
    <3> QED
      BY <2>1, <2>7, <2>9, <3>2, <3>3 DEF NothingDue, Resetting
  <2> QED
    BY <2>8, <2>9
<1>3. ASSUME NEW t \in Thread, WriteFails(t) PROVE NothingLost'
  <2> SUFFICES ASSUME tangled' = "no", lossy' = "no" PROVE NothingDue'
    OBVIOUS
  <2>1. pc[t] # "idle" /\ tangled = "no"
    BY <1>3 DEF WriteFails, Fail
  <2>2. call[t].op # "reset" /\ lossy = "no"
    BY <1>3, <2>1 DEF WriteFails, Fail, TypeOK
  <2>3. /\ reported' = reported /\ Counted' = Counted /\ made' = made
        /\ pc'[t] \in {"idle", "command"}
        /\ \A u \in Thread : u # t => pc'[u] = "idle"
    BY <1>3, <2>1, CountedFacts, FailFacts, OthersIdle DEF WriteFails, Falls, Ends, TypeOK
  <2>4. \A u \in Thread : \A l \in {"ask", "await"} : ~Resetting(u, l)
    BY <2>1, <2>2, OthersIdle DEF Resetting
  <2>5. \A i \in DOMAIN line' : line'[i].op # "reset"
    BY <1>3, <2>1, <2>2, <2>4, Backlogs DEF WriteFails, NothingDue, TypeOK
  <2>6. \A u \in Thread : \A l \in {"ask", "await"} : ~Resetting(u, l)'
    BY <2>3 DEF Resetting
  <2> QED
    BY <2>1, <2>2, <2>3, <2>4, <2>5, <2>6 DEF NothingDue, Resetting
<1>4. ASSUME NEW t \in Thread, TimesOut(t) PROVE NothingLost'
  <2> SUFFICES ASSUME tangled' = "no", lossy' = "no" PROVE NothingDue'
    OBVIOUS
  <2>1. pc[t] # "idle" /\ tangled = "no"
    BY <1>4 DEF TimesOut, Fail
  <2>2. call[t].op # "reset" /\ lossy = "no"
    BY <1>4, <2>1 DEF TimesOut, Fail, TypeOK
  <2>3. /\ reported' = reported /\ Counted' = Counted /\ made' = made
        /\ pc'[t] \in {"idle", "command"}
        /\ \A u \in Thread : u # t => pc'[u] = "idle"
    BY <1>4, <2>1, CountedFacts, FailFacts, OthersIdle DEF TimesOut, Falls, Ends, TypeOK
  <2>4. \A u \in Thread : \A l \in {"ask", "await"} : ~Resetting(u, l)
    BY <2>1, <2>2, OthersIdle DEF Resetting
  <2>5. \A i \in DOMAIN line' : line'[i].op # "reset"
    BY <1>4, <2>1, <2>2, <2>4 DEF TimesOut, NothingDue
  <2>6. \A u \in Thread : \A l \in {"ask", "await"} : ~Resetting(u, l)'
    BY <2>3 DEF Resetting
  <2> QED
    BY <2>1, <2>2, <2>3, <2>4, <2>5, <2>6 DEF NothingDue, Resetting
<1>5. ASSUME NEW t \in Thread, Accept(t) PROVE NothingLost'
  <2> SUFFICES ASSUME tangled = "no", lossy' = "no" PROVE NothingDue'
    BY <1>5 DEF Accept
  <2>1. /\ pc[t] = "await" /\ pc'[t] \in {"idle", "command"}
        /\ \A u \in Thread : u # t => pc[u] = "idle" /\ pc'[u] = "idle"
        /\ Counted' = Counted /\ made' = made
    BY <1>5, CountedFacts, OthersIdle DEF Accept, End, Goto, TypeOK
  <2>2. lossy = "no"
    BY <1>5 DEF Accept
  <2>3. PICK n \in 1 .. Len(line) : Acceptable(t, n) /\ line' = SubSeq(line, n + 1, Len(line))
    BY <1>5 DEF Accept
  <2>4. /\ line' \in Seq(Replies) /\ Len(line') = Len(line) - n /\ Len(line) \in Nat
        /\ \A i \in DOMAIN line' : i + n \in DOMAIN line /\ line'[i] = line[i + n]
    BY <2>3, Suffixes DEF TypeOK
  <2>5. CASE call[t].op = "reset"
    <3>1. stage[t] = "only" /\ Names(t, line[1]) /\ 1 \in DOMAIN line
      BY <1>5, <2>1, <2>5, Accepted DEF Staged
    <3>2. line[1].op = "reset"
      BY <2>5, <3>1 DEF Names, Sent
    <3>3. Len(line) = 1 /\ reported + Counted + line[1].data = made
      BY <2>2, <3>1, <3>2 DEF NothingDue
    <3>4. \A i \in DOMAIN line' : FALSE
      BY <2>3, <2>4, <3>3
    <3>5. /\ reported' = reported + Returned(call[t], line[1].data)
          /\ line[1].data < Byte
      <4>1. line[1].data \in Nat
        BY <3>1, <3>2 DEF RepliesAreHonest, Honest
      <4> QED
        BY <1>5, <2>5, <3>1, <4>1, ValueAssumption DEF Accept, NextStage
    <3>6. Returned(call[t], line[1].data) = line[1].data
      <4>1. line[1].data \in Nat
        BY <3>1, <3>2 DEF RepliesAreHonest, Honest
      <4> QED
        BY <2>5, <3>5, <4>1, Remainder DEF Returned
    <3>7. reported' + Counted' = made'
      <4>1. line[1].data \in Nat
        BY <3>1, <3>2 DEF RepliesAreHonest, Honest
      <4> QED
        BY <2>1, <3>3, <3>5, <3>6, <4>1, Numbers
    <3> QED
      BY <2>1, <3>4, <3>7 DEF NothingDue, Resetting
  <2>6. CASE call[t].op # "reset"
    <3>1. \A u \in Thread : \A l \in {"ask", "await"} : ~Resetting(u, l)
      BY <2>1, <2>6 DEF Resetting
    <3>2. reported + Counted = made /\ \A i \in DOMAIN line : line[i].op # "reset"
      BY <2>2, <3>1 DEF NothingDue
    <3>3. \A i \in DOMAIN line' : line'[i].op # "reset"
      BY <2>4, <3>2
    <3>4. reported' = reported
      BY <1>5, <2>6 DEF Accept
    <3> QED
      BY <2>1, <3>2, <3>3, <3>4 DEF NothingDue, Resetting
  <2> QED
    BY <2>5, <2>6
<1>6. ASSUME NEW t \in Thread, Reject(t) PROVE NothingLost'
  <2> SUFFICES ASSUME tangled' = "no", lossy' = "no" PROVE NothingDue'
    OBVIOUS
  <2>1. pc[t] # "idle" /\ tangled = "no"
    BY <1>6 DEF Reject, Fail
  <2>2. call[t].op # "reset" /\ lossy = "no"
    BY <1>6, <2>1 DEF Reject, Fail, TypeOK
  <2>3. /\ reported' = reported /\ Counted' = Counted /\ made' = made
        /\ pc'[t] \in {"idle", "command"}
        /\ \A u \in Thread : u # t => pc'[u] = "idle"
    BY <1>6, <2>1, CountedFacts, FailFacts, OthersIdle DEF Reject, Falls, Ends, TypeOK
  <2>4. \A u \in Thread : \A l \in {"ask", "await"} : ~Resetting(u, l)
    BY <2>1, <2>2, OthersIdle DEF Resetting
  <2>5. \A i \in DOMAIN line' : line'[i].op # "reset"
    BY <1>6, <2>1, <2>2, <2>4, Suffixes DEF Reject, NothingDue, TypeOK
  <2>6. \A u \in Thread : \A l \in {"ask", "await"} : ~Resetting(u, l)'
    BY <2>3 DEF Resetting
  <2> QED
    BY <2>1, <2>2, <2>3, <2>4, <2>5, <2>6 DEF NothingDue, Resetting
<1>7. ASSUME NEW t \in Thread, NEW c \in Calls, Begin(t, c) PROVE NothingLost'
  <2> SUFFICES ASSUME tangled' = "no", lossy' = "no" PROVE NothingDue'
    OBVIOUS
  <2>1. /\ Active = {} /\ line' = line /\ Counted' = Counted /\ Counted \in Nat
        /\ pc' = [pc EXCEPT ![t] = "command"]
    BY <1>7, CountedFacts DEF Begin, Goto, TypeOK
  <2>2. /\ \A u \in Thread : \A l \in {"ask", "await"} : ~Resetting(u, l)
        /\ \A u \in Thread : \A l \in {"ask", "await"} : ~Resetting(u, l)'
        /\ \A u \in Thread : pc'[u] # "ask"
    BY <2>1 DEF Resetting, Active, TypeOK
  <2>3. CASE line = <<>>
    <3>1. reported' = 0 /\ made' = Counted
      BY <1>7, <2>3 DEF Begin
    <3> QED
      BY <2>1, <2>2, <2>3, <3>1 DEF NothingDue
  <2>4. CASE line # <<>>
    <3>1. tangled = "no" /\ lossy = "no" /\ reported' = reported /\ made' = made
      BY <1>7, <2>1, <2>4 DEF Begin
    <3>2. reported + Counted = made /\ \A i \in DOMAIN line : line[i].op # "reset"
      BY <2>2, <3>1 DEF NothingDue
    <3> QED
      BY <2>1, <2>2, <3>1, <3>2 DEF NothingDue
  <2> QED
    BY <2>3, <2>4
<1>8. ASSUME NEW b \in Board, Pulse(b) PROVE NothingLost'
  <2> SUFFICES ASSUME tangled = "no", lossy = "no" PROVE NothingDue'
    BY <1>8 DEF Pulse
  <2>1. /\ line' = line /\ pc' = pc /\ call' = call /\ reply' = reply /\ reported' = reported
        /\ Counted' = Counted + 1 /\ made' = made + 1
    BY <1>8, CountedFacts DEF Pulse
  <2>2. reported \in Nat /\ Counted \in Nat /\ made \in Nat
    BY Numbers
  <2>3. \A i \in DOMAIN line : line[i].op = "reset" => line[i].data \in Nat
    BY DEF RepliesAreHonest, Honest
  <2>4. \A u \in Thread : Resetting(u, "ask") => reply[call[u].to].data \in Nat
    <3> SUFFICES ASSUME NEW u \in Thread, Resetting(u, "ask")
                 PROVE  reply[call[u].to].data \in Nat
      OBVIOUS
    <3>1. call[u].to \in Board
      BY InCall, CallFacts DEF Resetting
    <3>2. reply[call[u].to].op = "reset"
      BY DEF NothingDue
    <3> QED
      BY <3>1, <3>2 DEF RepliesAreHonest, Honest, NoReply
  <2>5. ASSUME NEW i \in DOMAIN line', line'[i].op = "reset"
        PROVE  /\ i = Len(line') /\ \E u \in Thread : Resetting(u, "await")'
               /\ reported' + Counted' + line'[i].data = made'
    <3>1. /\ i = Len(line) /\ \E u \in Thread : Resetting(u, "await")
          /\ reported + Counted + line[i].data = made
      BY <2>1, <2>5 DEF NothingDue
    <3>2. line[i].data \in Nat
      BY <2>1, <2>3, <2>5
    <3> QED
      BY <2>1, <2>2, <3>1, <3>2 DEF Resetting
  <2>6. ASSUME NEW u \in Thread, Resetting(u, "ask")'
        PROVE  /\ reply'[call'[u].to].op = "reset"
               /\ reported' + Counted' + reply'[call'[u].to].data = made'
    <3>1. Resetting(u, "ask")
      BY <2>1, <2>6 DEF Resetting
    <3>2. /\ reply[call[u].to].op = "reset"
          /\ reported + Counted + reply[call[u].to].data = made
      BY <3>1 DEF NothingDue
    <3> QED
      BY <2>1, <2>2, <2>4, <3>1, <3>2
  <2>7. \A u \in Thread : \A l \in {"ask", "await"} : Resetting(u, l)' <=> Resetting(u, l)
    BY <2>1 DEF Resetting
  <2>8. (\A u \in Thread : ~Resetting(u, "ask")' /\ ~Resetting(u, "await")') =>
            reported' + Counted' = made'
    BY <2>1, <2>2, <2>7 DEF NothingDue
  <2>9. \A u \in Thread : pc'[u] = "ask" /\ call'[u].op # "reset" =>
            reply'[call'[u].to].op # "reset"
    BY <2>1 DEF NothingDue
  <2> QED
    BY <2>5, <2>6, <2>8, <2>9 DEF NothingDue
<1>9. CASE UNCHANGED vars
  BY <1>9, CountedFacts DEF vars, NothingDue, Resetting
<1> QED
  BY <1>1, <1>2, <1>3, <1>4, <1>5, <1>6, <1>7, <1>8, <1>9 DEF Next, Continue

-----------------------------------------------------------------------------
LEMMA InitInvariant == Init => IInv
<1> SUFFICES ASSUME Init PROVE IInv
  OBVIOUS
<1>1. TypeOK
  <2>1. line \in Seq(Replies) /\ stored \in [Board -> [Output \cup Mode -> Nat]]
    BY DEF Init
  <2>2. \A b \in Board, x \in Mode : stored[b][x] <= 3
    BY DEF Init
  <2>3. stale \in 0 .. MaxLate /\ made \in 0 .. MaxPulses /\ Counted <= MaxPulses
    BY BoundAssumption DEF Init, Counted, Board
  <2> QED
    BY <2>1, <2>2, <2>3 DEF Init, TypeOK
<1>2. Staged /\ Alone /\ ChannelIsSet
  BY DEF Init, Staged, Alone, ChannelIsSet
<1>3. RepliesAreHonest
  BY DEF Init, RepliesAreHonest
<1>4. StartsAreOwn /\ WrittenIsStored /\ RepliesAreExact /\ LineIsOwn
  BY DEF Init, StartsAreOwn, WrittenIsStored, RepliesAreExact, LineIsOwn
<1>5. Counted = 0
  BY DEF Init, Counted, Board
<1>6. NotTwice
  <2> DEFINE f == [i \in 0 .. 0 |-> 0]
  <2>1. f \in Sums(<<>>) /\ f[0] = 0 /\ Len(<<>>) = 0
    BY DEF Sums
  <2> HIDE DEF f
  <2>2. Covers(f)
    BY <1>5, <2>1 DEF Init, Covers
  <2> QED
    BY <2>1, <2>2 DEF Init, NotTwice
<1>7. NothingLost
  BY <1>5 DEF Init, NothingLost, NothingDue, Resetting
<1> QED
  BY <1>1, <1>2, <1>3, <1>4, <1>6, <1>7 DEF IInv

LEMMA StepInvariant == IInv /\ [Next]_vars => IInv'
BY TypeStep, StagedStep, HonestStep, AloneStep, ChannelStep, StartsStep, StoredStep,
   ExactStep, LineIsOwnStep, NotTwiceStep, NothingLostStep DEF IInv

(* The parts of IInv hold of every state: calls that do not overlap get    *)
(* the replies that are due to them.                                       *)
THEOREM Invariant == Spec => []IInv
BY InitInvariant, StepInvariant, PTL DEF Spec

(* No call leaves the types: a mode stays below 4, and the sum of what     *)
(* readresetcounter() returned stays a number.                             *)
THEOREM TypeCorrect == Spec => []TypeOK
<1>1. IInv => TypeOK
  BY DEF IInv
<1> QED
  BY <1>1, Invariant, PTL

(* Whatever the firmware of the boards, the read of an analog input that   *)
(* does not overlap another call, and began with one late reply at most,   *)
(* returns the value of the input with its number.                         *)
LEMMA ReadOfOwnNumber ==
    ASSUME IInv, NEW t \in Thread, Returns(t), tangled = "no", stale <= 1,
           call[t].op = "adc"
    PROVE  line[1].data = call[t].on
<1>1. 1 \in DOMAIN line /\ Names(t, line[1]) /\ pc[t] = "await"
  BY Accepted DEF IInv, Returns
<1>2. stage[t] \in {"only", "start"}
  BY DEF IInv, TypeOK, Returns, NextStage
<1>3. CASE stage[t] = "start"
  <2>1. line[1].op = "start"
    BY <1>1, <1>3 DEF Names, Sent
  <2> QED
    BY <1>1, <1>3, <2>1 DEF IInv, StartsAreOwn, OfItsInput
<1>4. CASE stage[t] = "only"
  <2>1. line[1].op = "adc" /\ line[1].on = call[t].on
    BY <1>1, <1>4 DEF Names, Sent
  <2> QED
    BY <1>1, <2>1 DEF IInv, RepliesAreHonest, Honest
<1> QED
  BY <1>2, <1>3, <1>4

(* read() of an analog input does not return the value of an input with    *)
(* another number because of one late reply, whichever board that is of.   *)
THEOREM AdcReadsAreOfTheirNumber == Spec => AdcIsOwnNumber
<1>1. IInv /\ [Next]_vars =>
          [\A t \in Thread :
              Returns(t) /\ tangled = "no" /\ stale <= 1 /\ call[t].op = "adc" =>
                  line[1].data = call[t].on]_vars
  BY ReadOfOwnNumber
<1> QED
  BY <1>1, Invariant, PTL DEF Spec, AdcIsOwnNumber

(* A call that has the bus for itself, with nothing on its way as it       *)
(* begins, is exact.                                                       *)
THEOREM QuietCallsAreExact == Spec => QuietCallIsExact
<1>1. ASSUME IInv, NEW t \in Thread, Returns(t), tangled = "no", stale = 0
      PROVE  /\ call[t].op = "adc" =>
                    line[1].from = call[t].to /\ line[1].data = call[t].on
             /\ call[t].op = "set" => stored[call[t].to][call[t].on] = call[t].value
             /\ call[t].op = "get" /\ call[t].on \in Output \cup Mode =>
                    Returned(call[t], line[1].data) = stored[call[t].to][call[t].on]
  <2>1. 1 \in DOMAIN line /\ pc[t] = "await"
    BY <1>1, Accepted DEF IInv, Returns
  <2>2. call[t].op = "adc" => line[1].data = call[t].on
    BY <1>1, ReadOfOwnNumber
  <2>3. line[1].from = call[t].to
    BY <1>1, <2>1 DEF IInv, LineIsOwn
  <2>4. call[t].op = "set" => stored[call[t].to][call[t].on] = call[t].value
    BY <1>1, <2>1 DEF IInv, WrittenIsStored
  <2>5. call[t].op = "get" => Exact(t, line[1])
    BY <1>1, <2>1 DEF IInv, RepliesAreExact
  <2>6. line[1] # NoReply
    <3>1. line[1] \in Replies
      BY <1>1, <2>1 DEF IInv, TypeOK
    <3>2. line[1].op \in {"adc", "get", "set", "count", "reset", "start"}
      BY <3>1 DEF Replies
    <3> QED
      BY <3>2 DEF NoReply
  <2> QED
    BY <2>2, <2>3, <2>4, <2>5, <2>6 DEF Exact
<1>2. IInv /\ [Next]_vars =>
          [\A t \in Thread : Returns(t) /\ tangled = "no" /\ stale = 0 =>
              /\ call[t].op = "adc" =>
                     line[1].from = call[t].to /\ line[1].data = call[t].on
              /\ call[t].op = "set" => stored[call[t].to][call[t].on] = call[t].value
              /\ call[t].op = "get" /\ call[t].on \in Output \cup Mode =>
                     Returned(call[t], line[1].data) = stored[call[t].to][call[t].on]]_vars
  BY <1>1
<1> QED
  BY <1>2, Invariant, PTL DEF Spec, QuietCallIsExact

(* readresetcounter() reports no pulse twice, and loses one only where a   *)
(* call failed or the counter had outgrown its byte, for any number of     *)
(* pulses and of replies that are late.                                    *)
THEOREM PulsesAreAccounted == Spec => []PulsesAccounted
<1>1. ASSUME IInv, tangled = "no" PROVE reported + Counted <= made
  <2>1. PICK f \in Sums(line) : reported + Counted + f[Len(line)] <= made
    BY <1>1 DEF IInv, NotTwice, Covers
  <2>2. f[Len(line)] \in Nat
    <3>1. Len(line) \in 0 .. Len(line)
      BY <1>1 DEF IInv, TypeOK
    <3> QED
      BY <3>1 DEF Sums
  <2> QED
    BY <1>1, <2>1, <2>2, Numbers DEF IInv
<1>2. ASSUME IInv, tangled = "no", Active = {}, lossy = "no" PROVE reported + Counted = made
  BY <1>2 DEF IInv, NothingLost, NothingDue, Resetting, Active
<1>3. IInv => PulsesAccounted
  BY <1>1, <1>2 DEF PulsesAccounted
<1> QED
  BY <1>3, Invariant, PTL
================================================================================
