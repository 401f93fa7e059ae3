-------------------------- MODULE K8055InputsProofs --------------------------
(***************************************************************************)
(* Proofs about K8055Inputs for any set of connection threads, any width   *)
(* of the counters and any number of pulses: operations that do not        *)
(* overlap report no pulse twice, and lose only those that come between    *)
(* the read and the reset of a readresetcounter().                         *)
(***************************************************************************)
EXTENDS K8055Inputs, TLAPS

USE DEF history

(* Without an overlap one thread at most is in an operation. *)
Alone ==
    "overlap" \notin trouble =>
        \A t, u \in Thread : pc[t] # "idle" /\ pc[u] # "idle" => t = u

(* The pulses that are reported, with the value the operation has on its   *)
(* way to its client, are pulses there were.                               *)
NotTwice ==
    "overlap" \notin trouble =>
        /\ counted + counter <= pulses
        /\ \A t \in Thread :
              /\ pc[t] = "recv2" => counted + ready <= pulses
              /\ pc[t] = "store" => counted + got[t] <= pulses
              /\ pc[t] = "fetch" => counted + counters <= pulses
              /\ pc[t] = "reset" => counted + result[t] <= pulses
              /\ pc[t] = "status" => counted + result[t] + counter <= pulses

(* Pulses that neither are reported, nor will be by the operation that is  *)
(* about to reset the counter, came while it was in its window.            *)
OnlyInWindow ==
    trouble = {} =>
        /\ (\A t \in Thread : pc[t] # "status") => pulses <= counted + counter + window
        /\ \A t \in Thread :
              /\ pc[t] \in {"reset", "status"} => op[t] = "readresetcounter"
              /\ op[t] = "readresetcounter" =>
                    /\ pc[t] = "recv2" => pulses <= counted + ready + window
                    /\ pc[t] = "store" => pulses <= counted + got[t] + window
                    /\ pc[t] = "fetch" => pulses <= counted + counters + window
                    /\ pc[t] = "reset" => pulses <= counted + result[t] + window
                    /\ pc[t] = "status" =>
                          pulses <= counted + result[t] + counter + window

IInv == TypeOK /\ window <= pulses /\ Alone /\ NotTwice /\ OnlyInWindow

(* The increment of an unsigned integer wraps to zero. *)
LEMMA IncrementWraps ==
    ASSUME NEW n \in Count
    PROVE  Increment(n) = IF n + 1 = Width THEN 0 ELSE n + 1
BY WidthAssumption, SMT DEF Increment, Count

(* Min of two numbers is the smaller. *)
LEMMA MinOfTwo ==
    ASSUME NEW m \in Int, NEW n \in Int
    PROVE  Min({m, n}) = IF m <= n THEN m ELSE n
<1> DEFINE S == {m, n}
           x == IF m <= n THEN m ELSE n
<1>1. x \in S /\ \A y \in S : x <= y
  OBVIOUS
<1>2. \A z \in S : (\A y \in S : z <= y) => z = x
  OBVIOUS
<1> QED
  BY <1>1, <1>2 DEF Min

(* No step leaves the types. *)
LEMMA TypeStep ==
    TypeOK /\ window <= pulses /\ [Next]_vars => (TypeOK /\ window <= pulses)'
<1> SUFFICES ASSUME TypeOK, window <= pulses, [Next]_vars PROVE (TypeOK /\ window <= pulses)'
  OBVIOUS
<1> USE WidthAssumption, PulsesAssumption DEF TypeOK, Goto, At, Count, Tally, Active
<1>1. CASE Pulse
  <2> counter' = IF counter + 1 = Width THEN 0 ELSE counter + 1
    BY <1>1, IncrementWraps DEF Pulse, TypeOK
  <2> QED
    BY <1>1 DEF Pulse, Resetting
<1>2. ASSUME NEW t \in Thread, NEW o \in {"readcounter", "readresetcounter"}, Begin(t, o) PROVE (TypeOK /\ window <= pulses)'
  BY <1>2 DEF Begin
<1>3. ASSUME NEW t \in Thread, Receive1(t) PROVE (TypeOK /\ window <= pulses)'
  BY <1>3 DEF Receive1, TakePacket
<1>4. ASSUME NEW t \in Thread, Receive2(t) PROVE (TypeOK /\ window <= pulses)'
  BY <1>4 DEF Receive2, TakePacket
<1>5. ASSUME NEW t \in Thread, StoreCounter(t) PROVE (TypeOK /\ window <= pulses)'
  BY <1>5 DEF StoreCounter
<1>6. ASSUME NEW t \in Thread, Fetch(t) PROVE (TypeOK /\ window <= pulses)'
  BY <1>6 DEF Fetch
<1>7. ASSUME NEW t \in Thread, ResetCounter(t) PROVE (TypeOK /\ window <= pulses)'
  BY <1>7 DEF ResetCounter
<1>8. ASSUME NEW t \in Thread, Status(t) PROVE (TypeOK /\ window <= pulses)'
  <2> counted' = IF counted + result[t] <= MaxPulses + 1
                 THEN counted + result[t] ELSE MaxPulses + 1
    BY <1>8, MinOfTwo DEF Status, TypeOK, Count
  <2> QED
    BY <1>8 DEF Status, TakePacket
<1>9. ASSUME NEW t \in Thread, Fails(t) PROVE (TypeOK /\ window <= pulses)'
  BY <1>9 DEF Fails
<1>10. CASE UNCHANGED vars
  BY <1>10 DEF vars
<1> QED
  BY <1>1, <1>2, <1>3, <1>4, <1>5, <1>6, <1>7, <1>8, <1>9, <1>10 DEF Next, ThreadStep

(* An operation that begins beside another is an overlap. *)
LEMMA AloneStep ==
    TypeOK /\ Alone /\ [Next]_vars => Alone'
<1> SUFFICES ASSUME TypeOK, Alone, [Next]_vars PROVE Alone'
  OBVIOUS
<1> USE WidthAssumption, PulsesAssumption DEF TypeOK, Alone, Goto, At, Count, Tally, Active
<1>1. CASE Pulse
  BY <1>1 DEF Pulse
<1>2. ASSUME NEW t \in Thread, NEW o \in {"readcounter", "readresetcounter"}, Begin(t, o) PROVE Alone'
  BY <1>2 DEF Begin
<1>3. ASSUME NEW t \in Thread, Receive1(t) PROVE Alone'
  BY <1>3 DEF Receive1, TakePacket
<1>4. ASSUME NEW t \in Thread, Receive2(t) PROVE Alone'
  BY <1>4 DEF Receive2, TakePacket
<1>5. ASSUME NEW t \in Thread, StoreCounter(t) PROVE Alone'
  BY <1>5 DEF StoreCounter
<1>6. ASSUME NEW t \in Thread, Fetch(t) PROVE Alone'
  BY <1>6 DEF Fetch
<1>7. ASSUME NEW t \in Thread, ResetCounter(t) PROVE Alone'
  BY <1>7 DEF ResetCounter
<1>8. ASSUME NEW t \in Thread, Status(t) PROVE Alone'
  BY <1>8 DEF Status, TakePacket
<1>9. ASSUME NEW t \in Thread, Fails(t) PROVE Alone'
  BY <1>9 DEF Fails
<1>10. CASE UNCHANGED vars
  BY <1>10 DEF vars
<1> QED
  BY <1>1, <1>2, <1>3, <1>4, <1>5, <1>6, <1>7, <1>8, <1>9, <1>10 DEF Next, ThreadStep

(* Whoever is in an operation is alone in it, and hands its value on. *)
LEMMA NotTwiceStep ==
    TypeOK /\ Alone /\ NotTwice /\ [Next]_vars => NotTwice'
<1> SUFFICES ASSUME TypeOK, Alone, NotTwice, [Next]_vars PROVE NotTwice'
  OBVIOUS
<1> USE WidthAssumption, PulsesAssumption DEF TypeOK, Alone, NotTwice, Goto, At, Count, Tally, Active
<1>1. CASE Pulse
  <2> counter' = IF counter + 1 = Width THEN 0 ELSE counter + 1
    BY <1>1, IncrementWraps DEF Pulse, TypeOK
  <2> QED
    BY <1>1 DEF Pulse, Resetting
<1>2. ASSUME NEW t \in Thread, NEW o \in {"readcounter", "readresetcounter"}, Begin(t, o) PROVE NotTwice'
  BY <1>2 DEF Begin
<1>3. ASSUME NEW t \in Thread, Receive1(t) PROVE NotTwice'
  BY <1>3 DEF Receive1, TakePacket
<1>4. ASSUME NEW t \in Thread, Receive2(t) PROVE NotTwice'
  BY <1>4 DEF Receive2, TakePacket
<1>5. ASSUME NEW t \in Thread, StoreCounter(t) PROVE NotTwice'
  BY <1>5 DEF StoreCounter
<1>6. ASSUME NEW t \in Thread, Fetch(t) PROVE NotTwice'
  BY <1>6 DEF Fetch
<1>7. ASSUME NEW t \in Thread, ResetCounter(t) PROVE NotTwice'
  BY <1>7 DEF ResetCounter
<1>8. ASSUME NEW t \in Thread, Status(t) PROVE NotTwice'
  <2> counted' = IF counted + result[t] <= MaxPulses + 1
                 THEN counted + result[t] ELSE MaxPulses + 1
    BY <1>8, MinOfTwo DEF Status, TypeOK, Count
  <2> QED
    BY <1>8 DEF Status, TakePacket
<1>9. ASSUME NEW t \in Thread, Fails(t) PROVE NotTwice'
  <2>1. SUFFICES ASSUME "overlap" \notin trouble' PROVE NotTwice'
    OBVIOUS
  <2>2. "overlap" \notin trouble /\ \A u \in Thread : pc'[u] = "idle"
    BY <1>9, <2>1 DEF Fails
  <2>3. counter' \in {counter, 0} /\ counted' = counted /\ pulses' = pulses
    BY <1>9 DEF Fails
  <2>4. counted + counter <= pulses /\ counted <= pulses
    BY <2>2 DEF Count, Tally
  <2>5. CASE counter' = counter
    BY <2>2, <2>3, <2>4, <2>5
  <2>6. CASE counter' = 0
    BY <2>2, <2>3, <2>4, <2>6
  <2> QED
    BY <2>3, <2>5, <2>6
<1>10. CASE UNCHANGED vars
  BY <1>10 DEF vars
<1> QED
  BY <1>1, <1>2, <1>3, <1>4, <1>5, <1>6, <1>7, <1>8, <1>9, <1>10 DEF Next, ThreadStep

(* A pulse is in the counter, or it came in the window. *)
LEMMA OnlyInWindowStep ==
    TypeOK /\ Alone /\ NotTwice /\ OnlyInWindow /\ [Next]_vars => OnlyInWindow'
<1> SUFFICES ASSUME TypeOK, Alone, NotTwice, OnlyInWindow, [Next]_vars PROVE OnlyInWindow'
  OBVIOUS
<1> USE WidthAssumption, PulsesAssumption DEF TypeOK, Alone, NotTwice, OnlyInWindow, Goto, At, Count, Tally, Active
<1>1. CASE Pulse
  <2> counter' = IF counter + 1 = Width THEN 0 ELSE counter + 1
    BY <1>1, IncrementWraps DEF Pulse, TypeOK
  <2> QED
    BY <1>1 DEF Pulse, Resetting
<1>2. ASSUME NEW t \in Thread, NEW o \in {"readcounter", "readresetcounter"}, Begin(t, o) PROVE OnlyInWindow'
  BY <1>2 DEF Begin
<1>3. ASSUME NEW t \in Thread, Receive1(t) PROVE OnlyInWindow'
  BY <1>3 DEF Receive1, TakePacket
<1>4. ASSUME NEW t \in Thread, Receive2(t) PROVE OnlyInWindow'
  BY <1>4 DEF Receive2, TakePacket
<1>5. ASSUME NEW t \in Thread, StoreCounter(t) PROVE OnlyInWindow'
  BY <1>5 DEF StoreCounter
<1>6. ASSUME NEW t \in Thread, Fetch(t) PROVE OnlyInWindow'
  BY <1>6 DEF Fetch
<1>7. ASSUME NEW t \in Thread, ResetCounter(t) PROVE OnlyInWindow'
  BY <1>7 DEF ResetCounter
<1>8. ASSUME NEW t \in Thread, Status(t) PROVE OnlyInWindow'
  <2> counted' = IF counted + result[t] <= MaxPulses + 1
                 THEN counted + result[t] ELSE MaxPulses + 1
    BY <1>8, MinOfTwo DEF Status, TypeOK, Count
  <2> QED
    BY <1>8 DEF Status, TakePacket
<1>9. ASSUME NEW t \in Thread, Fails(t) PROVE OnlyInWindow'
  BY <1>9 DEF Fails
<1>10. CASE UNCHANGED vars
  BY <1>10 DEF vars
<1> QED
  BY <1>1, <1>2, <1>3, <1>4, <1>5, <1>6, <1>7, <1>8, <1>9, <1>10 DEF Next, ThreadStep

(* The initial state satisfies the invariant. *)
LEMMA InitInvariant == Init => IInv
BY WidthAssumption, PulsesAssumption
   DEF Init, IInv, TypeOK, Alone, NotTwice, OnlyInWindow, Count, Tally

(* Every step of every operation, and every pulse, keeps the inductive     *)
(* invariant.                                                              *)
THEOREM Invariant == Spec => []IInv
<1>1. IInv /\ [Next]_vars => IInv'
  BY TypeStep, AloneStep, NotTwiceStep, OnlyInWindowStep DEF IInv
<1> QED
  BY InitInvariant, <1>1, PTL DEF Spec

(* Type correctness of the counters and of all that is counted. *)
THEOREM TypeCorrect == Spec => []TypeOK
<1>1. IInv => TypeOK
  BY DEF IInv
<1> QED
  BY Invariant, <1>1, PTL

(* What readresetcounter() returns to its callers accounts for the pulses: *)
(* none twice without an overlap, none lost but in the window between the  *)
(* read and the reset if, besides, nothing failed and nothing wrapped.     *)
THEOREM PulsesAreAccounted == Spec => []PulsesAccounted
<1>1. IInv => PulsesAccounted
  BY DEF IInv, TypeOK, NotTwice, OnlyInWindow, PulsesAccounted, Active, Count, Tally
<1> QED
  BY Invariant, <1>1, PTL

(* Of two threads that are in an operation each has crossed the other. *)
Crossing ==
    \A t, u \in Thread : pc[t] # "idle" /\ pc[u] # "idle" /\ t # u => t \in crossed

(* Where the value of a readcounter() that runs alone is at each of its    *)
(* steps: it was the card's counter at a moment since it began.            *)
FreshSoFar ==
    \A t \in Thread :
        /\ pc[t] \in {"reset", "status"} => op[t] = "readresetcounter"
        /\ pc[t] # "idle" /\ op[t] = "readcounter" /\ t \notin crossed /\ "wrap" \notin trouble =>
              /\ before[t] <= counter
              /\ pc[t] = "recv2" => before[t] <= ready /\ ready <= counter
              /\ pc[t] = "store" => before[t] <= got[t] /\ got[t] <= counter
              /\ pc[t] = "fetch" => before[t] <= counters /\ counters <= counter

FInv == TypeOK /\ Crossing /\ FreshSoFar

(* Nobody but the thread itself moves while it has not crossed another. *)
LEMMA CrossingStep ==
    TypeOK /\ Crossing /\ [Next]_vars => Crossing'
<1> SUFFICES ASSUME TypeOK, Crossing, [Next]_vars PROVE Crossing'
  OBVIOUS
<1> USE DEF TypeOK, Crossing, Goto, At, Active
<1>1. CASE Pulse
  BY <1>1 DEF Pulse
<1>2. ASSUME NEW t \in Thread, NEW o \in {"readcounter", "readresetcounter"}, Begin(t, o) PROVE Crossing'
  BY <1>2 DEF Begin
<1>3. ASSUME NEW t \in Thread, Receive1(t) PROVE Crossing'
  BY <1>3 DEF Receive1, TakePacket
<1>4. ASSUME NEW t \in Thread, Receive2(t) PROVE Crossing'
  BY <1>4 DEF Receive2, TakePacket
<1>5. ASSUME NEW t \in Thread, StoreCounter(t) PROVE Crossing'
  BY <1>5 DEF StoreCounter
<1>6. ASSUME NEW t \in Thread, Fetch(t) PROVE Crossing'
  BY <1>6 DEF Fetch
<1>7. ASSUME NEW t \in Thread, ResetCounter(t) PROVE Crossing'
  BY <1>7 DEF ResetCounter
<1>8. ASSUME NEW t \in Thread, Status(t) PROVE Crossing'
  BY <1>8 DEF Status, TakePacket
<1>9. ASSUME NEW t \in Thread, Fails(t) PROVE Crossing'
  BY <1>9 DEF Fails
<1>10. CASE UNCHANGED vars
  BY <1>10 DEF vars
<1> QED
  BY <1>1, <1>2, <1>3, <1>4, <1>5, <1>6, <1>7, <1>8, <1>9, <1>10 DEF Next, ThreadStep

LEMMA FreshStep ==
    FInv /\ [Next]_vars => FreshSoFar'
<1> SUFFICES ASSUME FInv, [Next]_vars PROVE FreshSoFar'
  OBVIOUS
<1> USE WidthAssumption, PulsesAssumption
    DEF FInv, TypeOK, Crossing, FreshSoFar, Goto, At, Count, Tally, Active
<1>1. CASE Pulse
  <2> counter' = IF counter + 1 = Width THEN 0 ELSE counter + 1
    BY <1>1, IncrementWraps DEF Pulse
  <2> QED
    BY <1>1 DEF Pulse, Resetting
<1>2. ASSUME NEW t \in Thread, NEW o \in {"readcounter", "readresetcounter"}, Begin(t, o) PROVE FreshSoFar'
  BY <1>2 DEF Begin
<1>3. ASSUME NEW t \in Thread, Receive1(t) PROVE FreshSoFar'
  BY <1>3 DEF Receive1, TakePacket
<1>4. ASSUME NEW t \in Thread, Receive2(t) PROVE FreshSoFar'
  BY <1>4 DEF Receive2, TakePacket
<1>5. ASSUME NEW t \in Thread, StoreCounter(t) PROVE FreshSoFar'
  BY <1>5 DEF StoreCounter
<1>6. ASSUME NEW t \in Thread, Fetch(t) PROVE FreshSoFar'
  BY <1>6 DEF Fetch
<1>7. ASSUME NEW t \in Thread, ResetCounter(t) PROVE FreshSoFar'
  BY <1>7 DEF ResetCounter
<1>8. ASSUME NEW t \in Thread, Status(t) PROVE FreshSoFar'
  BY <1>8 DEF Status, TakePacket
<1>9. ASSUME NEW t \in Thread, Fails(t) PROVE FreshSoFar'
  BY <1>9 DEF Fails
<1>10. CASE UNCHANGED vars
  BY <1>10 DEF vars
<1> QED
  BY <1>1, <1>2, <1>3, <1>4, <1>5, <1>6, <1>7, <1>8, <1>9, <1>10 DEF Next, ThreadStep

(* What a readcounter() that no other operation overlapped returns is a    *)
(* value the card's counter had during the call, however many packets the  *)
(* card is behind and whatever was stored in the shared member before.     *)
THEOREM AloneReadsAreFresh == Spec => AloneReadIsFresh
<1>1. Init => FInv
  BY WidthAssumption, PulsesAssumption
     DEF Init, FInv, TypeOK, Crossing, FreshSoFar, Count, Tally
<1>2. TypeOK /\ window <= pulses /\ FInv /\ [Next]_vars => FInv'
  BY TypeStep, CrossingStep, FreshStep DEF FInv
<1>3. IInv => TypeOK /\ window <= pulses
  BY DEF IInv
<1>4. FInv /\ [Next]_vars =>
          [\A t \in Thread :
              Fetch(t) /\ op[t] = "readcounter" /\ t \notin crossed /\ "wrap" \notin trouble =>
                  before[t] <= result'[t] /\ result'[t] <= counter]_vars
  <2> SUFFICES ASSUME FInv, NEW t \in Thread, Fetch(t), op[t] = "readcounter",
                      t \notin crossed, "wrap" \notin trouble
               PROVE  before[t] <= result'[t] /\ result'[t] <= counter
    OBVIOUS
  <2>1. result'[t] = counters /\ pc[t] = "fetch"
    BY DEF Fetch, FInv, TypeOK, At
  <2>2. before[t] <= counters /\ counters <= counter
    BY <2>1 DEF FInv, FreshSoFar
  <2> QED
    BY <2>1, <2>2
<1> QED
  BY <1>1, <1>2, <1>3, <1>4, Invariant, PTL DEF Spec, AloneReadIsFresh
=============================================================================
