------------------------- MODULE K8055OutputsProofs -------------------------
(***************************************************************************)
(* Proofs about K8055Outputs for any set of connection threads: no output  *)
(* takes a value nobody asked for, and a write that ran alone leaves card  *)
(* and shadow equal.                                                       *)
(***************************************************************************)
EXTENDS K8055Outputs, TLAPS

USE DEF shadow, locals, history

(* The locals of write() have meaning only between certain steps. *)
LocalsClean ==
    \A t \in Thread :
        /\ pc[t] # "store" => word[t] = Zeros
        /\ pc[t] \in {"idle", "load", "store", "analog", "pack_d"} => packet[t] = Zero
        /\ pc[t] \in {"load", "store"} => target[t] \in Bits
        /\ pc[t] = "analog" => target[t] = "a"

(* Whatever is on its way to the card was asked for. *)
LocalsAsked ==
    /\ \A o \in Outputs : "off" \in asked[o]
    /\ \A t \in Thread :
        /\ \A b \in Bits : word[t][b] \in asked[b]
        /\ \A o \in Outputs : Out(packet[t], o) \in asked[o]
        /\ pc[t] \in {"load", "store", "analog"} => value[t] \in asked[target[t]]

(* A thread that is in no overlap is the only one in write(), and what it  *)
(* has copied so far is the shadow.                                        *)
Both == [dig |-> digital_outputs, ana |-> analog_output]

AloneInSync ==
    \A t \in Thread : pc[t] # "idle" /\ t \notin crossed =>
        /\ \A u \in Thread : pc[u] # "idle" => u = t
        /\ pc[t] = "pack_a" => packet[t].dig = digital_outputs
        /\ pc[t] = "send" => packet[t] = Both
        /\ pc[t] = "status" => card = Both

(* No step leaves the types. *)
LEMMA TypeStep == TypeOK /\ [Next]_vars => TypeOK'
<1> SUFFICES ASSUME TypeOK, [Next]_vars PROVE TypeOK'
  OBVIOUS
<1> USE DEF TypeOK, Goto, At, Bits, Outputs, Value, Zeros, Packets, Zero, Active, Writing
<1>1. CASE Construct
  BY <1>1 DEF Construct
<1>2. ASSUME NEW t \in Thread, NEW o \in Outputs, NEW v \in Value \cup {"too big"}, Begin(t, o, v)
      PROVE  TypeOK'
  BY <1>2 DEF Begin, InRange, Overlap
<1>3. ASSUME NEW t \in Thread, Load(t) PROVE TypeOK'
  BY <1>3 DEF Load
<1>4. ASSUME NEW t \in Thread, Store(t) PROVE TypeOK'
  BY <1>4 DEF Store
<1>5. ASSUME NEW t \in Thread, SetAnalog(t) PROVE TypeOK'
  BY <1>5 DEF SetAnalog
<1>6. ASSUME NEW t \in Thread, PackDigital(t) PROVE TypeOK'
  BY <1>6 DEF PackDigital
<1>7. ASSUME NEW t \in Thread, PackAnalog(t) PROVE TypeOK'
  BY <1>7 DEF PackAnalog
<1>8. ASSUME NEW t \in Thread, SendCommand(t) PROVE TypeOK'
  BY <1>8 DEF SendCommand
<1>9. ASSUME NEW t \in Thread, StatusGood(t) PROVE TypeOK'
  BY <1>9 DEF StatusGood, Return
<1>10. ASSUME NEW t \in Thread, Fails(t) PROVE TypeOK'
  BY <1>10 DEF Fails, Return
<1>11. CASE UNCHANGED vars
  BY <1>11 DEF vars
<1> QED
  BY <1>1, <1>2, <1>3, <1>4, <1>5, <1>6, <1>7, <1>8, <1>9, <1>10, <1>11
     DEF Next, ThreadStep

(* Each step leaves its thread with the locals of the next one. *)
LEMMA CleanStep == TypeOK /\ LocalsClean /\ [Next]_vars => LocalsClean'
<1> SUFFICES ASSUME TypeOK, LocalsClean, [Next]_vars PROVE LocalsClean'
  OBVIOUS
<1> USE DEF TypeOK, LocalsClean, Goto, At, Bits, Outputs, Value, Zeros, Packets, Zero
<1>1. CASE Construct
  BY <1>1 DEF Construct
<1>2. ASSUME NEW t \in Thread, NEW o \in Outputs, NEW v \in Value \cup {"too big"}, Begin(t, o, v)
      PROVE  LocalsClean'
  BY <1>2 DEF Begin, InRange, Overlap
<1>3. ASSUME NEW t \in Thread, Load(t) PROVE LocalsClean'
  BY <1>3 DEF Load
<1>4. ASSUME NEW t \in Thread, Store(t) PROVE LocalsClean'
  BY <1>4 DEF Store
<1>5. ASSUME NEW t \in Thread, SetAnalog(t) PROVE LocalsClean'
  BY <1>5 DEF SetAnalog
<1>6. ASSUME NEW t \in Thread, PackDigital(t) PROVE LocalsClean'
  BY <1>6 DEF PackDigital
<1>7. ASSUME NEW t \in Thread, PackAnalog(t) PROVE LocalsClean'
  BY <1>7 DEF PackAnalog
<1>8. ASSUME NEW t \in Thread, SendCommand(t) PROVE LocalsClean'
  BY <1>8 DEF SendCommand
<1>9. ASSUME NEW t \in Thread, StatusGood(t) PROVE LocalsClean'
  BY <1>9 DEF StatusGood, Return
<1>10. ASSUME NEW t \in Thread, Fails(t) PROVE LocalsClean'
  BY <1>10 DEF Fails, Return
<1>11. CASE UNCHANGED vars
  BY <1>11 DEF vars
<1> QED
  BY <1>1, <1>2, <1>3, <1>4, <1>5, <1>6, <1>7, <1>8, <1>9, <1>10, <1>11
     DEF Next, ThreadStep

(* Values move from requests to locals, shadow, packets and card, and are  *)
(* all asked for by then; a new generation starts from nothing.            *)
LEMMA AskedStep == TypeOK /\ LocalsClean /\ LocalsAsked /\ NothingInvented /\ [Next]_vars => (LocalsAsked /\ NothingInvented)'
<1> SUFFICES ASSUME TypeOK, LocalsClean, LocalsAsked, NothingInvented, [Next]_vars PROVE (LocalsAsked /\ NothingInvented)'
  OBVIOUS
<1> USE DEF TypeOK, LocalsClean, LocalsAsked, NothingInvented, Out, Goto, At, Bits, Outputs, Value, Zeros, Packets, Zero, Active
<1>1. CASE Construct
  BY <1>1 DEF Construct
<1>2. ASSUME NEW t \in Thread, NEW o \in Outputs, NEW v \in Value \cup {"too big"}, Begin(t, o, v)
      PROVE  (LocalsAsked /\ NothingInvented)'
  <2>1. /\ \A p \in Outputs : asked[p] \subseteq asked'[p]
        /\ v \in asked'[o]
    BY <1>2 DEF Begin
  <2>2. LocalsAsked'
    <3>1. \A p \in Outputs : "off" \in asked'[p]
      BY <2>1
    <3>2. \A u \in Thread : /\ \A b \in Bits : word'[u][b] \in asked'[b]
                          /\ \A p \in Outputs : Out(packet'[u], p) \in asked'[p]
      BY <1>2, <2>1 DEF Begin
    <3>3. \A u \in Thread : pc'[u] \in {"load", "store", "analog"} => value'[u] \in asked'[target'[u]]
      <4>1. value'[t] = v /\ target'[t] = o
        BY <1>2 DEF Begin, InRange
      <4>2. ASSUME NEW u \in Thread \ {t}
            PROVE  /\ pc'[u] = pc[u] /\ value'[u] = value[u] /\ target'[u] = target[u]
                   /\ target[u] \in Outputs
        BY <1>2 DEF Begin
      <4> QED
        BY <2>1, <4>1, <4>2
    <3> QED
      BY <3>1, <3>2, <3>3
  <2>3. NothingInvented'
    BY <1>2, <2>1 DEF Begin
  <2> QED
    BY <2>2, <2>3
<1>3. ASSUME NEW t \in Thread, Load(t) PROVE (LocalsAsked /\ NothingInvented)'
  BY <1>3 DEF Load
<1>4. ASSUME NEW t \in Thread, Store(t) PROVE (LocalsAsked /\ NothingInvented)'
  BY <1>4 DEF Store
<1>5. ASSUME NEW t \in Thread, SetAnalog(t) PROVE (LocalsAsked /\ NothingInvented)'
  BY <1>5 DEF SetAnalog
<1>6. ASSUME NEW t \in Thread, PackDigital(t) PROVE (LocalsAsked /\ NothingInvented)'
  BY <1>6 DEF PackDigital
<1>7. ASSUME NEW t \in Thread, PackAnalog(t) PROVE (LocalsAsked /\ NothingInvented)'
  BY <1>7 DEF PackAnalog
<1>8. ASSUME NEW t \in Thread, SendCommand(t) PROVE (LocalsAsked /\ NothingInvented)'
  BY <1>8 DEF SendCommand
<1>9. ASSUME NEW t \in Thread, StatusGood(t) PROVE (LocalsAsked /\ NothingInvented)'
  BY <1>9 DEF StatusGood, Return
<1>10. ASSUME NEW t \in Thread, Fails(t) PROVE (LocalsAsked /\ NothingInvented)'
  BY <1>10 DEF Fails, Return
<1>11. CASE UNCHANGED vars
  BY <1>11 DEF vars
<1> QED
  BY <1>1, <1>2, <1>3, <1>4, <1>5, <1>6, <1>7, <1>8, <1>9, <1>10, <1>11
     DEF Next, ThreadStep

(* Only the thread itself can act while it is alone. *)
LEMMA SyncStep == TypeOK /\ AloneInSync /\ [Next]_vars => AloneInSync'
<1> SUFFICES ASSUME TypeOK, AloneInSync, [Next]_vars PROVE AloneInSync'
  OBVIOUS
<1> USE DEF TypeOK, AloneInSync, Both, Goto, At, Bits, Outputs, Value, Zeros, Packets, Zero, Active
<1>1. CASE Construct
  BY <1>1 DEF Construct
<1>2. ASSUME NEW t \in Thread, NEW o \in Outputs, NEW v \in Value \cup {"too big"}, Begin(t, o, v)
      PROVE  AloneInSync'
  <2>1. pc'[t] \in {"load", "analog"} /\ \A w \in Thread : w # t => pc'[w] = pc[w]
    BY <1>2 DEF Begin
  <2>2. ASSUME NEW u \in Thread, pc'[u] # "idle", u \notin crossed'
        PROVE  u = t /\ \A w \in Thread : pc[w] = "idle"
    BY <1>2, <2>2 DEF Begin, Overlap
  <2>3. ASSUME NEW u \in Thread, pc'[u] # "idle", u \notin crossed'
        PROVE  /\ \A w \in Thread : pc'[w] # "idle" => w = u
               /\ pc'[u] # "pack_a" /\ pc'[u] # "send" /\ pc'[u] # "status"
    <3>1. u = t /\ \A w \in Thread : pc[w] = "idle"
      BY <2>2, <2>3
    <3> HIDE DEF TypeOK, AloneInSync
    <3> QED
      BY <2>1, <3>1
  <2> QED
    BY <2>3
<1>3. ASSUME NEW t \in Thread, Load(t) PROVE AloneInSync'
  BY <1>3 DEF Load
<1>4. ASSUME NEW t \in Thread, Store(t) PROVE AloneInSync'
  BY <1>4 DEF Store
<1>5. ASSUME NEW t \in Thread, SetAnalog(t) PROVE AloneInSync'
  BY <1>5 DEF SetAnalog
<1>6. ASSUME NEW t \in Thread, PackDigital(t) PROVE AloneInSync'
  BY <1>6 DEF PackDigital
<1>7. ASSUME NEW t \in Thread, PackAnalog(t) PROVE AloneInSync'
  BY <1>7 DEF PackAnalog
<1>8. ASSUME NEW t \in Thread, SendCommand(t) PROVE AloneInSync'
  BY <1>8 DEF SendCommand
<1>9. ASSUME NEW t \in Thread, StatusGood(t) PROVE AloneInSync'
  BY <1>9 DEF StatusGood, Return
<1>10. ASSUME NEW t \in Thread, Fails(t) PROVE AloneInSync'
  BY <1>10 DEF Fails, Return
<1>11. CASE UNCHANGED vars
  BY <1>11 DEF vars
<1> QED
  BY <1>1, <1>2, <1>3, <1>4, <1>5, <1>6, <1>7, <1>8, <1>9, <1>10, <1>11
     DEF Next, ThreadStep

(* The inductive invariant. *)
IInv == TypeOK /\ LocalsClean /\ LocalsAsked /\ NothingInvented /\ AloneInSync

LEMMA InitIInv == Init => IInv
  BY DEF Init, IInv, TypeOK, LocalsClean, LocalsAsked, NothingInvented, AloneInSync,
         Out, Bits, Outputs, Value, Zeros, Packets, Zero

(* IInv is an invariant of the program. *)
THEOREM Invariant == Spec => []IInv
<1>1. IInv /\ [Next]_vars => IInv'
  BY TypeStep, CleanStep, AskedStep, SyncStep DEF IInv
<1> QED
  BY InitIInv, <1>1, PTL DEF Spec

(* Every variable keeps its type. *)
THEOREM TypeCorrect == Spec => []TypeOK
<1>1. IInv => TypeOK
  BY DEF IInv
<1> QED
  BY Invariant, <1>1, PTL

(* Neither races nor failing transfers make an output take a value that    *)
(* was not asked of it in this generation.                                 *)
THEOREM NothingIsInvented == Spec => []NothingInvented
<1>1. IInv => NothingInvented
  BY DEF IInv
<1> QED
  BY Invariant, <1>1, PTL

(* A write() that ran alone and was answered "OK" leaves the card equal to *)
(* the shadow.                                                             *)
THEOREM WritingAloneReconciles == Spec => AloneReconciles
<1>1. IInv /\ [Next]_vars =>
        [\A t \in Thread :
            StatusGood(t) /\ t \notin crossed =>
                card = [dig |-> digital_outputs, ana |-> analog_output]]_vars
  BY DEF IInv, AloneInSync, StatusGood, At, Both
<1> QED
  BY Invariant, <1>1, PTL DEF Spec, AloneReconciles
=============================================================================
