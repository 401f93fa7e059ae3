---------------------------- MODULE RegistryProofs ----------------------------
(***************************************************************************)
(* Proofs about how interfaces and devices get into the registry and how   *)
(* they are found there: the safety of Startup over all generations of a   *)
(* process, and what holds of ids and of the maps that are searched for    *)
(* them.                                                                   *)
(***************************************************************************)
EXTENDS Startup, Encodings, FiniteSetTheorems, TLAPS

-----------------------------------------------------------------------------
(* Startup *)

USE DEF given

(* The devices of an interface, and whether it has been probed yet         *)
DevicesAreSets == devices \in [Ids -> SUBSET ((1 .. 7) \X (1 .. 8))]

Unprobed(i) == (pc = "open" /\ enumerator <= i) \/ (pc = "probe" /\ enumerator < i)

(* Before an interface is probed it is not registered and has neither      *)
(* devices nor numbers; while it is probed, each probe uses at most one    *)
(* number, on the ELV bus exactly one.                                     *)
NumbersInStep ==
    /\ \A i \in Ids : Unprobed(i) => number[i] = 1 /\ devices[i] = {} /\ i \notin registry
    /\ pc = "probe" =>
          /\ enumerator \in registry
          /\ probe <= Probes[enumerator] + 1
          /\ number[enumerator] <= probe
          /\ enumerator = Elv => number[enumerator] = probe
          /\ \A d \in devices[enumerator] : d[1] < probe /\ d[2] < number[enumerator]

(* A generation begins without interfaces. *)
BeginsEmpty == pc = "construct" => registry = {}

(* Of the interfaces the loop of main has passed, only the first may be    *)
(* left without a device.                                                  *)
PrunedSoFar ==
    pc = "prune" =>
        /\ it \in registry \cup {End}
        /\ \A i \in registry : i < it /\ devices[i] = {} => \A j \in registry : i <= j

(* An interface with a device is registered: from its first device on,     *)
(* through the loop of main, until ~Interfaces deletes both.               *)
DevicesInRegistry == \A i \in Ids : devices[i] # {} => i \in registry

IInv ==
    /\ TypeOK /\ DevicesAreSets /\ NumbersInStep /\ BeginsEmpty /\ PrunedSoFar
    /\ DevicesInRegistry
    /\ AnsweredAreRegistered /\ IdsSound /\ ServesWithDevices

LEMMA Constants ==
    /\ Ids = {1, 2} /\ Elv = 1 /\ Usb = 2 /\ End = 3
    /\ Probes[1] = 7 /\ Probes[2] = 3
    /\ \A i \in Ids : i \in Int /\ i < End
BY DEF Ids, Elv, Usb, End, Probes

(* The smallest of a set is what the loops of main begin and go on with. *)
LEMMA MinIs ==
    ASSUME NEW S \in SUBSET (1 .. 3), NEW x \in S, \A y \in S : x <= y
    PROVE  Min(S) = x
<1>1. \E z \in S : \A y \in S : z <= y
  OBVIOUS
<1>2. Min(S) \in S /\ \A y \in S : Min(S) <= y
  BY <1>1 DEF Min
<1>3. Min(S) <= x /\ x <= Min(S)
  BY <1>2
<1>4. x \in Int /\ Min(S) \in Int
  <2>1. x \in 1 .. 3 /\ Min(S) \in 1 .. 3
    BY <1>2
  <2> QED
    BY <2>1
<1> QED
  BY <1>3, <1>4

LEMMA MinOf ==
    ASSUME NEW S \in SUBSET (1 .. 3), S # {}
    PROVE  Min(S) \in S /\ \A y \in S : Min(S) <= y
<1>1. CASE 1 \in S
  BY <1>1, MinIs
<1>2. CASE 1 \notin S /\ 2 \in S
  <2>1. \A y \in S : 2 <= y
    BY <1>2
  <2> QED
    BY <1>2, <2>1, MinIs
<1>3. CASE 1 \notin S /\ 2 \notin S
  <2>1. \A y \in S : y \in 1 .. 3 /\ y # 1 /\ y # 2
    BY <1>3
  <2>2. \A y \in S : y = 3
    BY <2>1
  <2>3. 3 \in S
    BY <2>2
  <2> QED
    BY <2>2, <2>3, MinIs
<1> QED
  BY <1>1, <1>2, <1>3

LEMMA Iterators ==
    ASSUME NEW reg \in SUBSET Ids, NEW i \in 1 .. 3
    PROVE  /\ First(reg) \in reg \cup {End}
           /\ \A j \in reg : First(reg) <= j
           /\ After(reg, i) \in reg \cup {End}
           /\ \A j \in reg : j < After(reg, i) => j <= i
<1>1. /\ reg \cup {End} \in SUBSET (1 .. 3) /\ reg \cup {End} # {}
      /\ {j \in reg : j > i} \cup {End} \in SUBSET (1 .. 3)
      /\ {j \in reg : j > i} \cup {End} # {}
  <2>1. /\ End \in 1 .. 3
        /\ \A j \in reg : j \in 1 .. 3
    BY Constants
  <2> HIDE DEF End
  <2> QED
    BY <2>1
<1>2. First(reg) \in reg \cup {End} /\ \A j \in reg : First(reg) <= j
  BY <1>1, MinOf DEF First
<1>3. /\ After(reg, i) \in {j \in reg : j > i} \cup {End}
      /\ \A j \in {j \in reg : j > i} : After(reg, i) <= j
  BY <1>1, MinOf DEF After
<1>4. After(reg, i) \in Int /\ After(reg, i) \in reg \cup {End}
  <2>1. After(reg, i) \in 1 .. 3
    BY <1>1, <1>3
  <2>2. After(reg, i) \in reg \cup {End}
    BY <1>3
  <2> QED
    BY <2>1, <2>2
<1>5. ASSUME NEW j \in reg, j < After(reg, i) PROVE j <= i
  <2>1. j \in Int /\ i \in Int
    BY Constants
  <2> QED
    BY <1>3, <1>4, <1>5, <2>1
<1> QED
  BY <1>2, <1>4, <1>5


(* While there are probes left, a number is left too. *)
LEMMA ProbingFacts ==
    ASSUME IInv, pc = "probe"
    PROVE  /\ enumerator \in Ids /\ enumerator \in registry
           /\ ProbesLeft => /\ probe \in 1 .. Probes[enumerator]
                            /\ probe \in 1 .. 7
                            /\ number[enumerator] \in 1 .. Probes[enumerator]
                            /\ number[enumerator] \in 1 .. 7
<1>1. enumerator \in Ids /\ enumerator \in registry
  BY DEF IInv, NumbersInStep, TypeOK
<1>2. Probes[enumerator] \in 1 .. 7 /\ probe \in 1 .. 8 /\ number[enumerator] \in 1 .. 8
  BY <1>1, Constants DEF IInv, TypeOK
<1>3. number[enumerator] <= probe
  BY <1>1 DEF IInv, NumbersInStep
<1>4. ASSUME ProbesLeft PROVE probe <= Probes[enumerator]
  BY <1>4 DEF ProbesLeft
<1> QED
  BY <1>1, <1>2, <1>3, <1>4

(* The types of the variables *)
LEMMA RegistryTypes == IInv /\ [Next]_vars => (TypeOK /\ DevicesAreSets)'
<1> SUFFICES ASSUME IInv, [Next]_vars PROVE (TypeOK /\ DevicesAreSets)'
  OBVIOUS
<1> USE DEF IInv, TypeOK, DevicesAreSets, Elv, Usb, Ids, End
<1>1. CASE NewInterfaces
  BY <1>1 DEF NewInterfaces
<1>2. CASE OpenInterface
  BY <1>2 DEF OpenInterface, Register
<1>3. CASE OpenFails
  BY <1>3 DEF OpenFails
<1>4. CASE DeviceFound
  <2>1. enumerator \in Ids /\ probe \in 1 .. 7 /\ number[enumerator] \in 1 .. 7
    BY <1>4, ProbingFacts DEF DeviceFound
  <2>2. <<probe, number[enumerator]>> \in (1 .. Probes[enumerator]) \X (1 .. Probes[enumerator])
    BY <1>4, ProbingFacts DEF DeviceFound
  <2>3. number' \in [Ids -> 1 .. 8] /\ probe' \in 1 .. 8
    BY <1>4, <2>1 DEF DeviceFound, TakeNumber
  <2>4. answered' \subseteq Ids \X (1 .. 7)
    BY <1>4, <2>1 DEF DeviceFound
  <2>5. /\ devices' \in [Ids -> SUBSET ((1 .. 7) \X (1 .. 8))]
        /\ \A i \in Ids : devices'[i] \subseteq (1 .. Probes[i]) \X (1 .. Probes[i])
    BY <1>4, <2>1, <2>2 DEF DeviceFound
  <2> QED
    BY <1>4, <2>3, <2>4, <2>5 DEF DeviceFound
<1>5. CASE DeviceRefuses
  <2>1. enumerator \in Ids /\ probe \in 1 .. 7 /\ number[enumerator] \in 1 .. 7
    BY <1>5, ProbingFacts DEF DeviceRefuses
  <2>2. number' \in [Ids -> 1 .. 8] /\ probe' \in 1 .. 8
    BY <1>5, <2>1 DEF DeviceRefuses, TakeNumber
  <2> QED
    BY <1>5, <2>2 DEF DeviceRefuses
<1>6. CASE DeviceAbsent
  <2>1. probe \in 1 .. 7
    BY <1>6, ProbingFacts DEF DeviceAbsent
  <2> QED
    BY <1>6, <2>1 DEF DeviceAbsent
<1>7. CASE ProbesDone
  <2>1. enumerator \in {1, 2}
    BY <1>7, ProbingFacts, Constants DEF ProbesDone
  <2> QED
    BY <1>7, <2>1 DEF ProbesDone
<1>8. CASE Constructed
  <2>1. First(registry) \in Ids \cup {End}
    <3>1. registry \in SUBSET Ids /\ 1 \in 1 .. 3
      OBVIOUS
    <3> HIDE DEF Ids, End
    <3>2. First(registry) \in registry \cup {End}
      BY <3>1, Iterators
    <3> QED
      BY <3>1, <3>2
  <2> QED
    BY <1>8, <2>1 DEF Constructed
<1>9. CASE PruneKeep
  <2>1. After(registry, it) \in Ids \cup {End}
    <3>1. registry \in SUBSET Ids /\ it \in 1 .. 3
      OBVIOUS
    <3> HIDE DEF Ids, End
    <3>2. After(registry, it) \in registry \cup {End}
      BY <3>1, Iterators
    <3> QED
      BY <3>1, <3>2
  <2> QED
    BY <1>9, <2>1 DEF PruneKeep
<1>10. CASE PruneRemove
  <2>1. registry' \in SUBSET Ids
    BY <1>10 DEF PruneRemove
  <2>2. First(registry') \in 1 .. 3
    <3>1. 1 \in 1 .. 3
      OBVIOUS
    <3>2. First(registry') \in registry' \cup {End}
      BY <2>1, <3>1, Iterators
    <3>3. \A i \in registry' \cup {End} : i \in 1 .. 3
      BY <2>1
    <3> QED
      BY <3>2, <3>3
  <2>3. After(registry', First(registry')) \in Ids \cup {End}
    <3>1. After(registry', First(registry')) \in registry' \cup {End}
      BY <2>1, <2>2, Iterators
    <3> QED
      BY <2>1, <3>1
  <2> QED
    BY <1>10, <2>1, <2>3 DEF PruneRemove
<1>11. CASE Pruned
  BY <1>11 DEF Pruned
<1>12. CASE Serve
  BY <1>12 DEF Serve
<1>13. CASE GiveUp
  BY <1>13 DEF GiveUp
<1>14. CASE Unwind
  BY <1>14 DEF Unwind
<1>15. CASE Restart
  BY <1>15 DEF Restart
<1>16. CASE Mended
  BY <1>16 DEF Mended
<1>17. CASE UNCHANGED vars
  BY <1>17 DEF vars, given
<1> QED
  BY <1>1, <1>2, <1>3, <1>4, <1>5, <1>6, <1>7, <1>8, <1>9, <1>10,
     <1>11, <1>12, <1>13, <1>14, <1>15, <1>16, <1>17
     DEF Next, Step

(* The numbers of an interface under every step *)
LEMMA NumbersStayInStep == IInv /\ [Next]_vars => NumbersInStep'
<1> SUFFICES ASSUME IInv, [Next]_vars PROVE NumbersInStep'
  OBVIOUS
<1> USE DEF IInv, NumbersInStep, Unprobed, TypeOK, DevicesAreSets, Elv, Usb, Ids, End
<1>1. CASE NewInterfaces
  BY <1>1 DEF NewInterfaces
<1>2. CASE OpenInterface
  BY <1>2, Constants DEF OpenInterface, Register
<1>3. CASE OpenFails
  BY <1>3 DEF OpenFails
<1>4. CASE DeviceFound
  <2>1. /\ enumerator \in Ids /\ enumerator \in registry
        /\ probe \in 1 .. Probes[enumerator] /\ number[enumerator] \in 1 .. 7
        /\ Probes[enumerator] \in Int
    BY <1>4, ProbingFacts, Constants DEF DeviceFound
  <2>2. /\ pc' = "probe" /\ enumerator' = enumerator /\ registry' = registry
        /\ probe' = probe + 1
        /\ number' = [number EXCEPT ![enumerator] = @ + 1]
        /\ \A i \in Ids : i # enumerator => devices'[i] = devices[i]
        /\ devices'[enumerator] \subseteq devices[enumerator] \cup {<<probe, number[enumerator]>>}
    BY <1>4, <2>1 DEF DeviceFound, TakeNumber
  <2>3. \A i \in Ids : Unprobed(i)' => number'[i] = 1 /\ devices'[i] = {} /\ i \notin registry'
    BY <1>4, <2>1, <2>2 DEF DeviceFound
  <2>4. /\ probe' <= Probes[enumerator] + 1
        /\ number'[enumerator] <= probe'
        /\ enumerator = Elv => number'[enumerator] = probe'
    BY <1>4, <2>1, <2>2 DEF DeviceFound
  <2>5. \A d \in devices'[enumerator] : d[1] < probe' /\ d[2] < number'[enumerator]
    <3>1. /\ \A d \in devices[enumerator] : d[1] < probe /\ d[2] < number[enumerator]
          /\ \A d \in devices[enumerator] : d[1] \in Int /\ d[2] \in Int
      BY <1>4, <2>1 DEF DeviceFound
    <3> QED
      BY <2>1, <2>2, <3>1
  <2> QED
    BY <2>1, <2>2, <2>3, <2>4, <2>5
<1>5. CASE DeviceRefuses
  <2>1. /\ enumerator \in Ids /\ enumerator \in registry
        /\ probe \in 1 .. Probes[enumerator] /\ number[enumerator] \in 1 .. 7
        /\ Probes[enumerator] \in Int
    BY <1>5, ProbingFacts, Constants DEF DeviceRefuses
  <2>2. /\ pc' = "probe" /\ enumerator' = enumerator /\ registry' = registry
        /\ probe' = probe + 1
        /\ number' = [number EXCEPT ![enumerator] = @ + 1]
        /\ \A i \in Ids : i # enumerator => devices'[i] = devices[i]
        /\ devices'[enumerator] = devices[enumerator]
    BY <1>5, <2>1 DEF DeviceRefuses, TakeNumber
  <2>3. \A i \in Ids : Unprobed(i)' => number'[i] = 1 /\ devices'[i] = {} /\ i \notin registry'
    BY <1>5, <2>1, <2>2 DEF DeviceRefuses
  <2>4. /\ probe' <= Probes[enumerator] + 1
        /\ number'[enumerator] <= probe'
        /\ enumerator = Elv => number'[enumerator] = probe'
    BY <1>5, <2>1, <2>2 DEF DeviceRefuses
  <2>5. \A d \in devices'[enumerator] : d[1] < probe' /\ d[2] < number'[enumerator]
    <3>1. /\ \A d \in devices[enumerator] : d[1] < probe /\ d[2] < number[enumerator]
          /\ \A d \in devices[enumerator] : d[1] \in Int /\ d[2] \in Int
      BY <1>5, <2>1 DEF DeviceRefuses
    <3> QED
      BY <2>1, <2>2, <3>1
  <2> QED
    BY <2>1, <2>2, <2>3, <2>4, <2>5
<1>6. CASE DeviceAbsent
  <2>1. /\ enumerator \in Ids /\ enumerator \in registry
        /\ probe \in 1 .. Probes[enumerator] /\ number[enumerator] \in 1 .. 7
        /\ Probes[enumerator] \in Int
    BY <1>6, ProbingFacts, Constants DEF DeviceAbsent
  <2>2. /\ pc' = "probe" /\ enumerator' = enumerator /\ registry' = registry
        /\ probe' = probe + 1
        /\ number' = number
        /\ \A i \in Ids : i # enumerator => devices'[i] = devices[i]
        /\ devices'[enumerator] = devices[enumerator] /\ enumerator # Elv
    BY <1>6, <2>1 DEF DeviceAbsent, TakeNumber
  <2>3. \A i \in Ids : Unprobed(i)' => number'[i] = 1 /\ devices'[i] = {} /\ i \notin registry'
    BY <1>6, <2>1, <2>2 DEF DeviceAbsent
  <2>4. /\ probe' <= Probes[enumerator] + 1
        /\ number'[enumerator] <= probe'
        /\ enumerator = Elv => number'[enumerator] = probe'
    BY <1>6, <2>1, <2>2 DEF DeviceAbsent
  <2>5. \A d \in devices'[enumerator] : d[1] < probe' /\ d[2] < number'[enumerator]
    <3>1. /\ \A d \in devices[enumerator] : d[1] < probe /\ d[2] < number[enumerator]
          /\ \A d \in devices[enumerator] : d[1] \in Int /\ d[2] \in Int
      BY <1>6, <2>1 DEF DeviceAbsent
    <3> QED
      BY <2>1, <2>2, <3>1
  <2> QED
    BY <2>1, <2>2, <2>3, <2>4, <2>5
<1>7. CASE ProbesDone
  BY <1>7, ProbingFacts DEF ProbesDone, TakeNumber
<1>8. CASE Constructed
  BY <1>8 DEF Constructed
<1>9. CASE PruneKeep
  BY <1>9 DEF PruneKeep
<1>10. CASE PruneRemove
  BY <1>10 DEF PruneRemove
<1>11. CASE Pruned
  BY <1>11 DEF Pruned
<1>12. CASE Serve
  BY <1>12 DEF Serve
<1>13. CASE GiveUp
  BY <1>13 DEF GiveUp
<1>14. CASE Unwind
  BY <1>14 DEF Unwind
<1>15. CASE Restart
  BY <1>15 DEF Restart
<1>16. CASE Mended
  BY <1>16 DEF Mended
<1>17. CASE UNCHANGED vars
  BY <1>17 DEF vars, given
<1> QED
  BY <1>1, <1>2, <1>3, <1>4, <1>5, <1>6, <1>7, <1>8, <1>9, <1>10,
     <1>11, <1>12, <1>13, <1>14, <1>15, <1>16, <1>17
     DEF Next, Step

(* Only NewInterfaces leaves the state a generation begins in *)
LEMMA BeginsStayEmpty == IInv /\ [Next]_vars => BeginsEmpty'
<1> SUFFICES ASSUME IInv, [Next]_vars PROVE BeginsEmpty'
  OBVIOUS
<1> USE DEF IInv, BeginsEmpty
<1>1. CASE NewInterfaces
  BY <1>1 DEF NewInterfaces
<1>2. CASE OpenInterface
  BY <1>2 DEF OpenInterface
<1>3. CASE OpenFails
  BY <1>3 DEF OpenFails
<1>4. CASE DeviceFound
  BY <1>4 DEF DeviceFound
<1>5. CASE DeviceRefuses
  BY <1>5 DEF DeviceRefuses
<1>6. CASE DeviceAbsent
  BY <1>6 DEF DeviceAbsent
<1>7. CASE ProbesDone
  BY <1>7 DEF ProbesDone
<1>8. CASE Constructed
  BY <1>8 DEF Constructed
<1>9. CASE PruneKeep
  BY <1>9 DEF PruneKeep
<1>10. CASE PruneRemove
  BY <1>10 DEF PruneRemove
<1>11. CASE Pruned
  BY <1>11 DEF Pruned
<1>12. CASE Serve
  BY <1>12 DEF Serve
<1>13. CASE GiveUp
  BY <1>13 DEF GiveUp
<1>14. CASE Unwind
  BY <1>14 DEF Unwind
<1>15. CASE Restart
  BY <1>15 DEF Restart
<1>16. CASE Mended
  BY <1>16 DEF Mended
<1>17. CASE UNCHANGED vars
  BY <1>17 DEF vars, given
<1> QED
  BY <1>1, <1>2, <1>3, <1>4, <1>5, <1>6, <1>7, <1>8, <1>9, <1>10,
     <1>11, <1>12, <1>13, <1>14, <1>15, <1>16, <1>17
     DEF Next, Step

(* The loop of main under every step *)
LEMMA PruningGoesOn == IInv /\ [Next]_vars => PrunedSoFar'
<1> SUFFICES ASSUME IInv, [Next]_vars PROVE PrunedSoFar'
  OBVIOUS
<1> USE DEF IInv, PrunedSoFar, TypeOK
<1>1. CASE NewInterfaces
  BY <1>1 DEF NewInterfaces
<1>2. CASE OpenInterface
  BY <1>2 DEF OpenInterface
<1>3. CASE OpenFails
  BY <1>3 DEF OpenFails
<1>4. CASE DeviceFound
  BY <1>4 DEF DeviceFound
<1>5. CASE DeviceRefuses
  BY <1>5 DEF DeviceRefuses
<1>6. CASE DeviceAbsent
  BY <1>6 DEF DeviceAbsent
<1>7. CASE ProbesDone
  BY <1>7 DEF ProbesDone
<1>8. CASE Constructed
  <2>1. registry \in SUBSET Ids /\ 1 \in 1 .. 3 /\ registry' = registry /\ it' = First(registry)
    BY <1>8 DEF Constructed
  <2>2. First(registry) \in registry \cup {End} /\ \A j \in registry : First(registry) <= j
    BY <2>1, Iterators
  <2>3. it' \in registry' \cup {End} /\ \A j \in registry' : it' <= j
    BY <2>1, <2>2
  <2>4. it' \in Int /\ \A j \in registry' : j \in Int
    <3>1. it' \in Ids \cup {End} /\ registry' \subseteq Ids
      BY <2>1, <2>2
    <3>2. \A i \in Ids \cup {End} : i \in Int
      BY Constants
    <3> QED
      BY <3>1, <3>2
  <2>5. \A i \in registry' : ~(i < it')
    BY <2>3, <2>4
  <2> QED
    BY <2>3, <2>5
<1>9. CASE PruneKeep
  <2>1. /\ registry \in SUBSET Ids /\ it \in 1 .. 3 /\ registry' = registry
        /\ it' = After(registry, it) /\ devices' = devices /\ devices[it] # {}
    BY <1>9, Constants DEF PruneKeep
  <2>2. it' \in registry' \cup {End} /\ \A j \in registry : j < it' => j <= it
    BY <2>1, Iterators
  <2>3. ASSUME NEW i \in registry, i < it', devices[i] = {}
        PROVE  \A j \in registry : i <= j
    <3>1. i <= it /\ i # it /\ i \in Int /\ it \in Int
      BY <2>1, <2>2, <2>3, Constants
    <3>2. i < it
      BY <3>1
    <3> QED
      BY <3>2, <2>3, <1>9 DEF PruneKeep
  <2> QED
    BY <2>1, <2>2, <2>3
<1>10. CASE PruneRemove
  <2>1. /\ registry' \in SUBSET Ids /\ 1 \in 1 .. 3
        /\ it' = After(registry', First(registry'))
    BY <1>10 DEF PruneRemove
  <2>2. First(registry') \in registry' \cup {End} /\ \A j \in registry' : First(registry') <= j
    BY <2>1, Iterators
  <2>3. First(registry') \in 1 .. 3
    <3>1. \A i \in registry' \cup {End} : i \in 1 .. 3
      BY <2>1, Constants
    <3> QED
      BY <2>2, <3>1
  <2>4. it' \in registry' \cup {End} /\ \A j \in registry' : j < it' => j <= First(registry')
    BY <2>1, <2>3, Iterators
  <2>5. ASSUME NEW i \in registry', i < it' PROVE \A j \in registry' : i <= j
    <3>1. i <= First(registry')
      BY <2>4, <2>5
    <3> QED
      BY <3>1, <2>1, <2>2, <2>3, Constants
  <2> QED
    BY <2>4, <2>5
<1>11. CASE Pruned
  BY <1>11 DEF Pruned
<1>12. CASE Serve
  BY <1>12 DEF Serve
<1>13. CASE GiveUp
  BY <1>13 DEF GiveUp
<1>14. CASE Unwind
  BY <1>14 DEF Unwind
<1>15. CASE Restart
  BY <1>15 DEF Restart
<1>16. CASE Mended
  BY <1>16 DEF Mended
<1>17. CASE UNCHANGED vars
  BY <1>17 DEF vars, given
<1> QED
  BY <1>1, <1>2, <1>3, <1>4, <1>5, <1>6, <1>7, <1>8, <1>9, <1>10,
     <1>11, <1>12, <1>13, <1>14, <1>15, <1>16, <1>17
     DEF Next, Step

(* What one more device, or one more answer, adds to the probes *)
LEMMA OneMoreDevice ==
    ASSUME NEW S, NEW p, NEW n
    PROVE  {d[1] : d \in S \cup {<<p, n>>}} = {d[1] : d \in S} \cup {p}
<1>1. <<p, n>>[1] = p
  OBVIOUS
<1>2. ASSUME NEW d \in S \cup {<<p, n>>} PROVE d[1] \in {e[1] : e \in S} \cup {p}
  BY <1>1, <1>2
<1>3. p \in {d[1] : d \in S \cup {<<p, n>>}}
  BY <1>1
<1>4. ASSUME NEW d \in S PROVE d[1] \in {e[1] : e \in S \cup {<<p, n>>}}
  OBVIOUS
<1> QED
  BY <1>2, <1>3, <1>4

LEMMA OneMoreAnswer ==
    ASSUME NEW S, NEW q, NEW p
    PROVE  {a[2] : a \in S \cup {<<q, p>>}} = {a[2] : a \in S} \cup {p}
<1>1. <<q, p>>[2] = p
  OBVIOUS
<1>2. ASSUME NEW a \in S \cup {<<q, p>>} PROVE a[2] \in {e[2] : e \in S} \cup {p}
  BY <1>1, <1>2
<1>3. p \in {a[2] : a \in S \cup {<<q, p>>}}
  BY <1>1
<1>4. ASSUME NEW a \in S PROVE a[2] \in {e[2] : e \in S \cup {<<q, p>>}}
  OBVIOUS
<1> QED
  BY <1>2, <1>3, <1>4

(* A device that answers finds its interface *)
LEMMA AnswersAreRegistered == IInv /\ [Next]_vars => AnsweredAreRegistered'
<1> SUFFICES ASSUME IInv, [Next]_vars PROVE AnsweredAreRegistered'
  OBVIOUS
<1> USE DEF IInv, AnsweredAreRegistered, TypeOK, DevicesAreSets
<1>1. CASE NewInterfaces
  BY <1>1 DEF NewInterfaces
<1>2. CASE OpenInterface
  BY <1>2 DEF OpenInterface
<1>3. CASE OpenFails
  BY <1>3 DEF OpenFails
<1>4. CASE DeviceFound
  <2>1. enumerator \in Ids /\ ParentFound(enumerator)
    BY <1>4, ProbingFacts DEF DeviceFound, ParentFound
  <2>2. ASSUME NEW i \in Ids
        PROVE  {d[1] : d \in devices'[i]} = {a[2] : a \in {b \in answered' : b[1] = i}}
    <3>1. {d[1] : d \in devices[i]} = {a[2] : a \in {b \in answered : b[1] = i}}
      OBVIOUS
    <3>2. CASE i = enumerator
      <4>1. /\ devices'[i] = devices[i] \cup {<<probe, number[i]>>}
            /\ answered' = answered \cup {<<i, probe>>}
        BY <1>4, <2>1, <3>2 DEF DeviceFound
      <4>2. {d[1] : d \in devices'[i]} = {d[1] : d \in devices[i]} \cup {probe}
        <5>1. {d[1] : d \in devices[i] \cup {<<probe, number[i]>>}}
                = {d[1] : d \in devices[i]} \cup {probe}
          BY OneMoreDevice, Zenon
        <5> QED
          BY <4>1, <5>1, Zenon
      <4>3. {a[2] : a \in {b \in answered' : b[1] = i}}
              = {a[2] : a \in {b \in answered : b[1] = i}} \cup {probe}
        <5> DEFINE T == {b \in answered : b[1] = i}
        <5>1. {b \in answered' : b[1] = i} = T \cup {<<i, probe>>}
          BY <4>1
        <5> HIDE DEF T
        <5>2. {a[2] : a \in T \cup {<<i, probe>>}} = {a[2] : a \in T} \cup {probe}
          <6> HIDE DEF IInv, AnsweredAreRegistered, TypeOK, DevicesAreSets, given
          <6>1. \A S, q, p : {a[2] : a \in S \cup {<<q, p>>}} = {a[2] : a \in S} \cup {p}
            BY OneMoreAnswer
          <6> QED
            BY <6>1, Zenon
        <5>3. {a[2] : a \in {b \in answered' : b[1] = i}} = {a[2] : a \in T} \cup {probe}
          BY <5>1, <5>2, Zenon
        <5> QED
          BY <5>3 DEF T
      <4> QED
        BY <3>1, <4>2, <4>3
    <3>3. CASE i # enumerator
      <4>1. /\ devices'[i] = devices[i]
            /\ answered' = answered \cup {<<enumerator, probe>>}
        BY <1>4, <2>1, <3>3 DEF DeviceFound
      <4> QED
        BY <3>1, <3>3, <4>1
    <3> QED
      BY <3>2, <3>3
  <2> QED
    BY <2>2
<1>5. CASE DeviceRefuses
  BY <1>5 DEF DeviceRefuses
<1>6. CASE DeviceAbsent
  BY <1>6 DEF DeviceAbsent
<1>7. CASE ProbesDone
  BY <1>7 DEF ProbesDone
<1>8. CASE Constructed
  BY <1>8 DEF Constructed
<1>9. CASE PruneKeep
  BY <1>9 DEF PruneKeep
<1>10. CASE PruneRemove
  BY <1>10 DEF PruneRemove
<1>11. CASE Pruned
  BY <1>11 DEF Pruned
<1>12. CASE Serve
  BY <1>12 DEF Serve
<1>13. CASE GiveUp
  BY <1>13 DEF GiveUp
<1>14. CASE Unwind
  BY <1>14 DEF Unwind
<1>15. CASE Restart
  BY <1>15 DEF Restart
<1>16. CASE Mended
  BY <1>16 DEF Mended
<1>17. CASE UNCHANGED vars
  BY <1>17 DEF vars, given
<1> QED
  BY <1>1, <1>2, <1>3, <1>4, <1>5, <1>6, <1>7, <1>8, <1>9, <1>10,
     <1>11, <1>12, <1>13, <1>14, <1>15, <1>16, <1>17
     DEF Next, Step

(* The ids of devices under every step *)
LEMMA IdsStaySound == IInv /\ [Next]_vars => IdsSound'
<1> SUFFICES ASSUME IInv, [Next]_vars PROVE IdsSound'
  OBVIOUS
<1> USE DEF IInv, IdsSound, TypeOK, DevicesAreSets
<1>1. CASE NewInterfaces
  BY <1>1, Constants DEF NewInterfaces
<1>2. CASE OpenInterface
  BY <1>2 DEF OpenInterface
<1>3. CASE OpenFails
  BY <1>3 DEF OpenFails
<1>4. CASE DeviceFound
  <2>1. enumerator \in Ids /\ ParentFound(enumerator)
    BY <1>4, ProbingFacts DEF DeviceFound, ParentFound
  <2>2. /\ \A d \in devices[enumerator] : d[1] < probe /\ d[2] < number[enumerator]
        /\ enumerator = Elv => number[enumerator] = probe
    BY <1>4 DEF DeviceFound, NumbersInStep
  <2>3. /\ devices'[enumerator] = devices[enumerator] \cup {<<probe, number[enumerator]>>}
        /\ \A i \in Ids : i # enumerator => devices'[i] = devices[i]
    BY <1>4, <2>1 DEF DeviceFound
  <2>4. number[enumerator] \in Int /\ \A d \in devices[enumerator] : d[2] \in Int
    BY <2>1
  <2>5. ASSUME NEW i \in Ids, NEW d \in devices'[i], NEW e \in devices'[i], d[2] = e[2]
        PROVE  d = e
    BY <2>2, <2>3, <2>4, <2>5
  <2>6. ASSUME NEW d \in devices'[Elv] PROVE d[1] = d[2]
    BY <2>2, <2>3, <2>6, Constants
  <2> QED
    BY <2>5, <2>6
<1>5. CASE DeviceRefuses
  BY <1>5 DEF DeviceRefuses
<1>6. CASE DeviceAbsent
  BY <1>6 DEF DeviceAbsent
<1>7. CASE ProbesDone
  BY <1>7 DEF ProbesDone
<1>8. CASE Constructed
  BY <1>8 DEF Constructed
<1>9. CASE PruneKeep
  BY <1>9 DEF PruneKeep
<1>10. CASE PruneRemove
  BY <1>10 DEF PruneRemove
<1>11. CASE Pruned
  BY <1>11 DEF Pruned
<1>12. CASE Serve
  BY <1>12 DEF Serve
<1>13. CASE GiveUp
  BY <1>13 DEF GiveUp
<1>14. CASE Unwind
  BY <1>14, Constants DEF Unwind
<1>15. CASE Restart
  BY <1>15 DEF Restart
<1>16. CASE Mended
  BY <1>16 DEF Mended
<1>17. CASE UNCHANGED vars
  BY <1>17 DEF vars, given
<1> QED
  BY <1>1, <1>2, <1>3, <1>4, <1>5, <1>6, <1>7, <1>8, <1>9, <1>10,
     <1>11, <1>12, <1>13, <1>14, <1>15, <1>16, <1>17
     DEF Next, Step

(* All interfaces but the first one are of use: one less than there are. *)
LEMMA AllButTheFirst ==
    ASSUME registry \in SUBSET Ids,
           \A i \in registry : devices[i] = {} => i = Min(registry)
    PROVE  /\ Cardinality(registry) \in Nat
           /\ Cardinality({i \in registry : devices[i] # {}}) \in Nat
           /\ Cardinality({i \in registry : devices[i] # {}}) >= Cardinality(registry) - 1
<1>1. IsFiniteSet(registry)
  <2>1. IsFiniteSet({1} \cup {2})
    BY FS_Singleton, FS_AddElement
  <2>2. registry \in SUBSET ({1} \cup {2})
    BY Constants
  <2> QED
    BY <2>1, <2>2, FS_Subset
<1> DEFINE useful == {i \in registry : devices[i] # {}}
<1>2. /\ IsFiniteSet(registry \ {Min(registry)}) /\ IsFiniteSet(useful)
      /\ Cardinality(registry \ {Min(registry)}) \in {Cardinality(registry), Cardinality(registry) - 1}
  <2>1. useful \in SUBSET registry
    OBVIOUS
  <2> HIDE DEF useful
  <2> QED
    BY <1>1, <2>1, FS_RemoveElement, FS_Subset
<1>3. registry \ {Min(registry)} \in SUBSET useful
  OBVIOUS
<1> HIDE DEF useful
<1>4. Cardinality(registry \ {Min(registry)}) <= Cardinality(useful)
  BY <1>2, <1>3, FS_Subset
<1>5. /\ Cardinality(registry) \in Nat /\ Cardinality(useful) \in Nat
      /\ Cardinality(registry \ {Min(registry)}) \in Nat
  BY <1>1, <1>2, FS_CardinalityType
<1>6. Cardinality(useful) >= Cardinality(registry) - 1
  BY <1>2, <1>4, <1>5
<1> QED
  BY <1>5, <1>6 DEF useful

(* What the loop of main leaves *)
LEMMA ServesStayUseful == IInv /\ [Next]_vars => ServesWithDevices'
<1> SUFFICES ASSUME IInv, [Next]_vars PROVE ServesWithDevices'
  OBVIOUS
<1> USE DEF IInv, ServesWithDevices, TypeOK
<1>1. CASE NewInterfaces
  BY <1>1 DEF NewInterfaces
<1>2. CASE OpenInterface
  BY <1>2 DEF OpenInterface
<1>3. CASE OpenFails
  BY <1>3 DEF OpenFails
<1>4. CASE DeviceFound
  BY <1>4 DEF DeviceFound
<1>5. CASE DeviceRefuses
  BY <1>5 DEF DeviceRefuses
<1>6. CASE DeviceAbsent
  BY <1>6 DEF DeviceAbsent
<1>7. CASE ProbesDone
  BY <1>7 DEF ProbesDone
<1>8. CASE Constructed
  BY <1>8 DEF Constructed
<1>9. CASE PruneKeep
  BY <1>9 DEF PruneKeep
<1>10. CASE PruneRemove
  BY <1>10 DEF PruneRemove
<1>11. CASE Pruned
  <2>1. pc = "prune" /\ pc' = "list" /\ registry' = registry /\ devices' = devices /\ it = End
    BY <1>11 DEF Pruned
  <2>2. ASSUME NEW i \in registry, devices[i] = {}
        PROVE  i = Min(registry)
    <3>1. i < it
      BY <2>1, <2>2, Constants
    <3>2. \A j \in registry : i <= j
      BY <2>1, <2>2, <3>1 DEF PrunedSoFar
    <3>3. registry \in SUBSET (1 .. 3)
      BY Constants
    <3> QED
      BY <3>2, <3>3, MinIs
  <2> QED
    BY <2>1, <2>2
<1>12. CASE Serve
  <2>1. pc = "list" /\ registry' = registry /\ devices' = devices /\ required' = required
    BY <1>12 DEF Serve
  <2>2. Cardinality(registry) >= required
    BY <1>12 DEF Serve, Enough
  <2>3. \A i \in registry : devices[i] = {} => i = Min(registry)
    BY <2>1
  <2>4. /\ Cardinality(registry) \in Nat
        /\ Cardinality({i \in registry : devices[i] # {}}) \in Nat
        /\ Cardinality({i \in registry : devices[i] # {}}) >= Cardinality(registry) - 1
    BY <2>3, AllButTheFirst
  <2>5. Cardinality({i \in registry : devices[i] # {}}) >= required - 1
    BY <2>2, <2>4
  <2> QED
    BY <2>1, <2>3, <2>5
<1>13. CASE GiveUp
  BY <1>13 DEF GiveUp
<1>14. CASE Unwind
  BY <1>14 DEF Unwind
<1>15. CASE Restart
  BY <1>15 DEF Restart
<1>16. CASE Mended
  BY <1>16 DEF Mended
<1>17. CASE UNCHANGED vars
  BY <1>17 DEF vars, given
<1> QED
  BY <1>1, <1>2, <1>3, <1>4, <1>5, <1>6, <1>7, <1>8, <1>9, <1>10,
     <1>11, <1>12, <1>13, <1>14, <1>15, <1>16, <1>17
     DEF Next, Step

(* Only the interface that is being probed gets a device, and only one     *)
(* without devices is removed.                                             *)
LEMMA DevicesStayInRegistry == IInv /\ [Next]_vars => DevicesInRegistry'
<1> SUFFICES ASSUME IInv, [Next]_vars PROVE DevicesInRegistry'
  OBVIOUS
<1> USE DEF IInv, DevicesInRegistry
<1>1. CASE NewInterfaces
  BY <1>1 DEF NewInterfaces
<1>2. CASE OpenInterface
  BY <1>2 DEF OpenInterface, Register
<1>3. CASE DeviceFound
  BY <1>3 DEF DeviceFound, NumbersInStep, DevicesAreSets
<1>4. CASE PruneRemove
  BY <1>4 DEF PruneRemove
<1>5. CASE Unwind
  BY <1>5 DEF Unwind
<1>6. CASE UNCHANGED <<devices, registry>>
  BY <1>6
<1> QED
  BY <1>1, <1>2, <1>3, <1>4, <1>5, <1>6
     DEF Next, Step, OpenFails, DeviceRefuses, DeviceAbsent, ProbesDone, Constructed,
         PruneKeep, Pruned, Serve, GiveUp, Restart, Mended, vars

(* The empty registry of a new process *)
LEMMA BeginsSound == Init => IInv
<1> SUFFICES ASSUME Init PROVE IInv
  OBVIOUS
<1>1. TypeOK /\ DevicesAreSets
  BY Constants DEF Init, TypeOK, DevicesAreSets
<1>2. NumbersInStep /\ BeginsEmpty /\ PrunedSoFar /\ ServesWithDevices /\ DevicesInRegistry
  BY DEF Init, NumbersInStep, Unprobed, BeginsEmpty, PrunedSoFar, ServesWithDevices,
         DevicesInRegistry
<1>3. AnsweredAreRegistered /\ IdsSound
  BY Constants DEF Init, AnsweredAreRegistered, IdsSound
<1> QED
  BY <1>1, <1>2, <1>3 DEF IInv

(* The inductive invariant holds over all generations of the process. *)
THEOREM Invariant == Spec => []IInv
<1>1. Init => IInv
  BY BeginsSound
<1>2. IInv /\ [Next]_vars => IInv'
  <2> SUFFICES ASSUME IInv, [Next]_vars PROVE IInv'
    OBVIOUS
  <2>1. TypeOK' /\ DevicesAreSets'
    BY RegistryTypes
  <2>2. NumbersInStep' /\ BeginsEmpty' /\ PrunedSoFar'
    BY NumbersStayInStep, BeginsStayEmpty, PruningGoesOn
  <2>3. AnsweredAreRegistered' /\ IdsSound' /\ ServesWithDevices'
    BY AnswersAreRegistered, IdsStaySound, ServesStayUseful
  <2>4. DevicesInRegistry'
    BY DevicesStayInRegistry
  <2> QED
    BY <2>1, <2>2, <2>3, <2>4 DEF IInv
<1> QED
  BY <1>1, <1>2, PTL DEF Spec

(* Numbers, probes and iterators stay in the ranges of the C++ objects. *)
THEOREM RegistryTypeCorrect == Spec => []TypeOK
<1>1. IInv => TypeOK
  BY DEF IInv
<1> QED
  BY <1>1, Invariant, PTL

(* Whatever answered a probe of this generation has a device object: no    *)
(* constructor misses its interface in the registry.                       *)
THEOREM AnsweringDevicesAreRegistered == Spec => []AnsweredAreRegistered
<1>1. IInv => AnsweredAreRegistered
  BY DEF IInv
<1> QED
  BY <1>1, Invariant, PTL

(* No two devices of an interface share an id, and an ELV device keeps its *)
(* id whichever of the others answer.                                      *)
THEOREM IdsAreSound == Spec => []IdsSound
<1>1. IInv => IdsSound
  BY DEF IInv
<1> QED
  BY <1>1, Invariant, PTL

(* The loop of main that erases while it iterates misses at most the first *)
(* interface, so option -r N guarantees N - 1 interfaces with devices.     *)
THEOREM ServingHasDevices == Spec => []ServesWithDevices
<1>1. IInv => ServesWithDevices
  BY DEF IInv
<1> QED
  BY <1>1, Invariant, PTL

(* A device that answered its probe is there for the requests of its       *)
(* generation.                                                             *)
THEOREM AnsweringDevicesAreServed == Spec => []AnsweredAreServed
<1>1. IInv => AnsweredAreServed
  <2> SUFFICES ASSUME IInv, NEW a \in answered
               PROVE  a[1] \in registry /\ \E d \in devices[a[1]] : d[1] = a[2]
    BY DEF AnsweredAreServed
  <2>1. a[1] \in Ids
    BY DEF IInv, TypeOK
  <2>2. a[2] \in {x[2] : x \in {b \in answered : b[1] = a[1]}}
    OBVIOUS
  <2>3. a[2] \in {d[1] : d \in devices[a[1]]}
    BY <2>1, <2>2 DEF IInv, AnsweredAreRegistered
  <2>4. PICK d \in devices[a[1]] : d[1] = a[2]
    BY <2>3
  <2>5. a[1] \in registry
    BY <2>1, <2>4 DEF IInv, DevicesInRegistry
  <2> QED
    BY <2>4, <2>5
<1> QED
  BY <1>1, Invariant, PTL

(* The ELV line is held, nobody may open it a second time, and no          *)
(* interface uses it.                                                      *)
ElvOutOfReach == privileged = "no" /\ elvfd = "held" /\ Elv \notin registry

LEMMA ElvStaysOutOfReach == ElvOutOfReach /\ [Next]_vars => ElvOutOfReach'
<1> SUFFICES ASSUME ElvOutOfReach, [Next]_vars PROVE ElvOutOfReach'
  OBVIOUS
<1> USE DEF ElvOutOfReach
<1>1. CASE OpenInterface
  BY <1>1 DEF OpenInterface, Register, CanOpen
<1>2. CASE ~OpenInterface
  BY <1>2 DEF Next, Step, NewInterfaces, OpenFails, DeviceFound, DeviceRefuses, DeviceAbsent,
              ProbesDone, Constructed, PruneKeep, PruneRemove, Pruned, Serve, GiveUp, Unwind,
              Restart, Mended, vars
<1> QED
  BY <1>1, <1>2

(* An unprivileged daemon that loses a generation with the ELV line open   *)
(* never gets the ELV interface back, for any hardware and any sequence of *)
(* restarts.                                                               *)
THEOREM ElvIsLostForGood == Spec => ElvIsLost
<1>1. IInv /\ privileged = "no" /\ elvfd = "held" /\ pc = "construct" => ElvOutOfReach
  BY DEF IInv, BeginsEmpty, ElvOutOfReach
<1>2. ElvOutOfReach => Elv \notin registry
  BY DEF ElvOutOfReach
<1> QED
  BY <1>1, <1>2, Invariant, ElvStaysOutOfReach, PTL DEF Spec, ElvIsLost

-----------------------------------------------------------------------------
(* Ids and the maps that are searched for them *)

(* An id survives its way through a page: printed as one number, sent back *)
(* by a client and taken apart again, it is the same id.                   *)
THEOREM IdRoundTrip == \A id \in IDs : Parsed(Number(id)) = id
<1> SUFFICES ASSUME NEW id \in IDs PROVE Parsed(Number(id)) = id
  OBVIOUS
<1> DEFINE i == id.interface
           d == id.device
           t == id.control_type
           x == id.control_index
<1>1. i \in 0 .. 255 /\ d \in 0 .. 255 /\ t \in 0 .. 255 /\ x \in 0 .. 255
  BY DEF IDs, Byte
<1>2. id = [interface |-> i, device |-> d, control_type |-> t, control_index |-> x]
  BY DEF IDs
<1>3. Number(id) = 16777216 * i + 65536 * d + 256 * t + x
  BY SMT DEF Number
<1> HIDE DEF i, d, t, x
<1> DEFINE n == 16777216 * i + 65536 * d + 256 * t + x
<1>4. n \div 16777216 = i /\ (n \div 65536) % 256 = d /\ (n \div 256) % 256 = t /\ n % 256 = x
  <2>1. n \in Int /\ i \in Int /\ d \in Int /\ t \in Int /\ x \in Int
    BY <1>1, SMT
  <2>2. n \div 16777216 = i
    BY <1>1, <2>1, SMTT(30)
  <2>3. n \div 65536 = 256 * i + d /\ n \div 256 = 65536 * i + 256 * d + t
    BY <1>1, <2>1, SMTT(30)
  <2>4. n % 256 = x
    BY <1>1, <2>1, SMTT(30)
  <2>5. (256 * i + d) % 256 = d /\ (65536 * i + 256 * d + t) % 256 = t
    BY <1>1, <2>1, SMTT(30)
  <2> QED
    BY <2>1, <2>2, <2>3, <2>4, <2>5, SMT
<1> HIDE DEF n
<1>5. /\ Number(id) \div 16777216 = i
      /\ (Number(id) \div 65536) % 256 = d
      /\ (Number(id) \div 256) % 256 = t
      /\ Number(id) % 256 = x
  <2>1. Number(id) = n
    BY <1>3, SMT DEF n
  <2> QED
    BY <1>4, <2>1, SMT
<1> QED
  BY <1>2, <1>5, SMT DEF Parsed, i, d, t, x

(* The maps tell any two ids apart: no two ids have the same number, and    *)
(* operator< is a strict total order, as std::map wants of its keys.       *)
THEOREM IdsAreTotallyOrdered ==
    \A a, b, c \in IDs : /\ Same(a, b) <=> a = b
                         /\ Less(a, b) \/ Less(b, a) \/ a = b
                         /\ ~Less(a, a)
                         /\ Less(a, b) /\ Less(b, c) => Less(a, c)
<1> SUFFICES ASSUME NEW a \in IDs, NEW b \in IDs, NEW c \in IDs
             PROVE  /\ Same(a, b) <=> a = b
                    /\ Less(a, b) \/ Less(b, a) \/ a = b
                    /\ ~Less(a, a)
                    /\ Less(a, b) /\ Less(b, c) => Less(a, c)
  OBVIOUS
<1>1. Number(a) = Number(b) => a = b
  BY IdRoundTrip
<1>2. \A id \in IDs : Number(id) \in Int
  <2> SUFFICES ASSUME NEW id \in IDs PROVE Number(id) \in Int
    OBVIOUS
  <2> DEFINE i == id.interface
             d == id.device
             t == id.control_type
             x == id.control_index
  <2>1. i \in Int /\ d \in Int /\ t \in Int /\ x \in Int
    BY SMT DEF IDs, Byte
  <2>2. Number(id) = 16777216 * i + 65536 * d + 256 * t + x
    BY SMT DEF Number
  <2> HIDE DEF i, d, t, x
  <2> QED
    BY <2>1, <2>2, SMT
<1> QED
  BY <1>1, <1>2, SMT DEF Same, Less

(* find_control, which searches three maps one after another with parts of *)
(* an id, finds an id exactly if one of all the controls has it.           *)
THEOREM FindIsFlat ==
    ASSUME NEW reg, Filed(reg), NEW id \in IDs
    PROVE  HasControl(reg, id) <=> id \in Controls(reg)
<1>1. HasControl(reg, id) => id \in Controls(reg)
  BY DEF HasControl, HasDevice, HasInterface, Controls
<1>2. ASSUME id \in Controls(reg) PROVE HasControl(reg, id)
  <2>1. PICK i \in DOMAIN reg : \E d \in DOMAIN reg[i] : id \in reg[i][d]
    BY <1>2 DEF Controls
  <2>2. PICK d \in DOMAIN reg[i] : id \in reg[i][d]
    BY <2>1
  <2>3. d = DeviceKey(id) /\ i = InterfaceKey(d)
    BY <2>2 DEF Filed
  <2>4. InterfaceKey(DeviceKey(id)) = InterfaceKey(id)
    BY DEF InterfaceKey, DeviceKey, IDs
  <2> QED
    BY <2>2, <2>3, <2>4 DEF HasControl, HasDevice, HasInterface
<1> QED
  BY <1>1, <1>2
===============================================================================
