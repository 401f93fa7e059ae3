------------------------------ MODULE Encodings ------------------------------
(***************************************************************************)
(* The pure functions between what is on a wire and what iocd works with:  *)
(* the ids of interfaces, devices and controls (class ID) and how the      *)
(* three levels of maps are searched for one, the text of the ELV adapter  *)
(* (Util::parse_bytes), and the counts of the light sensor's converter     *)
(* (DeviceTSL2550::adc2count).                                             *)
(***************************************************************************)
EXTENDS Integers, Sequences

CONSTANTS
    Digits,     \* hexadecimal digits that occur in a text
    MaxText     \* bound: the longest text of the properties

ASSUME TextAssumption == Digits \subseteq 0 .. 15 /\ MaxText \in Nat

-----------------------------------------------------------------------------
(* Ids *)

Byte == 0 .. 255

IDs == [interface : Byte, device : Byte, control_type : Byte, control_index : Byte]

(* ID::operator uint32_t *)
Number(id) == 16777216 * id.interface + 65536 * id.device
                + 256 * id.control_type + id.control_index

(* ID::ID(string), after the conversion of the text *)
Parsed(n) == [interface     |-> n \div 16777216,
              device        |-> (n \div 65536) % 256,
              control_type  |-> (n \div 256) % 256,
              control_index |-> n % 256]

(* ID::operator ==, operator <: what the maps are ordered by *)
Same(a, b) == Number(a) = Number(b)
Less(a, b) == Number(a) < Number(b)

(* The key of an interface, and of a device: find_interface and            *)
(* find_device clear what they do not look for.                            *)
InterfaceKey(id) == [id EXCEPT !.device = 0, !.control_type = 0, !.control_index = 0]
DeviceKey(id)    == [id EXCEPT !.control_type = 0, !.control_index = 0]

-----------------------------------------------------------------------------
(* The registry: Interfaces::interfaces, Interface::devices and            *)
(* Device::controls, each a map from ids.  Only the keys of the innermost  *)
(* map matter here: its values are the controls.                           *)

(* The constructors give a device the interface's number and one of its    *)
(* own, and a control both numbers of its device.                          *)
Filed(reg) ==
    \A i \in DOMAIN reg :
        /\ i \in IDs /\ i = InterfaceKey(i)
        /\ \A d \in DOMAIN reg[i] :
              /\ d \in IDs /\ d = DeviceKey(d) /\ InterfaceKey(d) = i
              /\ \A c \in reg[i][d] : c \in IDs /\ DeviceKey(c) = d

(* Interfaces::find_interface, find_device and find_control find one. *)
HasInterface(reg, id) == InterfaceKey(id) \in DOMAIN reg
HasDevice(reg, id)    == HasInterface(reg, id) /\ DeviceKey(id) \in DOMAIN reg[InterfaceKey(id)]
HasControl(reg, id)   == HasDevice(reg, id) /\ id \in reg[InterfaceKey(id)][DeviceKey(id)]

(* All controls there are, as the listing of main walks through them. *)
Controls(reg) ==
    UNION {UNION {reg[i][d] : d \in DOMAIN reg[i]} : i \in DOMAIN reg}

-----------------------------------------------------------------------------
(* Answers of the ELV adapter.  A character is the value of a hexadecimal  *)
(* digit, a delimiter, or something else.  The numbers have two digits, so *)
(* the width of the int they are read into does not matter.                *)

Delimiter  == 16
Other      == 17
Characters == Digits \cup {Delimiter, Other}
Texts      == UNION {[1 .. n -> Characters] : n \in 0 .. MaxText}

(* bytes: what was parsed; number: the value so far of a number that has   *)
(* not ended; open: there is one; stop: a conversion has failed.           *)
Nothing == [bytes |-> <<>>, number |-> 0, open |-> "no", stop |-> "no"]

Push(s) == [s EXCEPT !.bytes  = IF s.open = "yes" THEN Append(@, s.number % 256) ELSE @,
                     !.number = 0, !.open = "no"]

Scan(s, c) ==
    CASE s.stop = "yes" -> s
      [] s.stop = "no" /\ c = Delimiter -> Push(s)
      [] s.stop = "no" /\ c = Other     -> [Push(s) EXCEPT !.stop = "yes"]
      [] OTHER -> [s EXCEPT !.number = 16 * @ + c, !.open = "yes"]

Scanned(text) ==
    LET to[n \in 0 .. Len(text)] == IF n = 0 THEN Nothing ELSE Scan(to[n - 1], text[n])
    IN to[Len(text)]

Bytes_WithLast(text) == Push(Scanned(text)).bytes

(* Util::parse_bytes: a number that the text ends with is dropped, for the *)
(* end of the text is seen before the number is stored.                    *)
Bytes(text) == Scanned(text).bytes

-----------------------------------------------------------------------------
(* The logarithmic converter of the light sensor *)

(* 1 << chord *)
Weight == <<1, 2, 4, 8, 16, 32, 64, 128>>

Chord(b)    == (b % 128) \div 16
Position(b) == b % 16

(* int chordval = 16.5 * ((1 << chord) - 1), which cuts off the half *)
ChordValue(b) == (33 * (Weight[Chord(b) + 1] - 1)) \div 2

Valid(b)    == b >= 128
Overflow(b) == b % 128 = 127
Count(b)    == ChordValue(b) + Position(b) * Weight[Chord(b) + 1]

-----------------------------------------------------------------------------
(* Properties *)

Starts(s, t) == Len(s) <= Len(t) /\ s = SubSeq(t, 1, Len(s))

(* A text that was cut anywhere, between two bytes or inside of one, gives *)
(* the first bytes of the whole text and never a wrong one, so that the    *)
(* number of bytes tells.                                                  *)
CutsArePrefixes ==
    \A text \in Texts : \A n \in 0 .. Len(text) :
        Starts(Bytes(SubSeq(text, 1, n)), Bytes(text))
=============================================================================
