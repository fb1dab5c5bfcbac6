------------------------------- MODULE Device -------------------------------
(***************************************************************************)
(* c10/core/Device.h and Device.cpp: a type of device and an index, made   *)
(* of both or parsed from a string as "cuda:1", and printed again.         *)
(*                                                                         *)
(* A character is a record of its class and, if it is a digit, its value.  *)
(* A run of letters and underscores is one character of class "letters",   *)
(* as the parser only collects them: CPU and CUDA are the two names, and   *)
(* OtherName any other one.  The base of the digits and the widths of      *)
(* int and of DeviceIndex are parameters.                                  *)
(***************************************************************************)
EXTENDS Integers, Sequences, SequencesExt

CONSTANTS
  Base,         \* 10
  IntMax,       \* the greatest int, above which std::stoi() throws
  IndexWidth,   \* number of values of a DeviceIndex: 2^8
  MaxLength,    \* bound on the characters of a string
  NONE,         \* no device or no string yet
  THROWN        \* a check failed and there is no device, type or index

ASSUME BaseAssumption == Base \in Nat \ {0, 1}
ASSUME WidthAssumption ==
  /\ IndexWidth \in Nat \ {0} /\ IndexWidth % 2 = 0
  /\ IntMax \in Nat /\ IndexWidth <= IntMax
  /\ IndexWidth <= 65536   \* the hash has 16 bits for the index
ASSUME LengthAssumption == MaxLength \in Nat

CPU == 0
CUDA == 1
OtherName == 2
DeviceType == {CPU, CUDA}
DeviceIndex == (-(IndexWidth \div 2))..((IndexWidth \div 2) - 1)
Device == [type : DeviceType, index : DeviceIndex]
MakeDevice(type, index) == [type |-> type, index |-> index]
ASSUME NoDeviceAssumption ==
  NONE \notin Device \cup {THROWN} /\ THROWN \notin Device \cup DeviceType

Char(class, value) == [class |-> class, value |-> value]
Letters(name) == Char("letters", name)
Colon == Char("colon", 0)
Sign == Char("other", 0)
Digit(d) == Char("digit", d)
Character ==
  {Letters(name) : name \in {CPU, CUDA, OtherName}} \cup {Colon, Sign}
    \cup {Digit(d) : d \in 0..(Base - 1)}

VARIABLES
  text,     \* the string that the device was made of, if it was
  device

dvars == <<text, device>>

-----------------------------------------------------------------------------
(* The constructors.                                                        *)

validate(d) == d.index >= -1 /\ (d.type = CPU => d.index <= 0)
Checked(d) == IF validate(d) THEN d ELSE THROWN

Start == [state |-> "START", name |-> <<>>, index |-> <<>>]

\* Faulty: a zero may be followed by digits.
ParseStepZeros(p, ch) ==
  CASE p.state = "START" /\ ch = Colon -> [p EXCEPT !.state = "INDEX_START"]
    [] p.state = "START" /\ ch.class = "letters" ->
         [p EXCEPT !.name = Append(@, ch.value)]
    [] p.state \in {"INDEX_START", "INDEX_REST"} /\ ch.class = "digit" ->
         [p EXCEPT !.state = "INDEX_REST", !.index = Append(@, ch.value)]
    [] OTHER -> [p EXCEPT !.state = "ERROR"]

ParseStep(p, ch) ==
  CASE p.state = "START" /\ ch = Colon -> [p EXCEPT !.state = "INDEX_START"]
    [] p.state = "START" /\ ch.class = "letters" ->
         [p EXCEPT !.name = Append(@, ch.value)]
    [] p.state = "INDEX_START" /\ ch.class = "digit" ->
         [p EXCEPT !.state = "INDEX_REST", !.index = <<ch.value>>]
    [] p.state = "INDEX_REST" /\ ch.class = "digit" /\ p.index[1] # 0 ->
         [p EXCEPT !.index = Append(@, ch.value)]
    [] OTHER -> [p EXCEPT !.state = "ERROR"]

\* The state of the parser after each character, by its loop over them.
States(string) ==
  LET state[i \in 0..Len(string)] ==
        IF i = 0 THEN Start ELSE ParseStep(state[i - 1], string[i]) IN
  state

has_error(p) ==
  \/ p.name = <<>>
  \/ p.state = "ERROR"
  \/ p.state = "INDEX_START" /\ p.index = <<>>

\* What is read of a sequence of digits, up to each of them.
NumbersOf(digits) ==
  LET number[i \in 0..Len(digits)] ==
        IF i = 0 THEN 0 ELSE number[i - 1] * Base + digits[i] IN
  number
NumberOf(digits) == NumbersOf(digits)[Len(digits)]

\* static_cast<DeviceIndex>() of an int.
Narrowed(n) ==
  ((n + (IndexWidth \div 2)) % IndexWidth) - (IndexWidth \div 2)

parse_type(name) == IF name \in {<<CPU>>, <<CUDA>>} THEN name[1] ELSE THROWN

\* Device(const std::string&), or THROWN.
Parsed(string) ==
  LET p == States(string)[Len(string)]
      index == IF p.index = <<>> THEN -1 ELSE Narrowed(NumberOf(p.index)) IN
  IF \/ string = <<>> \/ has_error(p)
     \/ NumberOf(p.index) > IntMax \/ parse_type(p.name) = THROWN
  THEN THROWN
  ELSE Checked(MakeDevice(parse_type(p.name), index))

-----------------------------------------------------------------------------
(* Printing.                                                                *)

\* The digits of n, without leading zeros.
Digits[n \in Nat] ==
  IF n < Base THEN <<Digit(n)>> ELSE Append(Digits[n \div Base], Digit(n % Base))
to_string(n) == IF n >= 0 THEN Digits[n] ELSE <<Sign>> \o Digits[-n]

\* Faulty: index 0 is taken for no index.
strPositive(d) ==
  <<Letters(d.type)>> \o (IF d.index > 0 THEN <<Colon>> \o to_string(d.index)
                          ELSE <<>>)

has_index(d) == d.index # -1
str(d) ==
  <<Letters(d.type)>> \o (IF has_index(d) THEN <<Colon>> \o to_string(d.index)
                          ELSE <<>>)

\* What std::hash<Device> hashes.
hash(d) == d.type * 65536 + (d.index % IndexWidth)

-----------------------------------------------------------------------------
(* A program with one device.                                               *)

DeviceInit == text = NONE /\ device = NONE

FromType ==
  /\ device = NONE
  /\ \E d \in Device : device' = Checked(d)
  /\ UNCHANGED text

FromString ==
  /\ device = NONE
  /\ \E string \in BoundedSeq(Character, MaxLength) :
       text' = string /\ device' = Parsed(string)

\* set_index() does not validate.
set_index ==
  /\ device \in Device
  /\ \E index \in DeviceIndex : device' = [device EXCEPT !.index = index]
  /\ text' = NONE

DeviceNext == FromType \/ FromString \/ set_index

DeviceSpec == DeviceInit /\ [][DeviceNext]_dvars

-----------------------------------------------------------------------------
(* Correctness.                                                             *)

\* The number that canonical digits say, which is none for other strings.
IsIndex(string) ==
  /\ string # <<>> /\ \A i \in DOMAIN string : string[i].class = "digit"
  /\ Len(string) > 1 => string[1] # Digit(0)
Said(string) == NumberOf([i \in DOMAIN string |-> string[i].value])
Rest(string) == SubSeq(string, 3, Len(string))

IsDeviceString(string) ==
  /\ string # <<>> /\ string[1] \in {Letters(CPU), Letters(CUDA)}
  /\ Len(string) > 1 =>
       /\ string[2] = Colon /\ IsIndex(Rest(string))
       /\ Said(Rest(string)) <= IntMax
Meant(string) ==
  MakeDevice(string[1].value,
             IF Len(string) = 1 THEN -1 ELSE Narrowed(Said(Rest(string))))

\* A string makes a device if and only if it is a name, alone or followed by
\* a colon and a number without leading zeros, and it makes the device of that
\* name and number, which is narrowed before it is validated and not after
\* (Device.cpp:43, 95, 108).
AcceptsGrammar ==
  text # NONE =>
    device = IF IsDeviceString(text) THEN Checked(Meant(text)) ELSE THROWN

\* The inductive invariant: a text is kept only with what was made of it.
DeviceInv ==
  /\ device \in Device \cup {NONE, THROWN}
  /\ text # NONE => text \in Seq(Character) /\ device = Parsed(text)

\* What a device prints is what makes the same device, and no other one; a
\* device that set_index() made invalid prints what the parser refuses
\* (Device.cpp:111, Device.h:30).
StrIdentifies ==
  device \in Device =>
    /\ Parsed(str(device)) = Checked(device)
    /\ \A d \in Device \ {device} :
         str(d) # str(device) /\ hash(d) # hash(device)

=============================================================================
