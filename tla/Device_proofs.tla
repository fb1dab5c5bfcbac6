---------------------------- MODULE Device_proofs ----------------------------
(***************************************************************************)
(* Theorems about devices and the table of their allocators, for every     *)
(* base of the digits and width of an index, every length of a string, and *)
(* every set of static registrations in every order.                       *)
(***************************************************************************)
EXTENDS AllocatorRegistry, WellFoundedInduction, TLAPS

-----------------------------------------------------------------------------
(* The table of allocators.                                                 *)

Registration ==
  [type : DeviceType, alloc : Allocator \cup {NULL}, priority : 0..MaxPriority]

\* The calls are registrations.
LEMMA CallFacts ==
  ASSUME RegistryTypeOK, NEW i \in DOMAIN calls
  PROVE  calls[i] \in Registration /\ calls[i].priority \in Int
<1>1. calls \in Seq(Registration)
  BY DEF RegistryTypeOK, Registration
<1>2. calls[i] \in Registration
  BY <1>1
<1> QED
  BY <1>2, PriorityAssumption DEF Registration

\* Of two calls, one outranks the other, and each of several but one is
\* outranked.
LEMMA OutranksFacts ==
  ASSUME RegistryTypeOK, NEW i \in DOMAIN calls, NEW j \in DOMAIN calls,
         Outranks(i, j), Outranks(j, i)
  PROVE  i = j
<1>1. i \in Int /\ j \in Int
  BY DEF RegistryTypeOK
<1>2. calls[i].priority \in Int /\ calls[j].priority \in Int
  BY CallFacts
<1> QED
  BY <1>1, <1>2 DEF Outranks

\* A registration takes the place in the table unless a higher one has it.
LEMMA SetAllocatorStep ==
  ASSUME RegistryInv, NEW t \in DeviceType, NEW alloc \in Allocator \cup {NULL},
         NEW priority \in 0..MaxPriority, SetAllocator(t, alloc, priority),
         pending' \subseteq Static
  PROVE  RegistryInv'
<1>0. Len(calls) + 1 \in Nat
  BY DEF RegistryInv, RegistryTypeOK
<1> PICK n \in Nat : n = Len(calls) + 1
  BY <1>0
<1> DEFINE new == [type |-> t, alloc |-> alloc, priority |-> priority]
<1>1. /\ calls \in Seq(Registration) /\ new \in Registration
      /\ calls' = Append(calls, new)
  BY DEF RegistryInv, RegistryTypeOK, Registration, SetAllocator
<1>2. /\ calls' \in Seq(Registration)
      /\ n \in Nat /\ DOMAIN calls = 1..Len(calls) /\ DOMAIN calls' = 1..n
      /\ \A i \in DOMAIN calls : i \in Int /\ i < n /\ calls'[i] = calls[i]
      /\ calls'[n] = new
  BY <1>1
<1>3. /\ \A i \in DOMAIN calls : calls[i].priority \in Int
      /\ priority \in Int /\ \A s \in DeviceType : allocator_priority[s] \in Int
  <2>1. \A i \in DOMAIN calls : calls[i].priority \in Int
    BY CallFacts DEF RegistryInv
  <2>2. \A s \in DeviceType : allocator_priority[s] \in Int
    BY PriorityAssumption DEF RegistryInv, RegistryTypeOK
  <2> QED
    BY <2>1, <2>2, PriorityAssumption
<1>4. /\ Of(t)' = Of(t) \cup {n}
      /\ \A s \in DeviceType \ {t} : Of(s)' = Of(s)
  BY <1>2 DEF Of
<1>5. RegistryTypeOK'
  <2>1. /\ allocator_array' \in [DeviceType -> Allocator \cup {NULL}]
        /\ allocator_priority' \in [DeviceType -> 0..MaxPriority]
    BY DEF RegistryInv, RegistryTypeOK, SetAllocator
  <2> QED
    BY <1>2, <2>1 DEF RegistryTypeOK, Registration
<1>6. ASSUME NEW s \in DeviceType, s # t
      PROVE  \/ /\ Of(s)' = {} /\ allocator_array'[s] = NULL
                /\ allocator_priority'[s] = 0
             \/ \E i \in Of(s)' : Holds(s, i)'
  <2>1. /\ allocator_array'[s] = allocator_array[s]
        /\ allocator_priority'[s] = allocator_priority[s]
    BY <1>6 DEF RegistryInv, RegistryTypeOK, SetAllocator
  <2>2. ASSUME NEW i \in Of(s), Holds(s, i)
        PROVE  Holds(s, i)'
    BY <1>2, <1>4, <1>6, <2>1, <2>2 DEF Holds, Outranks, Of
  <2> QED
    BY <1>4, <1>6, <2>1, <2>2 DEF RegistryInv
<1>7. CASE priority >= allocator_priority[t]
  <2>1. allocator_array'[t] = alloc /\ allocator_priority'[t] = priority
    BY <1>7 DEF RegistryInv, RegistryTypeOK, SetAllocator
  <2>2. ASSUME NEW j \in Of(t)
        PROVE  Outranks(n, j)'
    <3>1. PICK i \in Of(t) : Holds(t, i)
      BY <2>2 DEF RegistryInv
    <3>2. calls[j].priority <= allocator_priority[t]
      BY <1>3, <3>1 DEF Holds, Outranks, Of
    <3>3. /\ j \in DOMAIN calls /\ calls'[j] = calls[j] /\ j < n
          /\ calls'[n].priority = priority
      BY <1>2 DEF Of
    <3>4. calls[j].priority <= priority
      BY <1>3, <1>7, <3>2, <3>3
    <3> QED
      BY <1>2, <1>3, <3>3, <3>4 DEF Outranks
  <2>3. Outranks(n, n)'
    BY <1>2 DEF Outranks
  <2>4. Holds(t, n)'
    <3>1. \A j \in Of(t)' : Outranks(n, j)'
      BY <1>4, <2>2, <2>3
    <3>2. /\ allocator_array'[t] = calls'[n].alloc
          /\ allocator_priority'[t] = calls'[n].priority
      BY <1>2, <2>1
    <3> QED
      BY <3>1, <3>2 DEF Holds
  <2>5. n \in Of(t)'
    BY <1>4
  <2> QED
    BY <1>5, <1>6, <2>4, <2>5 DEF RegistryInv
<1>8. CASE ~(priority >= allocator_priority[t])
  <2>1. UNCHANGED <<allocator_array, allocator_priority>>
    BY <1>8 DEF SetAllocator
  <2>2. PICK i \in Of(t) : Holds(t, i)
    BY <1>3, <1>8 DEF RegistryInv
  <2>3. Outranks(i, n)'
    <3>1. i \in DOMAIN calls /\ calls'[i] = calls[i] /\ calls'[n].priority = priority
      BY <1>2 DEF Of
    <3>2. calls[i].priority = allocator_priority[t]
      BY <2>2 DEF Holds
    <3> QED
      BY <1>3, <1>8, <3>1, <3>2 DEF Outranks
  <2>4. Holds(t, i)'
    <3>1. ASSUME NEW j \in Of(t)
          PROVE  Outranks(i, j)'
      <4>1. /\ i \in DOMAIN calls /\ calls'[i] = calls[i]
            /\ j \in DOMAIN calls /\ calls'[j] = calls[j]
        BY <1>2 DEF Of
      <4> QED
        BY <2>2, <4>1 DEF Holds, Outranks
    <3>2. \A j \in Of(t)' : Outranks(i, j)'
      BY <1>4, <2>3, <3>1
    <3>3. calls'[i] = calls[i]
      BY <1>2 DEF Of
    <3> QED
      BY <2>1, <2>2, <3>2, <3>3 DEF Holds
  <2>5. i \in Of(t)'
    BY <1>4
  <2> QED
    BY <1>5, <1>6, <2>4, <2>5 DEF RegistryInv
<1> QED
  BY <1>7, <1>8

LEMMA InitRegistryInv == RegistryInit => RegistryInv
BY PriorityAssumption DEF RegistryInit, RegistryInv, RegistryTypeOK, Of

LEMMA NextRegistryInv == RegistryInv /\ [RegistryNext]_rvars => RegistryInv'
<1> SUFFICES ASSUME RegistryInv, [RegistryNext]_rvars PROVE RegistryInv'
  OBVIOUS
<1>1. CASE AllocatorRegisterer
  <2>1. PICK r \in pending :
          SetAllocator(r.type, r.alloc, 0) /\ pending' = pending \ {r}
    BY <1>1 DEF AllocatorRegisterer
  <2>2. /\ r.type \in DeviceType /\ r.alloc \in Allocator \cup {NULL}
        /\ 0 \in 0..MaxPriority /\ pending' \subseteq Static
    BY <2>1, StaticAssumption, PriorityAssumption DEF RegistryInv, RegistryTypeOK
  <2> QED
    BY <2>1, <2>2, SetAllocatorStep
<1>2. CASE Call
  BY <1>2, SetAllocatorStep DEF Call, RegistryInv, RegistryTypeOK
<1>3. CASE UNCHANGED rvars
  BY <1>3 DEF rvars, RegistryInv, RegistryTypeOK, Of, Holds, Outranks
<1> QED
  BY <1>1, <1>2, <1>3 DEF RegistryNext

\* Whatever the static objects and the program register, and in whatever
\* order, each type has the last allocator of its highest priority.
THEOREM HighestIsKept == RegistrySpec => []HighestWins
<1>1. RegistryInv => HighestWins
  <2> SUFFICES ASSUME RegistryInv, NEW t \in DeviceType
               PROVE  /\ Of(t) = {} => GetAllocator(t) = NULL
                      /\ \A i \in Of(t) :
                           (\A j \in Of(t) : Outranks(i, j)) =>
                             GetAllocator(t) = calls[i].alloc
    BY DEF HighestWins
  <2>1. CASE Of(t) = {}
    BY <2>1 DEF RegistryInv, GetAllocator
  <2>2. ASSUME NEW i \in Of(t), \A j \in Of(t) : Outranks(i, j)
        PROVE  GetAllocator(t) = calls[i].alloc
    <3>1. PICK k \in Of(t) : Holds(t, k)
      BY <2>2 DEF RegistryInv
    <3>2. i = k
      BY <2>2, <3>1, OutranksFacts DEF Holds, Of, RegistryInv
    <3> QED
      BY <3>1, <3>2 DEF Holds, GetAllocator
  <2> QED
    BY <2>1, <2>2
<1> QED
  BY <1>1, InitRegistryInv, NextRegistryInv, PTL DEF RegistrySpec

-----------------------------------------------------------------------------
(* Loops over a sequence.                                                   *)

\* A set of numbers that has a member has a least one.
LEMMA LeastNat ==
  ASSUME NEW N \in SUBSET Nat, N # {}
  PROVE  \E i \in N : \A j \in N : i <= j
<1>1. PICK i \in N : \A j \in N : ~ (<<j, i>> \in OpToRel(<, Nat))
  BY NatLessThanWellFounded, WFMin
<1>2. \A j \in N : i <= j
  <2> SUFFICES ASSUME NEW j \in N PROVE i <= j
    OBVIOUS
  <2>1. i \in Nat /\ j \in Nat /\ <<j, i>> \in Nat \X Nat
    OBVIOUS
  <2>2. ~ (j < i)
    BY <1>1, <2>1 DEF OpToRel
  <2> QED
    BY <2>1, <2>2
<1> QED
  BY <1>2

\* What holds before a loop, and after a step if it did before it, holds after
\* every step.
LEMMA RangeInduction ==
  ASSUME NEW n \in Nat, NEW Good, 0 \in Good,
         \A i \in 1..n : i - 1 \in Good => i \in Good
  PROVE  \A i \in 0..n : i \in Good
<1> DEFINE Bad == {i \in 0..n : i \notin Good}
<1>1. Bad = {}
  <2> SUFFICES ASSUME Bad # {}
               PROVE  FALSE
    OBVIOUS
  <2>1. Bad \in SUBSET Nat
    OBVIOUS
  <2>2. PICK i \in Bad : \A j \in Bad : i <= j
    BY <2>1, LeastNat
  <2>3. i \in 1..n /\ i - 1 \in 0..n /\ ~ (i <= i - 1)
    BY <2>2
  <2>4. i - 1 \in Good
    BY <2>2, <2>3
  <2> QED
    BY <2>2, <2>3, <2>4
<1> QED
  BY <1>1

\* A run of a loop of n steps, which has a value before and after each.
Run(n, V, first, step, g) ==
  /\ g \in [0..n -> V] /\ g[0] = first
  /\ \A i \in 1..n : g[i] = step[i][g[i - 1]]

\* A loop of n steps from a first value has a value after each step.
LEMMA LoopExists ==
  ASSUME NEW n \in Nat, NEW V, NEW first \in V, NEW step \in [1..n -> [V -> V]]
  PROVE  \E g : Run(n, V, first, step, g)
<1> DEFINE Good == {m \in Nat : \E g : Run(m, V, first, step, g)}
<1>1. 0 \in Good
  <2>1. Run(0, V, first, step, [i \in 0..0 |-> first])
    BY DEF Run
  <2> QED
    BY <2>1
<1>2. ASSUME NEW m \in 1..n, m - 1 \in Good
      PROVE  m \in Good
  <2>1. PICK g : Run(m - 1, V, first, step, g)
    BY <1>2
  <2> DEFINE h == [i \in 0..m |-> IF i = m THEN step[m][g[m - 1]] ELSE g[i]]
  <2>2. g[m - 1] \in V
    BY <2>1 DEF Run
  <2>3. step[m][g[m - 1]] \in V
    BY <2>2
  <2>4. h \in [0..m -> V]
    BY <2>1, <2>3 DEF Run
  <2>5. h[0] = first
    BY <2>1 DEF Run
  <2>6. ASSUME NEW i \in 1..m
        PROVE  h[i] = step[i][h[i - 1]]
    <3>1. i - 1 \in 0..m /\ i - 1 # m /\ h[i - 1] = g[i - 1]
      OBVIOUS
    <3>2. CASE i = m
      BY <3>1, <3>2
    <3>3. CASE i # m
      BY <2>1, <3>1, <3>3 DEF Run
    <3> QED
      BY <3>2, <3>3
  <2>7. Run(m, V, first, step, h)
    <3> HIDE DEF h
    <3> QED
      BY <2>4, <2>5, <2>6 DEF Run
  <2> QED
    BY <2>7
<1>3. n \in Good
  <2>1. \A m \in 1..n : m - 1 \in Good => m \in Good
    BY <1>2
  <2> HIDE DEF Good
  <2>2. \A m \in 0..n : m \in Good
    BY <1>1, <2>1, RangeInduction
  <2> QED
    BY <2>2
<1> QED
  BY <1>3

\* So the loop of the parser has a state after each character.
ParserState ==
  [state : {"START", "INDEX_START", "INDEX_REST", "ERROR"},
   name : Seq({CPU, CUDA, OtherName}), index : Seq(0..(Base - 1))]

LEMMA CharacterFacts ==
  ASSUME NEW ch \in Character
  PROVE  /\ ch.class \in {"letters", "colon", "other", "digit"}
         /\ ch.class = "letters" =>
              ch = Letters(ch.value) /\ ch.value \in {CPU, CUDA, OtherName}
         /\ ch.class = "digit" =>
              ch = Digit(ch.value) /\ ch.value \in 0..(Base - 1)
         /\ ch = Colon <=> ch.class = "colon"
BY DEF Character, Letters, Digit, Colon, Sign, Char

LEMMA ParseStepType ==
  ASSUME NEW p \in ParserState, NEW ch \in Character
  PROVE  ParseStep(p, ch) \in ParserState
<1>1. CASE ch.class = "letters"
  <2>1. Append(p.name, ch.value) \in Seq({CPU, CUDA, OtherName})
    BY <1>1, CharacterFacts DEF ParserState
  <2> QED
    BY <1>1, <2>1, CharacterFacts DEF ParserState, ParseStep
<1>2. CASE ch.class = "digit"
  <2>1. /\ Append(p.index, ch.value) \in Seq(0..(Base - 1))
        /\ <<ch.value>> \in Seq(0..(Base - 1))
    BY <1>2, CharacterFacts DEF ParserState
  <2> QED
    BY <1>2, <2>1, CharacterFacts DEF ParserState, ParseStep
<1>3. CASE ch.class \notin {"letters", "digit"}
  BY <1>3, CharacterFacts DEF ParserState, ParseStep
<1> QED
  BY <1>1, <1>2, <1>3

LEMMA StatesFacts ==
  ASSUME NEW string \in Seq(Character)
  PROVE  /\ \A i \in 0..Len(string) : States(string)[i] \in ParserState
         /\ States(string)[0] = Start
         /\ \A i \in 1..Len(string) :
              States(string)[i] = ParseStep(States(string)[i - 1], string[i])
<1> DEFINE n == Len(string)
           Loop(q) == [i \in 0..n |->
                         IF i = 0 THEN Start ELSE ParseStep(q[i - 1], string[i])]
           step == [i \in 1..n |-> [p \in ParserState |-> ParseStep(p, string[i])]]
<1>1. n \in Nat /\ \A i \in 1..n : string[i] \in Character
  OBVIOUS
<1>2. Start \in ParserState
  BY DEF Start, ParserState
<1>3. step \in [1..n -> [ParserState -> ParserState]]
  BY <1>1, ParseStepType
<1>4. PICK g : Run(n, ParserState, Start, step, g)
  <2>1. n \in Nat
    BY <1>1
  <2> HIDE DEF n, step
  <2> QED
    BY <2>1, <1>2, <1>3, LoopExists
<1>5. ASSUME NEW i \in 1..n
      PROVE  g[i] = ParseStep(g[i - 1], string[i])
  <2>1. g[i - 1] \in ParserState
    BY <1>1, <1>4 DEF Run
  <2> QED
    BY <1>4, <2>1 DEF Run
<1>6. g = Loop(g)
  <2>1. ASSUME NEW i \in 0..n
        PROVE  g[i] = Loop(g)[i]
    BY <1>1, <1>4, <1>5 DEF Run
  <2> HIDE DEF n
  <2> QED
    BY <1>4, <2>1 DEF Run
<1>7. States(string) = Loop(States(string))
  <2>1. \E q : q = Loop(q)
    BY <1>6
  <2> QED
    BY <2>1, Zenon DEF States
<1> DEFINE p == States(string)
           Good == {i \in 0..n : p[i] = g[i]}
<1> HIDE DEF p
<1>8. /\ p[0] = Start
      /\ \A i \in 1..n : p[i] = ParseStep(p[i - 1], string[i])
  BY <1>1, <1>7 DEF p
<1>9. \A i \in 0..n : i \in Good
  <2>1. 0 \in Good
    BY <1>1, <1>4, <1>8 DEF Run
  <2>2. \A i \in 1..n : i - 1 \in Good => i \in Good
    BY <1>1, <1>5, <1>8
  <2> HIDE DEF Good, n
  <2> QED
    BY <1>1, <2>1, <2>2, RangeInduction
<1> QED
  BY <1>4, <1>8, <1>9 DEF p, Run

\* Likewise for the value of the digits up to each of them.
LEMMA NumbersFacts ==
  ASSUME NEW digits \in Seq(0..(Base - 1))
  PROVE  /\ \A i \in 0..Len(digits) : NumbersOf(digits)[i] \in Nat
         /\ NumbersOf(digits)[0] = 0
         /\ \A i \in 1..Len(digits) :
              NumbersOf(digits)[i] = NumbersOf(digits)[i - 1] * Base + digits[i]
<1> DEFINE n == Len(digits)
           Loop(q) == [i \in 0..n |->
                         IF i = 0 THEN 0 ELSE q[i - 1] * Base + digits[i]]
           step == [i \in 1..n |-> [v \in Nat |-> v * Base + digits[i]]]
<1>1. n \in Nat /\ \A i \in 1..n : digits[i] \in Nat
  BY BaseAssumption
<1>2. step \in [1..n -> [Nat -> Nat]]
  <2>1. ASSUME NEW i \in 1..n, NEW v \in Nat
        PROVE  v * Base + digits[i] \in Nat
    BY <1>1, BaseAssumption
  <2> QED
    BY <2>1
<1>3. PICK g : Run(n, Nat, 0, step, g)
  <2>1. n \in Nat
    BY <1>1
  <2> HIDE DEF n, step
  <2> QED
    BY <2>1, <1>2, LoopExists
<1>4. ASSUME NEW i \in 1..n
      PROVE  g[i] = g[i - 1] * Base + digits[i]
  <2>1. g[i - 1] \in Nat
    BY <1>1, <1>3 DEF Run
  <2> QED
    BY <1>3, <2>1 DEF Run
<1>5. g = Loop(g)
  <2>1. ASSUME NEW i \in 0..n
        PROVE  g[i] = Loop(g)[i]
    BY <1>1, <1>3, <1>4 DEF Run
  <2> HIDE DEF n
  <2> QED
    BY <1>3, <2>1 DEF Run
<1>6. NumbersOf(digits) = Loop(NumbersOf(digits))
  <2>1. \E q : q = Loop(q)
    BY <1>5
  <2> QED
    BY <2>1, Zenon DEF NumbersOf
<1> DEFINE p == NumbersOf(digits)
           Good == {i \in 0..n : p[i] = g[i]}
<1> HIDE DEF p
<1>7. /\ p[0] = 0
      /\ \A i \in 1..n : p[i] = p[i - 1] * Base + digits[i]
  BY <1>1, <1>6 DEF p
<1>8. \A i \in 0..n : i \in Good
  <2>1. 0 \in Good
    BY <1>1, <1>3, <1>7 DEF Run
  <2>2. \A i \in 1..n : i - 1 \in Good => i \in Good
    BY <1>1, <1>4, <1>7
  <2> HIDE DEF Good, n
  <2> QED
    BY <1>1, <2>1, <2>2, RangeInduction
<1> QED
  BY <1>3, <1>7, <1>8 DEF p, Run

LEMMA NumberType ==
  ASSUME NEW digits \in Seq(0..(Base - 1))
  PROVE  NumberOf(digits) \in Nat /\ (digits = <<>> => NumberOf(digits) = 0)
BY NumbersFacts DEF NumberOf

-----------------------------------------------------------------------------
(* What the parser makes of a string.                                       *)

\* The values of the m characters after the c-th.
Part(string, c, m) == [j \in 1..m |-> string[c + j].value]

LEMMA PartFacts ==
  ASSUME NEW string \in Seq(Character), NEW c \in Nat, NEW m \in Nat
  PROVE  /\ Part(string, c, m) = <<>> <=> m = 0
         /\ Len(Part(string, c, m)) = m
         /\ \A j \in 1..m : Part(string, c, m)[j] = string[c + j].value
         /\ Append(Part(string, c, m), string[c + m + 1].value)
              = Part(string, c, m + 1)
         /\ <<string[c + 1].value>> = Part(string, c, 1)
<1> DEFINE part == Part(string, c, m)
           longer == Part(string, c, m + 1)
           last == string[c + m + 1].value
           V == {string[c + j].value : j \in 1..m} \cup {last}
<1>1. /\ \A j \in 1..m : part[j] = string[c + j].value
      /\ \A j \in 1..m : longer[j] = string[c + j].value
      /\ longer[m + 1] = last
  <2>1. c + (m + 1) = c + m + 1
    OBVIOUS
  <2> QED
    BY <2>1 DEF Part
<1>2. part \in Seq(V) /\ Len(part) = m
  <2>1. part = [j \in 1..m |-> part[j]]
    BY DEF Part
  <2>2. part \in [1..m -> V]
    BY <1>1, <2>1
  <2> HIDE DEF part, V
  <2> QED
    BY <2>1, <2>2
<1>3. longer \in Seq(V) /\ Len(longer) = m + 1
  <2>1. longer = [j \in 1..(m + 1) |-> longer[j]]
    BY DEF Part
  <2>2. \A j \in 1..(m + 1) : longer[j] \in V
    <3>1. \A j \in 1..(m + 1) : j \in 1..m \/ j = m + 1
      OBVIOUS
    <3> QED
      BY <1>1, <3>1
  <2> HIDE DEF longer, V
  <2>3. longer \in [1..(m + 1) -> V]
    BY <2>1, <2>2
  <2> QED
    BY <2>1, <2>3
<1>4. Append(part, last) = longer
  <2> DEFINE appended == Append(part, last)
  <2>1. last \in V
    OBVIOUS
  <2> HIDE DEF part, longer, V, last
  <2>2. appended \in Seq(V) /\ Len(appended) = m + 1
    BY <1>2, <2>1
  <2>3. ASSUME NEW j \in 1..(m + 1)
        PROVE  appended[j] = longer[j]
    <3>1. CASE j = m + 1
      BY <1>1, <1>2, <2>1, <3>1
    <3>2. CASE j # m + 1
      <4>1. j \in 1..m
        BY <3>2
      <4>2. appended[j] = part[j]
        BY <1>2, <2>1, <4>1
      <4> QED
        BY <1>1, <4>1, <4>2
    <3> QED
      BY <3>1, <3>2
  <2> HIDE DEF appended
  <2>4. /\ appended = [j \in 1..(m + 1) |-> appended[j]]
        /\ longer = [j \in 1..(m + 1) |-> longer[j]]
    BY <1>3, <2>2
  <2>5. appended = longer
    BY <2>3, <2>4
  <2> QED
    BY <2>5 DEF appended
<1>5. <<string[c + 1].value>> = Part(string, c, 1)
  BY DEF Part
<1>6. part = <<>> <=> m = 0
  BY <1>2
<1> QED
  BY <1>1, <1>2, <1>4, <1>5, <1>6

\* The inductive invariant of the parser: what its state says of the first i
\* characters, unless it is an error.
Shape(string, i) ==
  LET p == States(string)[i] IN
  /\ p.state = "START" =>
       /\ \A j \in 1..i : string[j].class = "letters"
       /\ p.name = Part(string, 0, i) /\ p.index = <<>>
  /\ p.state = "INDEX_START" =>
       /\ i >= 1 /\ string[i] = Colon
       /\ \A j \in 1..(i - 1) : string[j].class = "letters"
       /\ p.name = Part(string, 0, i - 1) /\ p.index = <<>>
  /\ p.state = "INDEX_REST" =>
       \E c \in 1..(i - 1) :
         /\ string[c] = Colon
         /\ \A j \in 1..(c - 1) : string[j].class = "letters"
         /\ \A j \in 1..(i - c) : string[c + j].class = "digit"
         /\ i - c > 1 => string[c + 1].value # 0
         /\ p.name = Part(string, 0, c - 1) /\ p.index = Part(string, c, i - c)

LEMMA ShapeHolds ==
  ASSUME NEW string \in Seq(Character), NEW k \in 0..Len(string)
  PROVE  Shape(string, k)
<1> DEFINE n == Len(string)
           Good == {i \in 0..n : Shape(string, i)}
<1>1. 0 \in Good
  <2>1. Shape(string, 0)
    <3>1. /\ States(string)[0].state = "START" /\ States(string)[0].name = <<>>
          /\ States(string)[0].index = <<>>
      BY StatesFacts DEF Start
    <3>2. Part(string, 0, 0) = <<>>
      BY PartFacts
    <3> QED
      BY <3>1, <3>2 DEF Shape
  <2> QED
    BY <2>1
<1>2. ASSUME NEW i \in 1..n, i - 1 \in Good
      PROVE  i \in Good
  <2> DEFINE p == States(string)[i - 1]
             q == States(string)[i]
             ch == string[i]
  <2>1. /\ p \in ParserState /\ ch \in Character /\ q = ParseStep(p, ch)
        /\ Shape(string, i - 1)
    BY <1>2, StatesFacts
  <2>2. CASE p.state = "START" /\ ch = Colon
    <3>1. q = [p EXCEPT !.state = "INDEX_START"]
      <4>1. ch.class # "letters" /\ ch.class # "digit"
        BY <2>1, <2>2, CharacterFacts
      <4> HIDE DEF p, q, ch
      <4> QED
        BY <2>1, <2>2, <4>1 DEF ParseStep
    <3>2. q.state = "INDEX_START" /\ q.name = p.name /\ q.index = p.index
      BY <2>1, <3>1 DEF ParserState
    <3> HIDE DEF p, q
    <3>3. Shape(string, i)
      BY <2>1, <2>2, <3>2 DEF Shape, p, q
    <3> QED
      BY <3>3
  <2>3. CASE p.state = "START" /\ ch.class = "letters"
    <3>1. ch # Colon
      BY <2>1, <2>3, CharacterFacts
    <3>2. q = [p EXCEPT !.name = Append(@, ch.value)]
      BY <2>1, <2>3, <3>1 DEF ParseStep
    <3>3. q.state = "START" /\ q.name = Append(p.name, ch.value) /\ q.index = p.index
      BY <2>1, <2>3, <3>2 DEF ParserState
    <3>4. /\ \A j \in 1..(i - 1) : string[j].class = "letters"
          /\ p.name = Part(string, 0, i - 1) /\ p.index = <<>>
      BY <2>1, <2>3 DEF Shape
    <3>5. Append(Part(string, 0, i - 1), ch.value) = Part(string, 0, i)
      <4>1. PICK m \in Nat : m = i - 1
        OBVIOUS
      <4>2. 0 + m + 1 = i /\ m + 1 = i
        BY <4>1
      <4>3. Append(Part(string, 0, m), string[0 + m + 1].value)
              = Part(string, 0, m + 1)
        BY PartFacts
      <4> QED
        BY <4>1, <4>2, <4>3
    <3>6. \A j \in 1..i : string[j].class = "letters"
      BY <2>3, <3>4
    <3> HIDE DEF p, q
    <3>7. Shape(string, i)
      BY <3>3, <3>4, <3>5, <3>6 DEF Shape, q
    <3> QED
      BY <3>7
  <2>4. CASE p.state = "INDEX_START" /\ ch.class = "digit"
    <3>1. q = [p EXCEPT !.state = "INDEX_REST", !.index = <<ch.value>>]
      BY <2>1, <2>4 DEF ParseStep
    <3>2. q.state = "INDEX_REST" /\ q.name = p.name /\ q.index = <<ch.value>>
      BY <2>1, <3>1 DEF ParserState
    <3>3. /\ i - 1 >= 1 /\ string[i - 1] = Colon
          /\ \A j \in 1..(i - 1 - 1) : string[j].class = "letters"
          /\ p.name = Part(string, 0, i - 1 - 1)
      BY <2>1, <2>4 DEF Shape
    <3>4. PICK c \in 1..(i - 1) : c = i - 1
      BY <3>3
    <3>5. /\ i - c = 1 /\ c + 1 = i /\ c \in Nat /\ c - 1 = i - 1 - 1
          /\ \A j \in 1..(i - c) : j = 1
      BY <3>4
    <3>6. <<ch.value>> = Part(string, c, i - c)
      BY <3>5, PartFacts
    <3> HIDE DEF p, q
    <3>7. /\ string[c] = Colon
          /\ \A j \in 1..(c - 1) : string[j].class = "letters"
          /\ \A j \in 1..(i - c) : string[c + j].class = "digit"
          /\ i - c > 1 => string[c + 1].value # 0
          /\ q.name = Part(string, 0, c - 1) /\ q.index = Part(string, c, i - c)
      BY <2>4, <3>2, <3>3, <3>4, <3>5, <3>6
    <3>8. Shape(string, i)
      BY <3>2, <3>7 DEF Shape, q
    <3> QED
      BY <3>8
  <2>5. CASE p.state = "INDEX_REST" /\ ch.class = "digit" /\ p.index[1] # 0
    <3>1. q = [p EXCEPT !.index = Append(@, ch.value)]
      BY <2>1, <2>5 DEF ParseStep
    <3>2. /\ q.state = "INDEX_REST" /\ q.name = p.name
          /\ q.index = Append(p.index, ch.value)
      BY <2>1, <2>5, <3>1 DEF ParserState
    <3>3. PICK c \in 1..(i - 1 - 1) :
            /\ string[c] = Colon
            /\ \A j \in 1..(c - 1) : string[j].class = "letters"
            /\ \A j \in 1..(i - 1 - c) : string[c + j].class = "digit"
            /\ p.name = Part(string, 0, c - 1)
            /\ p.index = Part(string, c, i - 1 - c)
      BY <2>1, <2>5 DEF Shape
    <3>4. PICK m \in Nat : m = i - 1 - c
      BY <3>3
    <3>5. c \in Nat /\ c \in 1..(i - 1) /\ c + m + 1 = i /\ m + 1 = i - c /\ 1 \in 1..m
      BY <3>4
    <3>6. Append(Part(string, c, m), ch.value) = Part(string, c, i - c)
      BY <3>5, PartFacts
    <3>7. string[c + 1].value # 0
      <4>1. Part(string, c, m)[1] = string[c + 1].value
        BY <3>5, PartFacts
      <4> QED
        BY <2>5, <3>3, <3>4, <4>1
    <3>8. \A j \in 1..(i - c) : string[c + j].class = "digit"
      <4> SUFFICES ASSUME NEW j \in 1..(i - c)
                   PROVE  string[c + j].class = "digit"
        OBVIOUS
      <4>1. CASE j = m + 1
        <5>1. c + j = i
          BY <3>5, <4>1
        <5> QED
          BY <2>5, <5>1
      <4>2. CASE j # m + 1
        <5>1. j \in 1..m
          BY <3>5, <4>2
        <5>2. \A l \in 1..m : string[c + l].class = "digit"
          BY <3>3, <3>4
        <5> QED
          BY <5>1, <5>2
      <4> QED
        BY <4>1, <4>2
    <3> HIDE DEF p, q
    <3>9. q.name = Part(string, 0, c - 1) /\ q.index = Part(string, c, i - c)
      BY <3>2, <3>3, <3>4, <3>6
    <3>10. Shape(string, i)
      BY <3>2, <3>3, <3>5, <3>7, <3>8, <3>9 DEF Shape, q
    <3> QED
      BY <3>10
  <2>6. CASE ~ \/ p.state = "START" /\ ch = Colon
               \/ p.state = "START" /\ ch.class = "letters"
               \/ p.state = "INDEX_START" /\ ch.class = "digit"
               \/ p.state = "INDEX_REST" /\ ch.class = "digit" /\ p.index[1] # 0
    <3>1. q = [p EXCEPT !.state = "ERROR"]
      BY <2>1, <2>6 DEF ParseStep
    <3>2. q.state = "ERROR"
      BY <2>1, <3>1 DEF ParserState
    <3>3. Shape(string, i)
      BY <3>2 DEF Shape
    <3> QED
      BY <3>3
  <2> QED
    BY <2>2, <2>3, <2>4, <2>5, <2>6
<1>3. \A i \in 1..n : i - 1 \in Good => i \in Good
  BY <1>2
<1>4. k \in Good
  <2> HIDE DEF Good
  <2> QED
    BY <1>1, <1>3, RangeInduction
<1> QED
  BY <1>4

\* The rest of a string, behind a name and a colon.
LEMMA RestFacts ==
  ASSUME NEW string \in Seq(Character), Len(string) > 1
  PROVE  /\ Len(string) - 2 \in Nat
         /\ Rest(string) \in Seq(Character)
         /\ Len(Rest(string)) = Len(string) - 2
         /\ \A j \in 1..(Len(string) - 2) : Rest(string)[j] = string[2 + j]
         /\ Said(Rest(string)) = NumberOf(Part(string, 2, Len(string) - 2))
<1>1. Len(string) \in Nat /\ Len(string) - 2 \in Nat
  OBVIOUS
<1>2. PICK m \in Nat : m = Len(string) - 2
  BY <1>1
<1> DEFINE rest == Rest(string)
<1>3. /\ rest \in Seq(Character) /\ Len(rest) = m
      /\ \A j \in 1..m : rest[j] = string[2 + j]
  <2>1. rest = SubSeq(string, 3, m + 2)
    BY <1>1, <1>2 DEF Rest
  <2>2. rest = [j \in 1..m |-> string[2 + j]]
    BY <1>1, <1>2, <2>1
  <2>3. \A j \in 1..m : string[2 + j] \in Character
    BY <1>1, <1>2
  <2> HIDE DEF rest
  <2> QED
    BY <2>2, <2>3
<1>4. [j \in DOMAIN rest |-> rest[j].value] = Part(string, 2, m)
  <2> HIDE DEF rest
  <2>1. DOMAIN rest = 1..m
    BY <1>3
  <2> QED
    BY <1>3, <2>1 DEF Part
<1> QED
  BY <1>1, <1>2, <1>3, <1>4 DEF Said

\* The parser reads the name and the digits of a string that says a device.
LEMMA AcceptedStates ==
  ASSUME NEW string \in Seq(Character), IsDeviceString(string),
         NEW p, p = States(string)[Len(string)]
  PROVE  /\ string[1].value \in DeviceType /\ p.name = <<string[1].value>>
         /\ Len(string) = 1 => p.state = "START" /\ p.index = <<>>
         /\ Len(string) > 1 =>
              /\ p.state = "INDEX_REST" /\ p.index # <<>>
              /\ p.index = Part(string, 2, Len(string) - 2)
<1> DEFINE n == Len(string)
           t == string[1].value
<1>1. n \in Nat /\ n >= 1 /\ string[1] \in {Letters(CPU), Letters(CUDA)}
  BY DEF IsDeviceString
<1>2. t \in DeviceType /\ string[1] = Letters(t)
  BY <1>1 DEF Letters, Char, DeviceType
<1>3. /\ States(string)[1] = ParseStep(Start, string[1])
      /\ States(string)[1] = [state |-> "START", name |-> <<t>>, index |-> <<>>]
  <2>1. States(string)[1] = ParseStep(Start, string[1])
    BY <1>1, StatesFacts
  <2>2. /\ string[1] # Colon /\ string[1].class = "letters"
        /\ Start.name = <<>> /\ Append(Start.name, t) = <<t>>
    BY <1>2 DEF Letters, Char, Colon, Start
  <2>3. ParseStep(Start, string[1]) = [Start EXCEPT !.name = Append(@, t)]
    BY <2>2 DEF ParseStep, Start
  <2> QED
    BY <2>1, <2>2, <2>3 DEF Start
<1>4. CASE n = 1
  BY <1>2, <1>3, <1>4
<1>5. CASE n > 1
  <2>1. string[2] = Colon /\ IsIndex(Rest(string)) /\ 2 \in 1..n
    BY <1>1, <1>5 DEF IsDeviceString
  <2>2. States(string)[2] = [state |-> "INDEX_START", name |-> <<t>>, index |-> <<>>]
    <3>1. States(string)[2] = ParseStep(States(string)[2 - 1], string[2])
      BY <2>1, StatesFacts
    <3>2. ParseStep(States(string)[1], Colon)
            = [States(string)[1] EXCEPT !.state = "INDEX_START"]
      <4>1. States(string)[1].state = "START"
        BY <1>3
      <4>2. Colon.class = "colon"
        BY DEF Colon, Char
      <4> QED
        BY <4>1, <4>2 DEF ParseStep
    <3> QED
      BY <1>3, <2>1, <3>1, <3>2
  <2>3. /\ n - 2 \in Nat /\ n - 2 > 0
        /\ \A j \in 1..(n - 2) : string[2 + j].class = "digit"
        /\ n - 2 > 1 => string[3] # Digit(0)
    <3> DEFINE rest == Rest(string)
    <3>1. /\ n - 2 \in Nat /\ rest \in Seq(Character) /\ Len(rest) = n - 2
          /\ \A j \in 1..(n - 2) : rest[j] = string[2 + j]
      BY <1>5, RestFacts
    <3> HIDE DEF rest
    <3>2. rest # <<>> /\ \A j \in DOMAIN rest : rest[j].class = "digit"
            /\ (Len(rest) > 1 => rest[1] # Digit(0))
      BY <2>1 DEF IsIndex, rest
    <3>3. DOMAIN rest = 1..(n - 2) /\ n - 2 # 0
      BY <3>1, <3>2
    <3>4. \A j \in 1..(n - 2) : string[2 + j].class = "digit"
      BY <3>1, <3>2, <3>3
    <3>5. n - 2 > 1 => string[3] # Digit(0)
      <4>1. n - 2 > 1 => 1 \in 1..(n - 2) /\ 2 + 1 = 3
        BY <3>1
      <4> QED
        BY <3>1, <3>2, <4>1
    <3> QED
      BY <3>1, <3>3, <3>4, <3>5
  <2> DEFINE State(i) == [state |-> "INDEX_REST", name |-> <<t>>,
                          index |-> Part(string, 2, i - 2)]
             Good == {i \in 0..n : i >= 3 => States(string)[i] = State(i)}
  <2>4. 0 \in Good
    BY <1>1
  <2>5. ASSUME NEW i \in 1..n, i - 1 \in Good
        PROVE  i \in Good
    <3>1. CASE i < 3
      BY <3>1
    <3>2. CASE i = 3
      <4>1. 3 \in 1..n /\ 3 - 1 = 2 /\ 3 - 2 = 1 /\ 2 + 1 = 3 /\ 1 \in 1..(n - 2)
        BY <2>3
      <4>2. States(string)[3] = ParseStep(States(string)[2], string[3])
        BY <4>1, StatesFacts
      <4>3. string[3].class = "digit"
        BY <2>3, <4>1
      <4>4. ParseStep(States(string)[2], string[3])
              = [States(string)[2] EXCEPT !.state = "INDEX_REST",
                                          !.index = <<string[3].value>>]
        BY <2>2, <4>3 DEF ParseStep, Colon, Char
      <4>5. <<string[3].value>> = Part(string, 2, 1)
        <5>1. <<string[2 + 1].value>> = Part(string, 2, 1)
          BY <4>1, PartFacts
        <5> QED
          BY <4>1, <5>1
      <4>6. States(string)[3]
              = [state |-> "INDEX_REST", name |-> <<t>>, index |-> <<string[3].value>>]
        <5> DEFINE q == States(string)[3]
        <5>1. States(string)[2] \in ParserState /\ q \in ParserState
          BY <2>1, <4>1, StatesFacts
        <5>2. /\ q.state = "INDEX_REST" /\ q.name = <<t>>
              /\ q.index = <<string[3].value>>
          <6>1. PICK r \in ParserState : r = States(string)[2] /\ r.name = <<t>>
            BY <2>2, <5>1
          <6>2. q = [r EXCEPT !.state = "INDEX_REST", !.index = <<string[3].value>>]
            BY <4>2, <4>4, <6>1
          <6> HIDE DEF q
          <6> QED
            BY <6>1, <6>2 DEF ParserState
        <5> HIDE DEF q, t
        <5> QED
          BY <5>1, <5>2 DEF ParserState, q
      <4>7. States(string)[3] = State(3)
        BY <4>1, <4>5, <4>6
      <4> QED
        BY <3>2, <4>7
    <3>3. CASE i > 3
      <4>1. PICK m \in Nat : m = i - 1 - 2
        BY <3>3
      <4>2. /\ m >= 1 /\ 2 + m + 1 = i /\ m + 1 = i - 2 /\ n - 2 > 1
            /\ m + 1 \in 1..(n - 2) /\ 1 \in 1..(n - 2) /\ 2 + (m + 1) = i /\ 2 + 1 = 3
        BY <3>3, <4>1
      <4>3. States(string)[i - 1] = State(i - 1)
        BY <2>5, <3>3
      <4>4. string[i].class = "digit" /\ string[3].class = "digit" /\ string[3] # Digit(0)
        BY <2>3, <4>2
      <4>5. string[3].value # 0
        <5>1. string[3] \in Character
          BY <4>2
        <5> QED
          BY <4>4, <5>1, CharacterFacts
      <4>6. Part(string, 2, m)[1] = string[3].value
        BY <4>2, PartFacts
      <4>7. Append(Part(string, 2, m), string[i].value) = Part(string, 2, i - 2)
        <5>1. Append(Part(string, 2, m), string[2 + m + 1].value) = Part(string, 2, m + 1)
          BY PartFacts
        <5> QED
          BY <4>2, <5>1
      <4>8. States(string)[i] = ParseStep(State(i - 1), string[i])
        BY <4>3, StatesFacts
      <4>9. ParseStep(State(i - 1), string[i])
              = [State(i - 1) EXCEPT !.index = Append(@, string[i].value)]
        <5>1. State(i - 1).state = "INDEX_REST" /\ State(i - 1).index[1] # 0
          BY <4>1, <4>5, <4>6
        <5> HIDE DEF State
        <5> QED
          BY <4>4, <5>1 DEF ParseStep, Colon, Char
      <4>10. States(string)[i] = State(i)
        BY <4>1, <4>7, <4>8, <4>9
      <4> QED
        BY <4>10
    <3> QED
      BY <3>1, <3>2, <3>3
  <2>6. \A i \in 1..n : i - 1 \in Good => i \in Good
    BY <2>5
  <2>7. n \in Good
    <3> HIDE DEF Good
    <3>1. \A i \in 0..n : i \in Good
      BY <1>1, <2>4, <2>6, RangeInduction
    <3> QED
      BY <1>1, <3>1
  <2>8. p = State(n)
    BY <2>3, <2>7
  <2>9. Part(string, 2, n - 2) # <<>>
    BY <2>3, PartFacts
  <2>10. /\ p.state = "INDEX_REST" /\ p.name = <<t>>
         /\ p.index = Part(string, 2, n - 2)
    BY <2>8
  <2>11. n # 1
    <3> HIDE DEF n
    <3> QED
      BY <1>1, <1>5
  <2> QED
    BY <1>2, <2>9, <2>10, <2>11
<1>6. n = 1 \/ n > 1
  <2> HIDE DEF n
  <2> QED
    BY <1>1
<1> QED
  BY <1>4, <1>5, <1>6

\* A string that the parser does not refuse says a device.
LEMMA OnlyAccepted ==
  ASSUME NEW string \in Seq(Character), string # <<>>,
         NEW p, p = States(string)[Len(string)],
         ~has_error(p), NumberOf(p.index) <= IntMax, parse_type(p.name) # THROWN
  PROVE  IsDeviceString(string)
<1> DEFINE n == Len(string)
<1>1. n \in Nat /\ n >= 1 /\ p \in ParserState /\ Shape(string, n)
  BY StatesFacts, ShapeHolds
<1>2. PICK t \in DeviceType : p.name = <<t>>
  BY DEF parse_type, DeviceType
<1>3. Len(p.name) = 1 /\ p.name[1] = t
  BY <1>2
<1>4. CASE p.state = "START"
  <2>1. p.name = Part(string, 0, n) /\ \A j \in 1..n : string[j].class = "letters"
    BY <1>1, <1>4 DEF Shape
  <2>2. n = 1
    BY <1>1, <1>3, <2>1, PartFacts
  <2>3. string[1].value = t /\ string[1].class = "letters"
    <3>1. 1 \in 1..n /\ 0 + 1 = 1
      BY <2>2
    <3>2. Part(string, 0, n)[1] = string[0 + 1].value
      BY <1>1, <3>1, PartFacts
    <3> QED
      BY <1>3, <2>1, <3>1, <3>2
  <2>4. string[1] = Letters(t)
    BY <1>1, <2>3, CharacterFacts
  <2> QED
    BY <2>2, <2>4 DEF IsDeviceString, DeviceType
<1>5. CASE p.state = "INDEX_START"
  BY <1>1, <1>5 DEF Shape, has_error
<1>6. CASE p.state = "INDEX_REST"
  <2>1. PICK c \in 1..(n - 1) :
          /\ string[c] = Colon
          /\ \A j \in 1..(c - 1) : string[j].class = "letters"
          /\ \A j \in 1..(n - c) : string[c + j].class = "digit"
          /\ n - c > 1 => string[c + 1].value # 0
          /\ p.name = Part(string, 0, c - 1) /\ p.index = Part(string, c, n - c)
    BY <1>1, <1>6 DEF Shape
  <2>2. c = 2
    <3>1. PICK m \in Nat : m = c - 1
      OBVIOUS
    <3>2. Len(Part(string, 0, m)) = m
      BY PartFacts
    <3>3. m = 1
      BY <1>3, <2>1, <3>1, <3>2
    <3> QED
      BY <3>1, <3>3
  <2>3. string[1].value = t /\ string[1].class = "letters"
    <3>1. 1 \in 1..(c - 1) /\ 0 + 1 = 1 /\ c - 1 \in Nat
      BY <2>2
    <3>2. Part(string, 0, c - 1)[1] = string[0 + 1].value
      BY <3>1, PartFacts
    <3> QED
      BY <1>3, <2>1, <3>1, <3>2
  <2>4. string[1] = Letters(t)
    BY <1>1, <2>3, CharacterFacts
  <2>5. n > 1 /\ n - 2 > 0
    BY <2>2
  <2> DEFINE rest == Rest(string)
  <2>6. /\ n - 2 \in Nat /\ rest \in Seq(Character) /\ Len(rest) = n - 2
        /\ \A j \in 1..(n - 2) : rest[j] = string[2 + j]
        /\ Said(rest) = NumberOf(Part(string, 2, n - 2))
    BY <2>5, RestFacts
  <2> HIDE DEF rest
  <2>7. Said(rest) <= IntMax
    BY <2>1, <2>2, <2>6
  <2>8. IsIndex(rest)
    <3>1. DOMAIN rest = 1..(n - 2) /\ rest # <<>>
      BY <2>5, <2>6
    <3>2. \A j \in 1..(n - 2) : rest[j].class = "digit"
      BY <2>1, <2>2, <2>6
    <3>3. Len(rest) > 1 => rest[1] # Digit(0)
      <4> SUFFICES ASSUME Len(rest) > 1
                   PROVE  rest[1] # Digit(0)
        OBVIOUS
      <4>1. 1 \in 1..(n - 2) /\ 2 + 1 = 3 /\ n - c > 1
        BY <2>2, <2>6
      <4>2. rest[1] = string[3] /\ string[3].value # 0
        BY <2>1, <2>2, <2>6, <4>1
      <4> QED
        BY <4>2 DEF Digit, Char
    <3> QED
      BY <3>1, <3>2, <3>3 DEF IsIndex
  <2> QED
    BY <2>1, <2>2, <2>4, <2>7, <2>8 DEF IsDeviceString, DeviceType, rest
<1> QED
  BY <1>1, <1>4, <1>5, <1>6 DEF ParserState, has_error

\* The parser makes the device that a string says, and refuses all other ones.
LEMMA ParsedIsMeant ==
  ASSUME NEW string \in Seq(Character)
  PROVE  Parsed(string)
           = IF IsDeviceString(string) THEN Checked(Meant(string)) ELSE THROWN
<1>1. PICK p : p = States(string)[Len(string)]
  OBVIOUS
<1>2. p \in ParserState
  BY <1>1, StatesFacts
<1> DEFINE index == IF p.index = <<>> THEN -1 ELSE Narrowed(NumberOf(p.index))
           refused == \/ string = <<>> \/ has_error(p)
                      \/ NumberOf(p.index) > IntMax \/ parse_type(p.name) = THROWN
<1>3. Parsed(string)
        = IF refused THEN THROWN
          ELSE Checked(MakeDevice(parse_type(p.name), index))
  BY <1>1 DEF Parsed
<1>4. NumberOf(p.index) \in Nat
  BY <1>2, NumberType DEF ParserState
<1>5. CASE IsDeviceString(string)
  <2> DEFINE t == string[1].value
             n == Len(string)
  <2>1. /\ t \in DeviceType /\ p.name = <<t>>
        /\ n = 1 => p.state = "START" /\ p.index = <<>>
        /\ n > 1 => /\ p.state = "INDEX_REST" /\ p.index # <<>>
                    /\ p.index = Part(string, 2, n - 2)
    BY <1>1, <1>5, AcceptedStates
  <2>2. n \in Nat /\ n >= 1 /\ string # <<>>
    BY <1>5 DEF IsDeviceString
  <2>3. n = 1 \/ n > 1
    <3> HIDE DEF n
    <3> QED
      BY <2>2
  <2>4. parse_type(p.name) = t /\ t # THROWN
    BY <2>1, NoDeviceAssumption DEF parse_type, DeviceType
  <2>5. ~ has_error(p)
    <3>1. p.name # <<>> /\ p.state \in {"START", "INDEX_REST"}
      BY <2>1, <2>3
    <3> QED
      BY <3>1 DEF has_error
  <2>6. CASE n = 1
    <3>1. p.index = <<>> /\ ~ (NumberOf(p.index) > IntMax)
      BY <1>2, <2>1, <2>6, NumberType, WidthAssumption DEF ParserState
    <3> QED
      BY <1>3, <1>5, <2>2, <2>4, <2>5, <2>6, <3>1 DEF Meant
  <2>7. CASE n > 1
    <3>1. Said(Rest(string)) = NumberOf(p.index) /\ p.index # <<>>
      BY <2>1, <2>7, RestFacts
    <3>2. ~ (NumberOf(p.index) > IntMax)
      BY <1>4, <1>5, <2>7, <3>1, WidthAssumption DEF IsDeviceString
    <3>3. n # 1
      <4> HIDE DEF n
      <4> QED
        BY <2>2, <2>7
    <3> QED
      BY <1>3, <1>5, <2>2, <2>4, <2>5, <3>1, <3>2, <3>3 DEF Meant
  <2> QED
    BY <2>6, <2>7, <2>3
<1>6. CASE ~IsDeviceString(string)
  <2>1. refused
    BY <1>1, <1>4, <1>6, OnlyAccepted, WidthAssumption
  <2> QED
    BY <1>3, <1>6, <2>1
<1> QED
  BY <1>5, <1>6

-----------------------------------------------------------------------------
(* A program with a device.                                                 *)

\* The values of a DeviceIndex are as many as its width.
LEMMA WidthFacts ==
  /\ IndexWidth \div 2 \in Nat \ {0}
  /\ IndexWidth = 2 * (IndexWidth \div 2)
  /\ DeviceIndex \subseteq Int
BY WidthAssumption DEF DeviceIndex

LEMMA RemainderFacts ==
  ASSUME NEW n \in Int, NEW w \in Nat \ {0}
  PROVE  /\ n % w \in 0..(w - 1) /\ n \div w \in Int
         /\ n = w * (n \div w) + (n % w)
OBVIOUS

\* The conversion to a DeviceIndex yields one, and keeps those that are one.
LEMMA NarrowedFacts ==
  ASSUME NEW n \in Int
  PROVE  /\ Narrowed(n) \in DeviceIndex
         /\ n \in DeviceIndex => Narrowed(n) = n
<1> PICK h \in Nat \ {0} : h = IndexWidth \div 2 /\ IndexWidth = 2 * h
  BY WidthFacts
<1>1. /\ (n + h) % IndexWidth \in 0..(IndexWidth - 1)
      /\ (n + h) \div IndexWidth \in Int
      /\ n + h = IndexWidth * ((n + h) \div IndexWidth) + ((n + h) % IndexWidth)
  <2>1. n + h \in Int /\ IndexWidth \in Nat \ {0}
    BY WidthAssumption
  <2> QED
    BY <2>1, RemainderFacts
<1>2. Narrowed(n) = ((n + h) % IndexWidth) - h
  BY DEF Narrowed
<1>3. DeviceIndex = (-h)..(h - 1)
  BY DEF DeviceIndex
<1>4. Narrowed(n) \in DeviceIndex
  BY <1>1, <1>2, <1>3
<1>5. ASSUME n \in DeviceIndex
      PROVE  Narrowed(n) = n
  <2> PICK q \in Int : q = (n + h) \div IndexWidth
    BY <1>1
  <2> PICK r \in 0..(2 * h - 1) : r = (n + h) % IndexWidth
    BY <1>1
  <2>1. n + h = 2 * h * q + r /\ n + h \in 0..(2 * h - 1)
    BY <1>1, <1>3, <1>5
  <2>2. q = 0
    <3>1. q >= 1 => 2 * h * q >= 2 * h
      OBVIOUS
    <3>2. q <= -1 => 2 * h * q <= -(2 * h)
      OBVIOUS
    <3> QED
      BY <2>1, <3>1, <3>2
  <2> QED
    BY <1>2, <2>1, <2>2
<1> QED
  BY <1>4, <1>5

\* Digits say a number.
LEMMA SaidType ==
  ASSUME NEW string \in Seq(Character), IsIndex(string)
  PROVE  /\ [i \in DOMAIN string |-> string[i].value] \in Seq(0..(Base - 1))
         /\ Said(string) \in Nat
<1> DEFINE values == [i \in DOMAIN string |-> string[i].value]
<1>1. PICK n \in Nat : n = Len(string) /\ DOMAIN string = 1..n
  OBVIOUS
<1>2. \A i \in 1..n : string[i].value \in 0..(Base - 1)
  BY <1>1, CharacterFacts DEF IsIndex
<1>3. values \in [1..n -> 0..(Base - 1)]
  BY <1>1, <1>2
<1>4. values \in Seq(0..(Base - 1))
  <2>1. values = [i \in 1..n |-> values[i]]
    BY <1>1
  <2> HIDE DEF values
  <2> QED
    BY <1>3, <2>1
<1> QED
  BY <1>4, NumberType DEF Said

\* The parser makes a device or throws.
LEMMA ParsedType ==
  ASSUME NEW string \in Seq(Character)
  PROVE  Parsed(string) \in Device \cup {THROWN}
<1> SUFFICES ASSUME IsDeviceString(string)
             PROVE  Meant(string) \in Device
  BY ParsedIsMeant DEF Checked
<1>1. string[1].value \in DeviceType
  BY DEF IsDeviceString, Letters, Char, DeviceType
<1>2. CASE Len(string) = 1
  <2>1. -1 \in DeviceIndex
    BY WidthFacts DEF DeviceIndex
  <2> QED
    BY <1>1, <1>2, <2>1 DEF Meant, MakeDevice, Device
<1>3. CASE Len(string) # 1
  <2>1. Len(string) > 1
    <3>1. PICK n \in Nat : n = Len(string) /\ n # 0
      BY DEF IsDeviceString
    <3> QED
      BY <1>3, <3>1
  <2>2. Said(Rest(string)) \in Int
    <3>1. Rest(string) \in Seq(Character) /\ IsIndex(Rest(string))
      BY <2>1, RestFacts DEF IsDeviceString
    <3> PICK rest \in Seq(Character) : rest = Rest(string)
      BY <3>1
    <3>2. Said(rest) \in Nat
      BY <3>1, SaidType
    <3> QED
      BY <3>2
  <2>3. Narrowed(Said(Rest(string))) \in DeviceIndex
    BY <2>2, NarrowedFacts
  <2> QED
    BY <1>1, <1>3, <2>3 DEF Meant, MakeDevice, Device
<1> QED
  BY <1>2, <1>3

LEMMA InitDeviceInv == DeviceInit => DeviceInv
BY DEF DeviceInit, DeviceInv

LEMMA NextDeviceInv == DeviceInv /\ [DeviceNext]_dvars => DeviceInv'
<1> SUFFICES ASSUME DeviceInv, [DeviceNext]_dvars PROVE DeviceInv'
  OBVIOUS
<1>1. CASE FromType
  <2>1. text = NONE
    BY <1>1, ParsedType, NoDeviceAssumption DEF FromType, DeviceInv
  <2> QED
    BY <1>1, <2>1 DEF FromType, Checked, DeviceInv
<1>2. CASE FromString
  <2>1. PICK string \in BoundedSeq(Character, MaxLength) :
          text' = string /\ device' = Parsed(string)
    BY <1>2 DEF FromString
  <2>2. string \in Seq(Character)
    <3>1. PICK n \in 0..MaxLength : string \in [1..n -> Character]
      BY <2>1 DEF BoundedSeq, SeqOf
    <3>2. n \in Nat
      BY LengthAssumption
    <3> QED
      BY <3>1, <3>2
  <2> QED
    BY <2>1, <2>2, ParsedType DEF DeviceInv
<1>3. CASE set_index
  BY <1>3 DEF set_index, DeviceInv, Device
<1>4. CASE UNCHANGED dvars
  BY <1>4 DEF dvars, DeviceInv
<1> QED
  BY <1>1, <1>2, <1>3, <1>4 DEF DeviceNext

\* Strings of any length make the device they say or none.
THEOREM GrammarIsAccepted == DeviceSpec => []AcceptsGrammar
<1>1. DeviceInv => AcceptsGrammar
  BY ParsedIsMeant DEF DeviceInv, AcceptsGrammar
<1> QED
  BY <1>1, InitDeviceInv, NextDeviceInv, PTL DEF DeviceSpec

-----------------------------------------------------------------------------
(* The digits of a number.                                                  *)

\* The definition of Digits for the numbers up to m, and for one of them.
DigitsFrom(g, n) ==
  IF n < Base THEN <<Digit(n)>> ELSE Append(g[n \div Base], Digit(n % Base))
AreDigits(m, g) == \A n \in 0..m : g[n] = DigitsFrom(g, n)

LEMMA QuotientFacts ==
  ASSUME NEW n \in Nat, n >= Base
  PROVE  /\ n \div Base \in Nat /\ n \div Base >= 1 /\ n \div Base < n
         /\ n % Base \in 0..(Base - 1)
         /\ (n \div Base) * Base + (n % Base) = n
<1>1. PICK b \in Nat : b = Base /\ b >= 2
  BY BaseAssumption
<1>2. /\ n % b \in 0..(b - 1) /\ n \div b \in Int
      /\ n = b * (n \div b) + (n % b)
  BY <1>1, RemainderFacts
<1> PICK q \in Int : q = n \div b
  BY <1>2
<1> PICK r \in 0..(b - 1) : r = n % b
  BY <1>2
<1>3. n = b * q + r /\ b * q = q * b
  BY <1>2
<1>4. q >= 1
  <2> SUFFICES ASSUME q <= 0 PROVE FALSE
    OBVIOUS
  <2>1. b * q <= 0
    BY <1>1
  <2> QED
    BY <1>1, <1>3, <2>1
<1>5. q < n
  <2>1. b * q >= 2 * q
    BY <1>1, <1>4
  <2> QED
    BY <1>3, <1>4, <2>1
<1> QED
  BY <1>1, <1>3, <1>4, <1>5

\* Such functions exist, and agree on the numbers they share.
LEMMA DigitsExist ==
  ASSUME NEW k \in Nat
  PROVE  \E g : AreDigits(k, g)
<1> DEFINE Good == {m \in Nat : \E g : AreDigits(m, g)}
<1>1. 0 \in Good
  <2> DEFINE g == [n \in 0..0 |-> <<Digit(n)>>]
  <2>1. AreDigits(0, g)
    <3>1. 0 < Base
      BY BaseAssumption
    <3> QED
      BY <3>1 DEF AreDigits, DigitsFrom
  <2> QED
    BY <2>1
<1>2. ASSUME NEW m \in 1..k, m - 1 \in Good
      PROVE  m \in Good
  <2>1. PICK g : AreDigits(m - 1, g)
    BY <1>2
  <2> DEFINE h == [n \in 0..m |-> IF n = m THEN DigitsFrom(g, m) ELSE g[n]]
  <2>2. ASSUME NEW n \in 0..m
        PROVE  h[n] = DigitsFrom(h, n)
    <3>1. h[n] = DigitsFrom(g, n)
      <4>1. CASE n = m
        BY <4>1
      <4>2. CASE n # m
        <5>1. n \in 0..(m - 1)
          BY <4>2
        <5>2. g[n] = DigitsFrom(g, n)
          BY <2>1, <5>1 DEF AreDigits
        <5> QED
          BY <4>2, <5>2
      <4> QED
        BY <4>1, <4>2
    <3>2. CASE n < Base
      BY <3>1, <3>2 DEF DigitsFrom
    <3>3. CASE ~ (n < Base)
      <4>1. n \div Base \in 0..m /\ n \div Base # m
        <5>1. n \div Base \in Nat /\ n \div Base < n
          BY <3>3, QuotientFacts, BaseAssumption
        <5> QED
          BY <5>1
      <4>2. h[n \div Base] = g[n \div Base]
        BY <4>1
      <4> HIDE DEF h
      <4> QED
        BY <3>1, <4>2 DEF DigitsFrom
    <3> QED
      BY <3>2, <3>3
  <2>3. AreDigits(m, h)
    <3> HIDE DEF h
    <3> QED
      BY <2>2 DEF AreDigits
  <2> QED
    BY <2>3
<1>3. \A m \in 1..k : m - 1 \in Good => m \in Good
  BY <1>2
<1>4. k \in Good
  <2> HIDE DEF Good
  <2>1. \A m \in 0..k : m \in Good
    BY <1>1, <1>3, RangeInduction
  <2> QED
    BY <2>1
<1> QED
  BY <1>4

LEMMA DigitsAgree ==
  ASSUME NEW k \in Nat, NEW g, AreDigits(k, g), NEW l \in Nat, NEW h, AreDigits(l, h),
         NEW n \in Nat, n <= k, n <= l
  PROVE  g[n] = h[n]
<1> DEFINE Bad == {m \in 0..n : g[m] # h[m]}
<1>1. Bad = {}
  <2> SUFFICES ASSUME Bad # {}
               PROVE  FALSE
    OBVIOUS
  <2>1. Bad \in SUBSET Nat
    OBVIOUS
  <2>2. PICK m \in Bad : \A j \in Bad : m <= j
    BY <2>1, LeastNat
  <2>3. g[m] = DigitsFrom(g, m) /\ h[m] = DigitsFrom(h, m)
    BY <2>2 DEF AreDigits
  <2>4. ~ (m < Base)
    BY <2>2, <2>3 DEF DigitsFrom
  <2>5. m \div Base \in Nat /\ m \div Base < m
    BY <2>2, <2>4, QuotientFacts, BaseAssumption
  <2>6. m \div Base \notin Bad /\ m \div Base \in 0..n
    <3>1. m \in 0..n
      BY <2>2
    <3> HIDE DEF Bad
    <3> QED
      BY <2>2, <2>5, <3>1
  <2>7. g[m \div Base] = h[m \div Base]
    BY <2>6
  <2>8. g[m] = h[m]
    BY <2>3, <2>7 DEF DigitsFrom
  <2> QED
    BY <2>2, <2>8
<1> QED
  BY <1>1

\* So Digits is what its definition says.
LEMMA DigitsFacts ==
  ASSUME NEW n \in Nat
  PROVE  Digits[n] = DigitsFrom(Digits, n)
<1> DEFINE G(m) == CHOOSE g : AreDigits(m, g)
           all == [m \in Nat |-> G(m)[m]]
           Loop(q) == [m \in Nat |->
             IF m < Base THEN <<Digit(m)>>
             ELSE Append(q[m \div Base], Digit(m % Base))]
<1>1. \A m \in Nat : AreDigits(m, G(m))
  BY DigitsExist
<1> HIDE DEF G
<1>2. ASSUME NEW m \in Nat
      PROVE  all[m] = Loop(all)[m]
  <2>1. G(m)[m] = DigitsFrom(G(m), m)
    BY <1>1 DEF AreDigits
  <2>2. CASE m < Base
    BY <2>1, <2>2 DEF DigitsFrom
  <2>3. CASE ~ (m < Base)
    <3>1. PICK l \in Nat : l = m \div Base /\ l < m
      BY <2>3, QuotientFacts, BaseAssumption
    <3>2. G(m)[l] = G(l)[l]
      BY <1>1, <3>1, DigitsAgree
    <3>3. all[l] = G(m)[l]
      BY <3>2
    <3> QED
      BY <2>1, <2>3, <3>1, <3>3 DEF DigitsFrom
  <2> QED
    BY <2>2, <2>3
<1>3. all = Loop(all)
  BY <1>2
<1>4. Digits = Loop(Digits)
  <2>1. \E q : q = Loop(q)
    <3> HIDE DEF all
    <3> QED
      BY <1>3
  <2> QED
    BY <2>1, Zenon DEF Digits
<1> QED
  BY <1>4 DEF DigitsFrom

\* One more digit.
LEMMA NumberAppend ==
  ASSUME NEW digits \in Seq(0..(Base - 1)), NEW d \in 0..(Base - 1)
  PROVE  NumberOf(Append(digits, d)) = NumberOf(digits) * Base + d
<1> DEFINE longer == Append(digits, d)
<1>1. PICK n \in Nat : n = Len(digits)
  OBVIOUS
<1>2. /\ longer \in Seq(0..(Base - 1)) /\ Len(longer) = n + 1
      /\ \A i \in 1..n : longer[i] = digits[i]
      /\ longer[n + 1] = d
  BY <1>1
<1> HIDE DEF longer
<1> DEFINE Good == {i \in 0..n : NumbersOf(longer)[i] = NumbersOf(digits)[i]}
<1>3. \A i \in 0..n : i \in Good
  <2>1. 0 \in Good
    BY <1>2, NumbersFacts
  <2>2. ASSUME NEW i \in 1..n, i - 1 \in Good
        PROVE  i \in Good
    <3>1. NumbersOf(digits)[i] = NumbersOf(digits)[i - 1] * Base + digits[i]
      BY <1>1, NumbersFacts
    <3>2. NumbersOf(longer)[i] = NumbersOf(longer)[i - 1] * Base + longer[i]
      <4>1. i \in 1..Len(longer)
        BY <1>2
      <4> QED
        BY <1>2, <4>1, NumbersFacts
    <3> QED
      BY <1>2, <2>2, <3>1, <3>2
  <2>3. \A i \in 1..n : i - 1 \in Good => i \in Good
    BY <2>2
  <2> HIDE DEF Good
  <2> QED
    BY <2>1, <2>3, RangeInduction
<1>4. NumbersOf(longer)[n] = NumberOf(digits)
  BY <1>1, <1>3 DEF NumberOf
<1>5. NumbersOf(longer)[n + 1] = NumbersOf(longer)[n + 1 - 1] * Base + longer[n + 1]
  BY <1>2, NumbersFacts
<1>6. n + 1 - 1 = n /\ NumberOf(longer) = NumbersOf(longer)[n + 1]
  BY <1>2 DEF NumberOf
<1> QED
  BY <1>2, <1>4, <1>5, <1>6 DEF longer

\* A string is the digits of a number: no other digits say it.
Says(string, n) ==
  /\ string \in Seq(Character) /\ IsIndex(string) /\ Said(string) = n
  /\ n # 0 => string[1] # Digit(0)

LEMMA DigitFacts ==
  ASSUME NEW d \in 0..(Base - 1)
  PROVE  /\ Digit(d) \in Character /\ Digit(d).class = "digit"
         /\ Digit(d).value = d
BY DEF Digit, Char, Character

LEMMA OneDigitSays ==
  ASSUME NEW d \in 0..(Base - 1)
  PROVE  Says(<<Digit(d)>>, d)
<1> DEFINE string == <<Digit(d)>>
           values == [i \in DOMAIN string |-> string[i].value]
<1>1. /\ string \in Seq(Character) /\ Len(string) = 1 /\ DOMAIN string = 1..1
      /\ string[1] = Digit(d) /\ string # <<>>
  BY DigitFacts
<1>2. IsIndex(string)
  BY <1>1, DigitFacts DEF IsIndex
<1>3. /\ values \in Seq(0..(Base - 1)) /\ Len(values) = 1 /\ values[1] = d
  <2>1. values \in Seq(0..(Base - 1))
    BY <1>1, <1>2, SaidType
  <2> HIDE DEF string
  <2>2. DOMAIN values = 1..1 /\ values[1] = d
    BY <1>1, DigitFacts
  <2> HIDE DEF values
  <2> QED
    BY <2>1, <2>2
<1>4. Said(string) = d
  <2>1. d \in Int /\ Base \in Int
    BY BaseAssumption
  <2> HIDE DEF values
  <2>2. NumberOf(values) = 0 * Base + d
    <3>1. NumbersOf(values)[1] = NumbersOf(values)[1 - 1] * Base + values[1]
      BY <1>3, NumbersFacts
    <3>2. NumbersOf(values)[0] = 0 /\ 1 - 1 = 0
      BY <1>3, NumbersFacts
    <3> QED
      BY <1>3, <3>1, <3>2 DEF NumberOf
  <2> QED
    BY <2>1, <2>2 DEF Said, values
<1>5. d # 0 => string[1] # Digit(0)
  BY <1>1 DEF Digit, Char
<1> HIDE DEF string
<1> QED
  BY <1>1, <1>2, <1>4, <1>5 DEF Says, string

LEMMA AppendSays ==
  ASSUME NEW string, NEW n \in Nat \ {0}, Says(string, n), NEW d \in 0..(Base - 1)
  PROVE  Says(Append(string, Digit(d)), n * Base + d)
<1> DEFINE longer == Append(string, Digit(d))
           values == [i \in DOMAIN string |-> string[i].value]
           more == [i \in DOMAIN longer |-> longer[i].value]
<1>1. string \in Seq(Character) /\ string # <<>>
  BY DEF Says, IsIndex
<1>2. PICK l \in Nat : l = Len(string) /\ DOMAIN string = 1..l /\ l >= 1
  BY <1>1
<1>3. /\ longer \in Seq(Character) /\ Len(longer) = l + 1
      /\ DOMAIN longer = 1..(l + 1) /\ longer # <<>>
      /\ \A i \in 1..l : longer[i] = string[i]
      /\ longer[l + 1] = Digit(d)
  BY <1>1, <1>2, DigitFacts
<1> HIDE DEF longer
<1>4. longer[1] = string[1] /\ longer[1] # Digit(0)
  BY <1>2, <1>3 DEF Says
<1>5. IsIndex(longer)
  <2>1. \A i \in 1..l : string[i].class = "digit"
    BY <1>2 DEF Says, IsIndex
  <2>2. ASSUME NEW i \in 1..(l + 1)
        PROVE  longer[i].class = "digit"
    <3>1. CASE i = l + 1
      BY <1>3, <3>1, DigitFacts
    <3>2. CASE i # l + 1
      <4>1. i \in 1..l
        BY <1>2, <3>2
      <4> QED
        BY <1>3, <2>1, <4>1
    <3> QED
      BY <3>1, <3>2
  <2> QED
    BY <1>3, <1>4, <2>2 DEF IsIndex
<1>6. values \in Seq(0..(Base - 1)) /\ more \in Seq(0..(Base - 1))
  BY <1>1, <1>3, <1>5, SaidType DEF Says
<1>7. more = Append(values, d)
  <2>1. /\ DOMAIN values = 1..l /\ \A i \in 1..l : values[i] = string[i].value
        /\ DOMAIN more = 1..(l + 1)
        /\ \A i \in 1..(l + 1) : more[i] = longer[i].value
    BY <1>2, <1>3
  <2> HIDE DEF values, more
  <2>2. Len(values) = l /\ Len(more) = l + 1
    BY <1>2, <1>6, <2>1
  <2>3. \A i \in 1..l : more[i] = values[i]
    BY <1>2, <1>3, <2>1
  <2>4. more[l + 1] = d
    BY <1>2, <1>3, <2>1, DigitFacts
  <2>5. Append(values, d) \in Seq(0..(Base - 1))
    BY <1>6
  <2> QED
    BY <1>2, <1>6, <2>2, <2>3, <2>4, <2>5
<1>8. Said(longer) = n * Base + d
  <2>1. NumberOf(values) = n
    BY DEF Says, Said
  <2>2. Said(longer) = NumberOf(more)
    BY DEF Said
  <2> HIDE DEF values, more
  <2> QED
    BY <1>6, <1>7, <2>1, <2>2, NumberAppend
<1> QED
  BY <1>3, <1>4, <1>5, <1>8 DEF Says, longer

\* What is printed of a number says this number.
LEMMA DigitsSay ==
  ASSUME NEW n \in Nat
  PROVE  Says(Digits[n], n)
<1> DEFINE Bad == {m \in Nat : ~ Says(Digits[m], m)}
<1>1. Bad = {}
  <2> SUFFICES ASSUME Bad # {}
               PROVE  FALSE
    OBVIOUS
  <2>1. Bad \in SUBSET Nat
    OBVIOUS
  <2>2. PICK m \in Bad : \A j \in Bad : m <= j
    <3> HIDE DEF Bad
    <3> QED
      BY <2>1, LeastNat
  <2>3. m \in Nat /\ ~ Says(Digits[m], m)
    BY <2>2
  <2>4. Digits[m] = DigitsFrom(Digits, m)
    BY <2>3, DigitsFacts
  <2>5. CASE m < Base
    <3>1. m \in 0..(Base - 1)
      BY <2>3, <2>5, BaseAssumption
    <3>2. Digits[m] = <<Digit(m)>>
      BY <2>4, <2>5 DEF DigitsFrom
    <3> QED
      BY <2>3, <3>1, <3>2, OneDigitSays
  <2>6. CASE ~ (m < Base)
    <3>1. /\ m \div Base \in Nat /\ m \div Base >= 1 /\ m \div Base < m
          /\ m % Base \in 0..(Base - 1)
          /\ (m \div Base) * Base + (m % Base) = m
      <4>1. m >= Base
        BY <2>3, <2>6, BaseAssumption
      <4> QED
        BY <2>3, <4>1, QuotientFacts
    <3> PICK q \in Nat \ {0} : q = m \div Base /\ q < m
      BY <3>1
    <3> PICK r \in 0..(Base - 1) : r = m % Base
      BY <3>1
    <3>2. Says(Digits[q], q)
      <4>1. ~ (m <= q)
        BY <2>3
      <4> QED
        BY <2>2, <4>1
    <3>3. Digits[m] = Append(Digits[q], Digit(r)) /\ q * Base + r = m
      BY <2>4, <2>6, <3>1 DEF DigitsFrom
    <3>4. Says(Append(Digits[q], Digit(r)), q * Base + r)
      BY <3>2, AppendSays
    <3> QED
      BY <2>3, <3>3, <3>4
  <2> QED
    BY <2>5, <2>6
<1> QED
  BY <1>1

\* What is printed of different numbers differs, by the sign or the digits.
LEMMA PrintedFacts ==
  ASSUME NEW n \in Int
  PROVE  /\ to_string(n) \in Seq(Character) /\ to_string(n) # <<>>
         /\ n >= 0 => Says(to_string(n), n) /\ to_string(n)[1].class = "digit"
         /\ n < 0 => /\ to_string(n)[1] = Sign
                     /\ to_string(n) = <<Sign>> \o Digits[-n]
                     /\ Says(Digits[-n], -n)
<1>1. CASE n >= 0
  <2>1. to_string(n) = Digits[n] /\ Says(Digits[n], n)
    BY <1>1, DigitsSay DEF to_string
  <2>2. to_string(n) \in Seq(Character) /\ to_string(n) # <<>>
    BY <2>1 DEF Says, IsIndex
  <2>3. to_string(n)[1].class = "digit"
    BY <2>1, <2>2 DEF Says, IsIndex
  <2> QED
    BY <1>1, <2>1, <2>2, <2>3
<1>2. CASE n < 0
  <2>1. PICK m \in Nat : m = -n
    BY <1>2
  <2>2. to_string(n) = <<Sign>> \o Digits[m] /\ Says(Digits[m], m)
    BY <1>2, <2>1, DigitsSay DEF to_string
  <2>3. Digits[m] \in Seq(Character) /\ Sign \in Character
    BY <2>2 DEF Says, Character
  <2>4. /\ <<Sign>> \o Digits[m] \in Seq(Character)
        /\ <<Sign>> \o Digits[m] # <<>>
        /\ (<<Sign>> \o Digits[m])[1] = Sign
    BY <2>3
  <2> QED
    BY <1>2, <2>1, <2>2, <2>4
<1> QED
  BY <1>1, <1>2

LEMMA PrintedDiffers ==
  ASSUME NEW m \in Int, NEW n \in Int, to_string(m) = to_string(n)
  PROVE  m = n
<1>1. CASE m >= 0 /\ n >= 0
  BY <1>1, PrintedFacts DEF Says
<1>2. CASE m < 0 /\ n < 0
  <2>1. /\ <<Sign>> \o Digits[-m] = <<Sign>> \o Digits[-n]
        /\ Says(Digits[-m], -m) /\ Says(Digits[-n], -n)
    BY <1>2, PrintedFacts
  <2>2. Digits[-m] = Digits[-n]
    <3> PICK s \in Seq(Character) : s = Digits[-m]
      BY <2>1 DEF Says
    <3> PICK t \in Seq(Character) : t = Digits[-n]
      BY <2>1 DEF Says
    <3>1. <<Sign>> \o s = <<Sign>> \o t
      BY <2>1
    <3>2. Len(s) = Len(t) /\ \A i \in 1..Len(s) : s[i] = t[i]
      <4>1. /\ Len(<<Sign>> \o s) = 1 + Len(s) /\ Len(<<Sign>> \o t) = 1 + Len(t)
            /\ \A i \in 1..Len(s) : (<<Sign>> \o s)[i + 1] = s[i]
            /\ \A i \in 1..Len(t) : (<<Sign>> \o t)[i + 1] = t[i]
        OBVIOUS
      <4>2. Len(s) = Len(t)
        BY <3>1, <4>1
      <4> QED
        BY <3>1, <4>1, <4>2
    <3>3. s = t
      BY <3>2
    <3> QED
      BY <3>3
  <2>3. -m = -n
    BY <2>1, <2>2 DEF Says
  <2> QED
    BY <2>3
<1>3. CASE (m >= 0 /\ n < 0) \/ (m < 0 /\ n >= 0)
  <2>1. Sign.class # "digit"
    BY DEF Sign, Char
  <2>2. /\ m >= 0 => to_string(m)[1].class = "digit"
        /\ m < 0 => to_string(m)[1] = Sign
        /\ n >= 0 => to_string(n)[1].class = "digit"
        /\ n < 0 => to_string(n)[1] = Sign
    BY PrintedFacts
  <2> QED
    BY <1>3, <2>1, <2>2
<1> QED
  BY <1>1, <1>2, <1>3

\* What is printed of a device is its type, and its index if it has one.
LEMMA StrFacts ==
  ASSUME NEW d \in Device
  PROVE  /\ str(d) \in Seq(Character) /\ str(d)[1] = Letters(d.type)
         /\ d.index = -1 => Len(str(d)) = 1
         /\ d.index # -1 => /\ Len(str(d)) > 1 /\ str(d)[2] = Colon
                            /\ Rest(str(d)) = to_string(d.index)
<1>1. /\ Letters(d.type) \in Character /\ Colon \in Character
      /\ d.index \in Int
  BY WidthFacts DEF Device, DeviceType, Character
<1>2. CASE d.index = -1
  <2>1. str(d) = <<Letters(d.type)>> \o <<>>
    BY <1>2 DEF str, has_index
  <2> QED
    BY <1>1, <1>2, <2>1
<1>3. CASE d.index # -1
  <2> PICK s \in Seq(Character) : s = to_string(d.index) /\ s # <<>>
    BY <1>1, PrintedFacts
  <2> PICK n \in Nat : n = Len(s)
    OBVIOUS
  <2> DEFINE string == <<Letters(d.type)>> \o (<<Colon>> \o s)
  <2>1. str(d) = string
    BY <1>3 DEF str, has_index
  <2>2. /\ string \in Seq(Character) /\ Len(string) = n + 2
        /\ string[1] = Letters(d.type) /\ string[2] = Colon
        /\ \A i \in 1..n : string[2 + i] = s[i]
    BY <1>1
  <2> HIDE DEF string
  <2>3. Len(string) > 1
    BY <2>2
  <2>4. /\ Rest(string) \in Seq(Character) /\ Len(Rest(string)) = n
        /\ \A i \in 1..n : Rest(string)[i] = s[i]
    <3>1. Len(string) - 2 = n
      BY <2>2
    <3> QED
      BY <2>2, <2>3, <3>1, RestFacts
  <2>5. Rest(string) = s
    <3> PICK r \in Seq(Character) : r = Rest(string)
      BY <2>4
    <3>1. Len(r) = Len(s) /\ \A i \in 1..Len(s) : r[i] = s[i]
      BY <2>4
    <3> QED
      BY <3>1
  <2> QED
    BY <1>3, <2>1, <2>2, <2>3, <2>5
<1> QED
  BY <1>2, <1>3

\* The parser makes the device again, if it is valid.
LEMMA StrIsParsed ==
  ASSUME NEW d \in Device
  PROVE  Parsed(str(d)) = Checked(d)
<1> PICK string \in Seq(Character) : string = str(d)
  BY StrFacts
<1>1. /\ d.type \in DeviceType /\ d.index \in DeviceIndex /\ d.index \in Int
      /\ d = MakeDevice(d.type, d.index)
  BY WidthFacts DEF Device, MakeDevice
<1> PICK l \in Nat : l = Len(string)
  OBVIOUS
<1>0. /\ string[1] = Letters(d.type)
      /\ d.index = -1 => l = 1
      /\ d.index # -1 => /\ l > 1 /\ string[2] = Colon
                         /\ Rest(string) = to_string(d.index)
  BY StrFacts
<1>2. /\ string # <<>> /\ string[1] \in {Letters(CPU), Letters(CUDA)}
      /\ string[1].value = d.type
  <2>1. l # 0
    BY <1>0
  <2>2. string # <<>>
    BY <2>1
  <2>3. Letters(d.type).value = d.type
    BY DEF Letters, Char
  <2> QED
    BY <1>0, <1>1, <2>2, <2>3 DEF DeviceType
<1>3. CASE d.index = -1
  <2>1. Len(string) = 1 /\ ~ (Len(string) > 1)
    <3>1. l = 1
      BY <1>0, <1>3
    <3>2. ~ (l > 1)
      BY <3>1
    <3> QED
      BY <3>1, <3>2
  <2>2. IsDeviceString(string) /\ Meant(string) = d
    BY <1>1, <1>2, <1>3, <2>1 DEF IsDeviceString, Meant
  <2> QED
    BY <2>2, ParsedIsMeant
<1>4. CASE d.index >= 0
  <2>1. /\ Len(string) > 1 /\ Len(string) # 1 /\ string[2] = Colon
        /\ Rest(string) = to_string(d.index)
    <3>1. d.index # -1
      BY <1>1, <1>4
    <3> QED
      BY <1>0, <3>1
  <2>2. IsIndex(Rest(string)) /\ Said(Rest(string)) = d.index
    BY <1>1, <1>4, <2>1, PrintedFacts DEF Says
  <2>3. d.index <= IntMax
    <3>1. PICK h \in Nat : h = IndexWidth \div 2 /\ IndexWidth = 2 * h
      BY WidthFacts
    <3>2. d.index < h
      BY <1>1, <3>1 DEF DeviceIndex
    <3> QED
      BY <1>1, <3>1, <3>2, WidthAssumption
  <2>4. Narrowed(d.index) = d.index
    BY <1>1, NarrowedFacts
  <2>5. IsDeviceString(string) /\ Meant(string) = d
    BY <1>1, <1>2, <2>1, <2>2, <2>3, <2>4 DEF IsDeviceString, Meant
  <2> QED
    BY <2>5, ParsedIsMeant
<1>5. CASE d.index < -1
  <2>1. /\ Len(string) > 1 /\ Rest(string)[1] = Sign
        /\ Rest(string) \in Seq(Character) /\ Rest(string) # <<>>
    <3>1. d.index # -1 /\ d.index < 0
      BY <1>1, <1>5
    <3> QED
      BY <1>0, <1>1, <3>1, PrintedFacts
  <2>2. ~ IsIndex(Rest(string))
    <3>1. Sign.class # "digit"
      BY DEF Sign, Char
    <3>2. 1 \in DOMAIN Rest(string)
      BY <2>1
    <3> QED
      BY <2>1, <3>1, <3>2 DEF IsIndex
  <2>3. ~ IsDeviceString(string)
    BY <2>1, <2>2 DEF IsDeviceString
  <2>4. Checked(d) = THROWN
    BY <1>1, <1>5 DEF Checked, validate
  <2> QED
    BY <2>3, <2>4, ParsedIsMeant
<1> QED
  BY <1>1, <1>3, <1>4, <1>5

\* Different devices are printed and hashed differently.
LEMMA StrDiffers ==
  ASSUME NEW d \in Device, NEW e \in Device, str(d) = str(e)
  PROVE  d = e
<1>1. d.type = e.type
  <2>1. Letters(d.type) = Letters(e.type)
    BY StrFacts
  <2> QED
    BY <2>1 DEF Letters, Char
<1>2. d.index \in Int /\ e.index \in Int
  BY WidthFacts DEF Device
<1>3. d.index = e.index
  <2>1. CASE d.index = -1 \/ e.index = -1
    <3> PICK string \in Seq(Character) : string = str(d)
      BY StrFacts
    <3>1. (d.index = -1 <=> Len(string) = 1) /\ (e.index = -1 <=> Len(string) = 1)
      BY StrFacts
    <3> QED
      BY <2>1, <3>1
  <2>2. CASE d.index # -1 /\ e.index # -1
    BY <1>2, <2>2, StrFacts, PrintedDiffers
  <2> QED
    BY <2>1, <2>2
<1> QED
  BY <1>1, <1>3 DEF Device

LEMMA HashDiffers ==
  ASSUME NEW d \in Device, NEW e \in Device, hash(d) = hash(e)
  PROVE  d = e
<1> PICK h \in Nat \ {0} : h = IndexWidth \div 2 /\ IndexWidth = 2 * h
  BY WidthFacts
<1> PICK w \in Nat \ {0} : w = IndexWidth
  BY WidthAssumption
<1> PICK i \in (-h)..(h - 1) : i = d.index
  BY DEF Device, DeviceIndex
<1> PICK j \in (-h)..(h - 1) : j = e.index
  BY DEF Device, DeviceIndex
<1> PICK s \in {0, 1} : s = d.type
  BY DEF Device, DeviceType, CPU, CUDA
<1> PICK t \in {0, 1} : t = e.type
  BY DEF Device, DeviceType, CPU, CUDA
<1>1. w = 2 * h /\ w <= 65536
  BY WidthAssumption
<1>2. ASSUME NEW k \in (-h)..(h - 1)
      PROVE  k % w \in 0..(w - 1) /\ (k % w = k \/ k % w = k + w)
  <2>1. k % w \in 0..(w - 1) /\ k \div w \in Int /\ k = w * (k \div w) + (k % w)
    <3>1. k \in Int
      OBVIOUS
    <3> QED
      BY <3>1, RemainderFacts
  <2> PICK q \in Int : q = k \div w
    BY <2>1
  <2> PICK r \in 0..(w - 1) : r = k % w
    BY <2>1
  <2>2. k = w * q + r
    BY <2>1
  <2>3. q >= 1 => w * q >= w
    OBVIOUS
  <2>4. q <= -2 => w * q <= -(2 * w)
    OBVIOUS
  <2>5. q = 0 \/ q = -1
    BY <1>1, <2>2, <2>3, <2>4
  <2>6. q = 0 => w * q = 0
    OBVIOUS
  <2>7. q = -1 => w * q = -w
    OBVIOUS
  <2>8. k = r \/ k = r - w
    BY <2>2, <2>5, <2>6, <2>7
  <2> QED
    BY <2>8
<1>3. s * 65536 + (i % w) = t * 65536 + (j % w)
  BY DEF hash
<1> PICK a \in 0..(w - 1) : a = i % w /\ (a = i \/ a = i + w)
  BY <1>2
<1> PICK b \in 0..(w - 1) : b = j % w /\ (b = j \/ b = j + w)
  BY <1>2
<1>4. s * 65536 + a = t * 65536 + b
  BY <1>3
<1>5. s = t /\ a = b
  <2>1. a <= 65535 /\ b <= 65535
    BY <1>1
  <2>2. a \in Int /\ b \in Int /\ a >= 0 /\ b >= 0
    OBVIOUS
  <2>3. CASE s = t
    BY <1>4, <2>2, <2>3
  <2>4. CASE s # t
    BY <1>4, <2>1, <2>2, <2>4
  <2> QED
    BY <2>3, <2>4
<1>6. i = j
  BY <1>1, <1>5
<1>7. d.type = e.type /\ d.index = e.index
  BY <1>5, <1>6
<1> QED
  BY <1>7 DEF Device

\* Every device prints what makes it again, and what no other one prints.
THEOREM DevicesAreIdentified == DeviceSpec => []StrIdentifies
<1>1. DeviceInv => StrIdentifies
  BY StrIsParsed, StrDiffers, HashDiffers DEF StrIdentifies
<1> QED
  BY <1>1, InitDeviceInv, NextDeviceInv, PTL DEF DeviceSpec

=============================================================================
