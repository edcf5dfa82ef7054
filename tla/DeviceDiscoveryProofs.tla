------------------------ MODULE DeviceDiscoveryProofs -----------------------
(***************************************************************************)
(* What run() does with the command line and the credentials, proved for   *)
(* every list of arguments, every list of addresses, every environment and *)
(* whatever the devices answer.                                            *)
(***************************************************************************)
EXTENDS DeviceDiscovery, DataFacts, FiniteSetTheorems

-----------------------------------------------------------------------------
(* The command line                                                        *)

(* The positions of options in the first n arguments. *)
HeadsUpTo(heads, list, n) ==
  /\ heads \subseteq 1 .. n
  /\ \A i \in 1 .. n : i \in heads <=> ~(i - 1 \in heads /\ list[i - 1] \in WithValue)

(* Every list of arguments can be told apart into options and values. *)
LEMMA HeadsExist ==
  ASSUME NEW list, NEW n \in Nat
  PROVE  \E heads : HeadsUpTo(heads, list, n)
<1> DEFINE T == {m \in Nat : ~ \E heads : HeadsUpTo(heads, list, m)}
<1>1. T \subseteq Nat
  OBVIOUS
<1>2. SUFFICES ASSUME T # {} PROVE FALSE
  OBVIOUS
<1>3. PICK m \in T : \A y \in T : m <= y
  <2> HIDE DEF T
  <2> QED BY <1>1, <1>2, LeastNat
<1>4. m \in Nat /\ ~ \E heads : HeadsUpTo(heads, list, m)
  BY <1>3
<1>5. CASE m = 0
  <2>1. HeadsUpTo({}, list, 0)
    BY DEF HeadsUpTo
  <2> QED BY <1>4, <1>5, <2>1
<1>6. CASE m # 0
  <2>1. m - 1 \in Nat /\ m - 1 \notin T
    BY <1>3, <1>4, <1>6
  <2>2. PICK g : HeadsUpTo(g, list, m - 1)
    BY <2>1
  <2>3. PICK h : h = IF m - 1 \in g /\ list[m - 1] \in WithValue THEN g ELSE g \cup {m}
    OBVIOUS
  <2>4. \A i \in 1 .. m - 1 : (i \in h <=> i \in g) /\ (i - 1 \in h <=> i - 1 \in g)
    BY <2>2, <2>3 DEF HeadsUpTo
  <2>5. (m \in h <=> ~(m - 1 \in g /\ list[m - 1] \in WithValue)) /\ (m - 1 \in h <=> m - 1 \in g)
    BY <1>4, <2>2, <2>3 DEF HeadsUpTo
  <2>6. h \subseteq 1 .. m
    BY <1>4, <1>6, <2>2, <2>3 DEF HeadsUpTo
  <2>7. \A i \in 1 .. m : i = m \/ i \in 1 .. m - 1
    BY <1>4
  <2>8. HeadsUpTo(h, list, m)
    BY <2>2, <2>4, <2>5, <2>6, <2>7 DEF HeadsUpTo
  <2> QED BY <1>4, <2>8
<1> QED BY <1>5, <1>6

(* Heads() is such a set of positions. *)
LEMMA HeadsFacts ==
  ASSUME NEW S, NEW list \in Seq(S), NEW heads, heads = Heads(list)
  PROVE  HeadsUpTo(heads, list, Len(list))
<1>1. DOMAIN list = 1 .. Len(list) /\ Len(list) \in Nat
  OBVIOUS
<1>2. PICK h : HeadsUpTo(h, list, Len(list))
  BY <1>1, HeadsExist
<1>3. h \in SUBSET DOMAIN list
      /\ \A i \in DOMAIN list : i \in h <=> ~(i - 1 \in h /\ list[i - 1] \in WithValue)
  BY <1>1, <1>2 DEF HeadsUpTo
<1>4. /\ heads \in SUBSET DOMAIN list
      /\ \A i \in DOMAIN list : i \in heads <=> ~(i - 1 \in heads /\ list[i - 1] \in WithValue)
  BY <1>3, Zenon DEF Heads
<1> QED BY <1>1, <1>4 DEF HeadsUpTo

(* What is accepted as the value of an option is what is legal. *)
LEMMA TakesLegal ==
  ASSUME NEW option \in WithValue, NEW text
  PROVE  Takes(option, text) <=> Legal(option, text)
<1>1. CASE option \in Strings
  BY <1>1 DEF Takes, Legal
<1>2. CASE option \notin Strings
  <2>1. option \in Timeouts \/ option = "--threads"
    BY <1>2 DEF WithValue
  <2>2. "--threads" \notin Timeouts
    BY DEF Timeouts
  <2>3. CASE text \notin DOMAIN Numerals
    BY <1>2, <2>1, <2>3 DEF Takes, Legal, parse_positive
  <2>4. CASE text \in DOMAIN Numerals
    <3>1. PICK n : n = Numerals[text]
      OBVIOUS
    <3>2. n \in Int /\ LLMax \in Nat /\ LLMax > 1024
      BY <2>4, <3>1, NumeralsAssumption DEF MaxThreads
    <3>3. strtoll(text) = IF n > LLMax THEN LLMax ELSE IF n < -LLMax - 1 THEN -LLMax - 1 ELSE n
      BY <3>1 DEF strtoll
    <3>4. (strtoll(text) > 0 <=> n >= 1) /\ (strtoll(text) <= MaxThreads <=> n <= 1024)
      BY <3>2, <3>3 DEF MaxThreads
    <3> QED BY <1>2, <2>1, <2>2, <2>4, <3>1, <3>4 DEF Takes, Legal, parse_positive
  <2> QED BY <2>3, <2>4
<1> QED BY <1>1, <1>2

(* A legal number is stored as the usage text has it, or as the largest    *)
(* that fits.                                                              *)
LEMMA NumberStored ==
  ASSUME NEW option \in WithValue, option \notin Strings, NEW text, Legal(option, text)
  PROVE  strtoll(text) = Min({Numerals[text], LLMax})
<1>1. PICK n : n = Numerals[text]
  OBVIOUS
<1>2. n \in Int /\ n >= 1 /\ LLMax \in Nat
  BY <1>1, NumeralsAssumption DEF Legal
<1>3. PICK S : S = {n, LLMax}
  OBVIOUS
<1>4. S \subseteq Nat /\ S # {}
  BY <1>2, <1>3
<1>5. Min(S) \in S /\ \A y \in S : Min(S) <= y
  BY <1>4, MinFacts
<1>6. strtoll(text) = IF n > LLMax THEN LLMax ELSE n
  BY <1>1, <1>2 DEF strtoll
<1>7. Min(S) = IF n > LLMax THEN LLMax ELSE n
  BY <1>2, <1>3, <1>5
<1> QED BY <1>1, <1>3, <1>6, <1>7

(* The options of the struct, each of one kind. *)
LEMMA OptionKinds ==
  /\ DOMAIN Defaults = Flags \cup WithValue
  /\ Defaults = [o \in DOMAIN Defaults |-> Defaults[o]]
  /\ Flags \cap WithValue = {} /\ Help \cap (Flags \cup WithValue) = {}
  /\ Strings \subseteq WithValue
  /\ {"--select", "--strict-host-key"} \subseteq DOMAIN Defaults
<1>1. Flags \cap WithValue = {} /\ Help \cap (Flags \cup WithValue) = {}
  BY DEF Flags, WithValue, Help, Strings, Timeouts
<1>2. Strings \subseteq WithValue
  BY DEF WithValue
<1>3. /\ DOMAIN Defaults = Flags \cup WithValue
      /\ Defaults = [o \in DOMAIN Defaults |-> Defaults[o]]
  BY DEF Defaults
<1>4. "--select" \in WithValue /\ "--strict-host-key" \in Flags
  BY DEF Flags, WithValue, Strings
<1> QED BY <1>1, <1>2, <1>3, <1>4

-----------------------------------------------------------------------------
(* One turn of the parser                                                  *)

Parser(i, opts, code) == [i |-> i, options |-> opts, exit_code |-> code]

(* The four ways a turn may go. *)
Turned(i, opts, code, list, arg, r) ==
  \/ arg \in Help /\ r = Parser(i, opts, "kSuccess")
  \/ arg \in Flags /\ r = Parser(i + 1, [opts EXCEPT ![arg] = TRUE], code)
  \/ /\ arg \in WithValue /\ i < Len(list) /\ Takes(arg, list[i + 1])
     /\ r = Parser(i + 2, [opts EXCEPT ![arg] = Value(arg, list[i + 1])], code)
  \/ /\ arg \notin Help /\ arg \notin Flags
     /\ ~(i < Len(list) /\ Takes(arg, list[i + 1]))
     /\ r = Parser(i, opts, "kUsageError")

(* Turn() goes one of them. *)
LEMMA TurnCases ==
  ASSUME NEW i, NEW opts, NEW code, NEW p, p = Parser(i, opts, code),
         NEW list, NEW arg, arg = list[i], NEW r, r = Turn(p, list)
  PROVE  Turned(i, opts, code, list, arg, r)
<1> USE DEF Turned
<1>1. p.i = i
  BY DEF Parser
<1>2. /\ arg \in Help => arg \notin Flags /\ arg \notin WithValue
      /\ arg \in Flags => arg \notin WithValue
  BY OptionKinds
<1>3. \A text : Takes(arg, text) => arg \in WithValue
  BY DEF Takes, WithValue
<1>4. CASE arg \in Help
  <2>1. r = [p EXCEPT !.exit_code = "kSuccess"]
    BY <1>1, <1>2, <1>3, <1>4, Zenon DEF Turn
  <2> QED BY <1>4, <2>1 DEF Parser
<1>5. CASE arg \in Flags
  <2>1. r = [p EXCEPT !.i = p.i + 1, !.options[arg] = TRUE]
    BY <1>1, <1>2, <1>3, <1>5, Zenon DEF Turn
  <2> QED BY <1>1, <1>5, <2>1 DEF Parser
<1>6. CASE i < Len(list) /\ Takes(arg, list[i + 1])
  <2>1. r = [p EXCEPT !.i = p.i + 2, !.options[arg] = Value(arg, list[i + 1])]
    BY <1>1, <1>2, <1>3, <1>6, Zenon DEF Turn
  <2> QED BY <1>1, <1>3, <1>6, <2>1 DEF Parser
<1>7. CASE arg \notin Help /\ arg \notin Flags /\ ~(i < Len(list) /\ Takes(arg, list[i + 1]))
  <2>1. r = [p EXCEPT !.exit_code = "kUsageError"]
    BY <1>1, <1>7, Zenon DEF Turn
  <2> QED BY <1>7, <2>1 DEF Parser
<1> QED BY <1>4, <1>5, <1>6, <1>7

(* What is said of an option depends on where it is used only. *)
LEMMA SaidByUses ==
  ASSUME NEW list, NEW i, NEW k, NEW o, Uses(list, i, o) = Uses(list, k, o)
  PROVE  Said(list, i, o) = Said(list, k, o)
BY Zenon DEF Said

(* An option that was used once more says what its last use says. *)
LEMMA SaidLast ==
  ASSUME NEW S, NEW list \in Seq(S), NEW i \in Heads(list), i \in 1 .. Len(list), NEW k,
         NEW o, o = list[i], Uses(list, k, o) = Uses(list, i, o) \cup {i}
  PROVE  /\ o \in Flags => Said(list, k, o) = TRUE
         /\ o \in WithValue /\ i < Len(list) /\ Legal(o, list[i + 1]) =>
              Said(list, k, o) = Value(o, list[i + 1])
<1>1. PICK uses : uses = Uses(list, k, o)
  OBVIOUS
<1>2. Uses(list, i, o) \subseteq 1 .. Len(list) /\ \A h \in Uses(list, i, o) : h < i
  BY HeadsFacts DEF HeadsUpTo, Uses
<1>3. uses # {} /\ uses \subseteq 0 .. Len(list) /\ i \in uses /\ \A h \in uses : h <= i
  BY <1>1, <1>2
<1>4. Max(uses) = i
  <2>1. Len(list) \in Nat /\ i \in Nat
    OBVIOUS
  <2>2. Max(uses) \in uses /\ \A y \in uses : Max(uses) >= y
    BY <1>3, <2>1, MaxFacts
  <2>3. PICK m : m = Max(uses)
    OBVIOUS
  <2>4. m \in 0 .. Len(list) /\ m <= i /\ m >= i
    BY <1>3, <2>2, <2>3
  <2> QED BY <2>1, <2>3, <2>4
<1>5. o \in Flags => o \notin Strings /\ o \notin WithValue
  BY OptionKinds
<1>6. ASSUME o \in Flags PROVE Said(list, k, o) = TRUE
  BY <1>1, <1>3, <1>5, <1>6, Zenon DEF Said
<1>7. ASSUME o \in Strings PROVE Said(list, k, o) = list[i + 1]
  BY <1>1, <1>3, <1>4, <1>5, <1>7, Zenon DEF Said
<1>8. ASSUME o \in WithValue, o \notin Strings
      PROVE  Said(list, k, o) = Min({Numerals[list[i + 1]], LLMax})
  BY <1>1, <1>3, <1>4, <1>5, <1>8, Zenon DEF Said
<1>9. ASSUME o \in WithValue, i < Len(list), Legal(o, list[i + 1])
      PROVE  Said(list, k, o) = Value(o, list[i + 1])
  <2>1. CASE o \in Strings
    BY <1>7, <2>1 DEF Value
  <2>2. CASE o \notin Strings
    <3>1. PICK text : text = list[i + 1]
      OBVIOUS
    <3>2. strtoll(text) = Min({Numerals[text], LLMax})
      BY <1>9, <2>2, <3>1, NumberStored
    <3> QED BY <1>8, <1>9, <2>2, <3>1, <3>2 DEF Value
  <2> QED BY <2>1, <2>2
<1> QED BY <1>6, <1>9

(* Faithful() of CommandLine, for the fields of a parser. *)
FaithfulTo(i, opts, code, list) ==
  /\ i \in Heads(list) \cup {Len(list) + 1}
  /\ \A h \in Heads(list) : h < i => ~Stops(list, h)
  /\ opts = [o \in DOMAIN Defaults |-> Said(list, i, o)]
  /\ code # "none" => i \in Heads(list) /\ Stops(list, i)
  /\ code = "kSuccess" <=> code # "none" /\ list[i] \in Help

(* A parser is faithful if its fields are. *)
LEMMA FaithfulFields ==
  ASSUME NEW i, NEW opts, NEW code, NEW p, p = Parser(i, opts, code), NEW list
  PROVE  Faithful(p, list) <=> FaithfulTo(i, opts, code, list)
<1>1. p.i = i /\ p.options = opts /\ p.exit_code = code
  BY DEF Parser
<1> QED BY <1>1, Zenon DEF Faithful, FaithfulTo

(* The options of a parser that goes on from an option to the next. *)
LEMMA FaithfulNext ==
  ASSUME NEW S, NEW list \in Seq(S), NEW i \in Heads(list), NEW opts,
         FaithfulTo(i, opts, "none", list), ~Stops(list, i),
         NEW k \in i + 1 .. i + 2, k \in Heads(list) \cup {Len(list) + 1},
         k = i + 2 => i + 1 \notin Heads(list),
         NEW v, list[i] \in DOMAIN Defaults, Said(list, k, list[i]) = v
  PROVE  FaithfulTo(k, [opts EXCEPT ![list[i]] = v], "none", list)
<1>1. i \in Nat /\ Heads(list) \subseteq Nat
  BY HeadsFacts DEF HeadsUpTo
<1>2. \A h \in Heads(list) : h < k <=> h < i \/ h = i
  BY <1>1
<1>3. \A h \in Heads(list) : h < k => ~Stops(list, h)
  BY <1>2 DEF FaithfulTo
<1>4. ASSUME NEW o \in DOMAIN Defaults, o # list[i] PROVE Said(list, k, o) = opts[o]
  <2>1. Uses(list, k, o) = Uses(list, i, o)
    BY <1>2, <1>4 DEF Uses
  <2>2. Said(list, k, o) = Said(list, i, o)
    BY <2>1, SaidByUses
  <2> QED BY <2>2 DEF FaithfulTo
<1>5. DOMAIN opts = DOMAIN Defaults
  BY DEF FaithfulTo
<1>6. PICK new : new = [opts EXCEPT ![list[i]] = v]
  OBVIOUS
<1>7. new = [o \in DOMAIN Defaults |-> Said(list, k, o)]
  BY <1>4, <1>5, <1>6
<1> QED BY <1>3, <1>6, <1>7 DEF FaithfulTo

(* A turn of the loop keeps the parser faithful to the arguments. *)
LEMMA TurnFaithful ==
  ASSUME NEW S, NEW list \in Seq(S), NEW i, NEW opts, NEW p, p = Parser(i, opts, "none"),
         Faithful(p, list), i <= Len(list), NEW r, r = Turn(p, list)
  PROVE  /\ Faithful(r, list)
         /\ \E k, o : \E c \in {"none", "kSuccess", "kUsageError"} : r = Parser(k, o, c)
<1>0. FaithfulTo(i, opts, "none", list)
  BY FaithfulFields
<1>1. /\ HeadsUpTo(Heads(list), list, Len(list)) /\ Len(list) \in Nat
      /\ i \in Heads(list) /\ i \in 1 .. Len(list) /\ i \in Nat
  BY <1>0, HeadsFacts DEF FaithfulTo, HeadsUpTo
<1>2. PICK arg : arg = list[i]
  OBVIOUS
<1>3. Uses(list, i + 1, arg) = Uses(list, i, arg) \cup {i}
  BY <1>1, <1>2 DEF Uses, HeadsUpTo
<1>4. CASE arg \in Help /\ r = Parser(i, opts, "kSuccess")
  <2>1. FaithfulTo(i, opts, "kSuccess", list)
    BY <1>0, <1>1, <1>2, <1>4 DEF FaithfulTo, Stops
  <2> QED BY <1>4, <2>1, FaithfulFields
<1>5. CASE arg \in Flags /\ r = Parser(i + 1, [opts EXCEPT ![arg] = TRUE], "none")
  <2>1. arg \notin WithValue /\ arg \notin Help /\ arg \in DOMAIN Defaults
    BY <1>5, OptionKinds
  <2>2. ~Stops(list, i)
    BY <1>2, <1>5, <2>1 DEF Stops, Illegal
  <2>3. i + 1 \in Heads(list) \cup {Len(list) + 1}
    <3>1. CASE i = Len(list)
      BY <1>1, <3>1
    <3>2. CASE i # Len(list)
      <4>1. i + 1 \in 1 .. Len(list) /\ (i + 1) - 1 = i
        BY <1>1, <3>2
      <4> QED BY <1>1, <1>2, <2>1, <4>1 DEF HeadsUpTo
    <3> QED BY <3>1, <3>2
  <2>4. Said(list, i + 1, arg) = TRUE
    BY <1>1, <1>2, <1>3, <1>5, SaidLast
  <2>5. PICK k : k = i + 1
    OBVIOUS
  <2>6. k \in i + 1 .. i + 2 /\ k # i + 2
    BY <1>1, <2>5
  <2>7. FaithfulTo(k, [opts EXCEPT ![arg] = TRUE], "none", list)
    BY <1>0, <1>1, <1>2, <2>1, <2>2, <2>3, <2>4, <2>5, <2>6, FaithfulNext
  <2> QED BY <1>5, <2>5, <2>7, FaithfulFields
<1>6. CASE /\ arg \in WithValue /\ i < Len(list) /\ Takes(arg, list[i + 1])
           /\ r = Parser(i + 2, [opts EXCEPT ![arg] = Value(arg, list[i + 1])], "none")
  <2>1. arg \notin Flags /\ arg \notin Help /\ arg \in DOMAIN Defaults
    BY <1>6, OptionKinds
  <2>2. Legal(arg, list[i + 1])
    BY <1>6, TakesLegal
  <2>3. ~Stops(list, i)
    BY <1>1, <1>2, <1>6, <2>1, <2>2 DEF Stops, Illegal
  <2>4. i + 1 \notin Heads(list)
    BY <1>1, <1>2, <1>6 DEF HeadsUpTo
  <2>5. i + 2 \in Heads(list) \cup {Len(list) + 1}
    <3>1. CASE i + 1 = Len(list)
      BY <1>1, <3>1
    <3>2. CASE i + 1 # Len(list)
      <4>1. i + 2 \in 1 .. Len(list) /\ (i + 2) - 1 = i + 1
        BY <1>1, <1>6, <3>2
      <4> QED BY <1>1, <2>4, <4>1 DEF HeadsUpTo
    <3> QED BY <3>1, <3>2
  <2>6. PICK k : k = i + 2
    OBVIOUS
  <2>7. Uses(list, k, arg) = Uses(list, i, arg) \cup {i}
    <3>1. \A h \in Heads(list) : h < k <=> h < i \/ h = i
      BY <1>1, <2>4, <2>6 DEF HeadsUpTo
    <3> QED BY <1>1, <1>2, <3>1 DEF Uses
  <2>8. PICK v : v = Value(arg, list[i + 1])
    OBVIOUS
  <2>9. Said(list, k, arg) = v
    BY <1>1, <1>2, <1>6, <2>2, <2>7, <2>8, SaidLast
  <2>10. k \in i + 1 .. i + 2
    BY <1>1, <2>6
  <2>11. FaithfulTo(k, [opts EXCEPT ![arg] = v], "none", list)
    BY <1>0, <1>1, <1>2, <2>1, <2>3, <2>4, <2>5, <2>6, <2>9, <2>10, FaithfulNext
  <2> QED BY <1>6, <2>6, <2>8, <2>11, FaithfulFields
<1>7. CASE /\ arg \notin Help /\ arg \notin Flags
           /\ ~(i < Len(list) /\ Takes(arg, list[i + 1]))
           /\ r = Parser(i, opts, "kUsageError")
  <2>1. Stops(list, i)
    <3>1. CASE arg \notin WithValue
      BY <1>2, <1>7, <3>1 DEF Stops, Illegal
    <3>2. CASE arg \in WithValue
      <4>1. i = Len(list) \/ ~Legal(arg, list[i + 1])
        BY <1>1, <1>7, <3>2, TakesLegal
      <4> QED BY <1>2, <3>2, <4>1 DEF Stops, Illegal
    <3> QED BY <3>1, <3>2
  <2>2. FaithfulTo(i, opts, "kUsageError", list)
    BY <1>0, <1>1, <1>2, <1>7, <2>1 DEF FaithfulTo
  <2> QED BY <1>7, <2>2, FaithfulFields
<1>8. Turned(i, opts, "none", list, arg, r)
  BY <1>2, TurnCases
<1> QED BY <1>4, <1>5, <1>6, <1>7, <1>8 DEF Turned

(* A parser that has not started is faithful: nothing is said yet. *)
LEMMA UnparsedFaithful ==
  ASSUME NEW S, NEW list \in Seq(S)
  PROVE  Faithful(Unparsed, list) /\ Unparsed = Parser(1, Defaults, "none")
<1>1. Unparsed = Parser(1, Defaults, "none")
  BY DEF Unparsed, Parser
<1>2. HeadsUpTo(Heads(list), list, Len(list)) /\ Len(list) \in Nat
  BY HeadsFacts
<1>3. Heads(list) \subseteq Nat \ {0}
  BY <1>2 DEF HeadsUpTo
<1>4. 1 \in Heads(list) \cup {Len(list) + 1}
  <2>1. CASE Len(list) = 0
    BY <2>1
  <2>2. CASE Len(list) # 0
    <3>1. 1 \in 1 .. Len(list) /\ 1 - 1 \notin Heads(list)
      BY <1>2, <1>3, <2>2
    <3> QED BY <1>2, <3>1 DEF HeadsUpTo
  <2> QED BY <2>1, <2>2
<1>5. \A h \in Heads(list) : ~(h < 1)
  BY <1>3
<1>6. ASSUME NEW o \in DOMAIN Defaults PROVE Said(list, 1, o) = Defaults[o]
  <2>1. Uses(list, 1, o) = {}
    BY <1>5 DEF Uses
  <2> QED BY <2>1, Zenon DEF Said
<1>7. Defaults = [o \in DOMAIN Defaults |-> Said(list, 1, o)]
  BY <1>6, OptionKinds
<1>8. FaithfulTo(1, Defaults, "none", list)
  BY <1>4, <1>5, <1>7 DEF FaithfulTo
<1> QED BY <1>1, <1>8, FaithfulFields

-----------------------------------------------------------------------------
(* The devices of a stage                                                  *)

(* The loop of Select(), as a function of the positions it has passed. *)
Selecting(f, list, answers, n) ==
  f = [k \in 0 .. n |-> IF k = 0 THEN <<>>
                        ELSE IF answers[k] = "ssh" THEN Append(f[k - 1], list[k])
                        ELSE f[k - 1]]

(* The recursion of Select() has a solution. *)
LEMMA SelectingExists ==
  ASSUME NEW list, NEW answers, NEW n \in Nat
  PROVE  \E f : Selecting(f, list, answers, n)
<1> DEFINE T == {m \in Nat : ~ \E f : Selecting(f, list, answers, m)}
           Next1(x, k) == IF answers[k] = "ssh" THEN Append(x, list[k]) ELSE x
<1>1. T \subseteq Nat
  OBVIOUS
<1>2. SUFFICES ASSUME T # {} PROVE FALSE
  OBVIOUS
<1>3. PICK m \in T : \A y \in T : m <= y
  <2> HIDE DEF T
  <2> QED BY <1>1, <1>2, LeastNat
<1>4. m \in Nat /\ ~ \E f : Selecting(f, list, answers, m)
  BY <1>3
<1>5. CASE m = 0
  <2>1. PICK f : f = [k \in 0 .. 0 |-> <<>>]
    OBVIOUS
  <2>2. Selecting(f, list, answers, 0)
    BY <2>1 DEF Selecting
  <2> QED BY <1>4, <1>5, <2>2
<1>6. CASE m # 0
  <2>1. m - 1 \in Nat /\ m - 1 \notin T
    BY <1>3, <1>4, <1>6
  <2>2. PICK g : Selecting(g, list, answers, m - 1)
    BY <2>1
  <2>3. \A k \in 0 .. m - 1 : g[k] = IF k = 0 THEN <<>> ELSE Next1(g[k - 1], k)
    BY <2>2 DEF Selecting
  <2>4. PICK h : h = [k \in 0 .. m |-> IF k = m THEN Next1(g[m - 1], m) ELSE g[k]]
    OBVIOUS
  <2> HIDE DEF Next1
  <2>5. h[m] = Next1(g[m - 1], m) /\ \A k \in 0 .. m - 1 : h[k] = g[k]
    BY <1>4, <1>6, <2>4
  <2>6. \A k \in 0 .. m : h[k] = IF k = 0 THEN <<>> ELSE Next1(h[k - 1], k)
    <3> SUFFICES ASSUME NEW k \in 0 .. m
                 PROVE  h[k] = IF k = 0 THEN <<>> ELSE Next1(h[k - 1], k)
      OBVIOUS
    <3>1. CASE k = m
      <4>1. m - 1 \in 0 .. m - 1
        BY <1>4, <1>6
      <4> QED BY <1>6, <2>5, <3>1, <4>1
    <3>2. CASE k = 0
      BY <1>4, <1>6, <2>3, <2>5, <3>2
    <3>3. CASE k # m /\ k # 0
      <4>1. k \in 0 .. m - 1 /\ k - 1 \in 0 .. m - 1
        BY <1>4, <3>3
      <4> QED BY <2>3, <2>5, <3>3, <4>1
    <3> QED BY <3>1, <3>2, <3>3
  <2>7. h = [k \in 0 .. m |-> IF k = 0 THEN <<>> ELSE Next1(h[k - 1], k)]
    BY <2>4, <2>6
  <2>8. Selecting(h, list, answers, m)
    BY <2>7, Zenon DEF Selecting, Next1
  <2> QED BY <1>4, <2>8
<1> QED BY <1>5, <1>6

(* Where the answers say that a device was found. *)
Found(list, answers) == {i \in DOMAIN list : answers[i] = "ssh"}

Selected(S, list, answers, r) ==
  /\ r \in Seq(S)
  /\ \A k \in 1 .. Len(r) : \E i \in Found(list, answers) : r[k] = list[i]
  /\ Len(r) = Cardinality(Found(list, answers))

(* Select() returns the addresses that answered, one for each answer. *)
LEMMA SelectFacts ==
  ASSUME NEW S, NEW list \in Seq(S), NEW answers, NEW r,
         r = Discovery!Select(list, LAMBDA i : answers[i] = "ssh")
  PROVE  Selected(S, list, answers, r)
<1> USE DEF Selected
<1>0. Len(list) \in Nat /\ DOMAIN list = 1 .. Len(list)
  OBVIOUS
<1>1. \E f : Selecting(f, list, answers, Len(list))
  BY <1>0, SelectingExists
<1>2. PICK f : f = CHOOSE g : Selecting(g, list, answers, Len(list))
  OBVIOUS
<1>3. Selecting(f, list, answers, Len(list))
  BY <1>1, <1>2, Zenon
<1>4. r = f[Len(list)]
  BY <1>2, Zenon DEF Discovery!Select, Selecting
<1> DEFINE Hits(n) == {i \in 1 .. n : answers[i] = "ssh"}
           Good(n) ==
             /\ f[n] \in Seq(S)
             /\ \A k \in 1 .. Len(f[n]) : \E i \in Hits(n) : f[n][k] = list[i]
             /\ IsFiniteSet(Hits(n)) /\ Len(f[n]) = Cardinality(Hits(n))
           Bad == {n \in 0 .. Len(list) : ~ Good(n)}
<1>5. Good(0)
  <2>1. f[0] = <<>>
    BY <1>0, <1>3 DEF Selecting
  <2>2. Hits(0) = {}
    OBVIOUS
  <2>3. IsFiniteSet(Hits(0)) /\ Cardinality(Hits(0)) = 0
    BY <2>2, FS_EmptySet
  <2>4. f[0] \in Seq(S) /\ Len(f[0]) = 0
    BY <2>1
  <2> HIDE DEF Hits
  <2> QED BY <2>3, <2>4
<1>6. ASSUME NEW n \in 1 .. Len(list), Good(n - 1) PROVE Good(n)
  <2>0. n \in 0 .. Len(list) /\ n # 0
    BY <1>0
  <2>1. f[n] = IF answers[n] = "ssh" THEN Append(f[n - 1], list[n]) ELSE f[n - 1]
    BY <1>3, <2>0 DEF Selecting
  <2>2. CASE answers[n] # "ssh"
    <3>1. Hits(n) = Hits(n - 1)
      BY <1>0, <2>2
    <3> HIDE DEF Hits
    <3> QED BY <1>6, <2>1, <2>2, <3>1
  <2>3. CASE answers[n] = "ssh"
    <3>1. Hits(n) = Hits(n - 1) \cup {n} /\ n \notin Hits(n - 1)
      BY <1>0, <2>3
    <3> HIDE DEF Hits
    <3>2. /\ IsFiniteSet(Hits(n))
          /\ Cardinality(Hits(n)) = Cardinality(Hits(n - 1)) + 1
      BY <1>6, <3>1, FS_AddElement
    <3>3. PICK x : x = f[n - 1]
      OBVIOUS
    <3>4. x \in Seq(S) /\ f[n] = Append(x, list[n]) /\ list[n] \in S
      BY <1>6, <2>1, <2>3, <3>3
    <3>5. /\ f[n] \in Seq(S) /\ Len(f[n]) = Len(x) + 1 /\ Len(x) \in Nat
          /\ f[n][Len(x) + 1] = list[n]
          /\ \A k \in 1 .. Len(x) : f[n][k] = x[k]
      BY <3>4
    <3>6. ASSUME NEW k \in 1 .. Len(f[n]) PROVE \E i \in Hits(n) : f[n][k] = list[i]
      <4>1. CASE k = Len(x) + 1
        BY <3>1, <3>5, <4>1
      <4>2. CASE k # Len(x) + 1
        <5>1. k \in 1 .. Len(x)
          BY <3>5, <4>2
        <5> QED BY <1>6, <3>1, <3>3, <3>5, <5>1
      <4> QED BY <4>1, <4>2
    <3> QED BY <1>6, <3>2, <3>3, <3>5, <3>6
  <2> QED BY <2>2, <2>3
<1>7. Bad = {}
  <2> HIDE DEF Good
  <2>1. SUFFICES ASSUME Bad # {} PROVE FALSE
    OBVIOUS
  <2>2. Bad \subseteq Nat
    OBVIOUS
  <2>3. PICK n \in Bad : \A y \in Bad : n <= y
    <3> HIDE DEF Bad
    <3> QED BY <2>1, <2>2, LeastNat
  <2>4. n \in 0 .. Len(list) /\ ~ Good(n) /\ n # 0
    BY <1>5, <2>3
  <2>5. n \in 1 .. Len(list) /\ n - 1 \in 0 .. Len(list) /\ n - 1 \notin Bad
    BY <2>3, <2>4
  <2>6. Good(n - 1)
    BY <2>5
  <2> QED BY <1>6, <2>4, <2>5, <2>6
<1>8. Good(Len(list))
  <2> HIDE DEF Good
  <2>1. Len(list) \in 0 .. Len(list)
    BY <1>0
  <2> QED BY <1>7, <2>1
<1>9. Hits(Len(list)) = Found(list, answers)
  BY <1>0 DEF Found
<1> HIDE DEF Hits
<1> QED BY <1>4, <1>8, <1>9

-----------------------------------------------------------------------------
(* The inductive invariant                                                 *)

Connecting == {"tcp", "blocking", "init", "handshake", "hostkey", "auth"}
Executing  == {"open", "exec", "stdout", "stderr", "close"}

WithChannel == {"exec", "stdout", "stderr", "close"}
WithSession == {"handshake", "hostkey", "auth", "ready", "open"} \cup WithChannel
WithSocket  == {"blocking", "init"} \cup WithSession

Before == {"start", "options", "stages"}
After  == {"connect", "ifconfig", "fallback"}

strict == options["--strict-host-key"]

(* The client holds what the place it is at says, unless it threw. *)
HeldInv ==
  /\ at \in {"idle", "ready", "threw"} \cup Connecting \cup Executing
  /\ {socket, session, channel, password_sent} \subseteq BOOLEAN
  /\ at # "threw" => /\ socket <=> at \in WithSocket
                     /\ session <=> at \in WithSession
                     /\ channel <=> at \in WithChannel

(* Under --strict-host-key the password waits for a key that matches. *)
GateInv == at = "auth" /\ strict => lookup = "match"

(* Where run() is, where the client is, and whether the password has left. *)
(* A connection that failed sent it, if at all, where the error says that  *)
(* the authentication failed.                                              *)
PlaceInv ==
  /\ at_run \in Before \cup After \cup {"exited"}
  /\ at_run \in Before \cup {"exited"} => at = "idle"
  /\ at_run \in Before => ~password_sent
  /\ at_run = "connect" =>
       \/ at \in Connecting /\ ~password_sent
       \/ at = "ready" /\ password_sent
       \/ at = "threw"
       \/ /\ at = "idle"
          /\ password_sent => last_error = "authentication"
          /\ last_error = "authentication" /\ strict => lookup = "match"
  /\ at_run \in {"ifconfig", "fallback"} =>
       at \in Executing \cup {"ready", "threw"} /\ password_sent

SentCodes   == {"kSuccess", "kRemoteCommandFailed", "kParseFailed",
                "kUnexpectedInterfaceCount"}
UnsentCodes == {"kUsageError", "kNoInterface", "kMultipleInterfaces",
                "kMultipleDevices", "kSshConnectionFailed"}
Codes       == SentCodes \cup UnsentCodes \cup {"kSshAuthFailed", "kNoDevice"}

(* What an exit code may tell. *)
Tells(code) ==
  \/ code \in SentCodes /\ password_sent
  \/ code \in UnsentCodes /\ ~password_sent
  \/ code = "kSshAuthFailed" /\ (strict => lookup = "match")
  \/ code = "kNoDevice"

CodeInv ==
  /\ exit_code # "none" <=> at_run = "exited"
  /\ at_run = "exited" /\ ~mock /\ parser.exit_code # "kSuccess" => Tells(exit_code)

(* The options are those written, all of them when run() goes on, which it *)
(* does with a password.                                                   *)
ParseInv ==
  /\ argv \in Seq(Texts)
  /\ parser = Parser(parser.i, parser.options, parser.exit_code)
  /\ parser.exit_code \in {"none", "kSuccess", "kUsageError"}
  /\ Faithful(parser, argv)
  /\ at_run \in {"start", "options"} => parser.exit_code = "none"
  /\ at_run \in After \cup {"stages"} => parser.i > Len(argv) /\ password # Empty

(* What is known of the addresses of a stage; devices are those found. *)
StageInv ==
  /\ hosts \in Seq(Hosts) /\ Len(hosts) <= MaxHosts
  /\ answer \in [1 .. MaxHosts -> {"unasked", "asked", "ssh", "nothing"}]
  /\ \A i \in 1 .. MaxHosts : i > Len(hosts) \/ phase = "choosing" => answer[i] = "unasked"
  /\ phase \in {"closing", "settled"} =>
       /\ \A i \in 1 .. MaxHosts : answer[i] # "asked"
       /\ Selected(Hosts, hosts, answer, devices)

(* The device that run() talks to answered, and was chosen if others did.  *)
TargetInv ==
  at_run \in After =>
    /\ phase = "settled"
    /\ \E i \in Found(hosts, answer) : hosts[i] = target
    /\ Cardinality(Found(hosts, answer)) > 1 => target = select

RunInv ==
  /\ HeldInv
  /\ GateInv
  /\ PlaceInv
  /\ CodeInv
  /\ ParseInv
  /\ StageInv
  /\ TargetInv

(* The program at its start. *)
LEMMA RunInitInv == Init => RunInv
<1> SUFFICES ASSUME Init PROVE RunInv
  OBVIOUS
<1>1. /\ argv \in CommandLines /\ parser = Unparsed /\ at_run = "start" /\ exit_code = "none"
      /\ Discovery!Init /\ at = "idle"
      /\ socket = FALSE /\ session = FALSE /\ channel = FALSE /\ password_sent = FALSE
  BY Zenon DEF Init, Client!Init
<1>2. {socket, session, channel, password_sent} \subseteq BOOLEAN
  BY <1>1, Zenon
<1>3. HeldInv /\ GateInv
  BY <1>1, <1>2 DEF HeldInv, GateInv, WithSocket, WithSession, WithChannel
<1>4. PlaceInv /\ CodeInv /\ TargetInv
  BY <1>1 DEF PlaceInv, CodeInv, TargetInv, Before, After
<1>5. argv \in Seq(Texts)
  BY <1>1, RunAssumption
<1>6. ParseInv
  <2>1. Faithful(parser, argv) /\ parser = Parser(1, Defaults, "none")
    BY <1>1, <1>5, UnparsedFaithful
  <2>2. parser.i = 1 /\ parser.options = Defaults /\ parser.exit_code = "none"
    BY <2>1 DEF Parser
  <2> QED BY <1>1, <1>5, <2>1, <2>2 DEF ParseInv, After
<1>7. StageInv
  <2>1. /\ phase = "choosing" /\ hosts = <<>> /\ MaxHosts \in Nat
        /\ answer = [i \in 1 .. MaxHosts |-> "unasked"]
    BY <1>1, RunAssumption DEF Discovery!Init, Discovery!Unasked, Discovery!Index
  <2>2. hosts \in Seq(Hosts) /\ Len(hosts) <= MaxHosts
    BY <2>1
  <2> QED BY <2>1, <2>2 DEF StageInv
<1> QED BY <1>3, <1>4, <1>6, <1>7 DEF RunInv

(* The parts of the invariant that say nothing of the client. *)
LEMMA RunUnchanged ==
  ASSUME RunInv, UNCHANGED <<argv, parser, at_run, target, discovery>>
  PROVE  ParseInv' /\ StageInv' /\ TargetInv'
<1>1. /\ UNCHANGED <<argv, parser, at_run, target>>
      /\ UNCHANGED <<phase, hosts, answer, devices>>
  BY DEF discovery
<1>2. ParseInv'
  BY <1>1, Zenon DEF RunInv, ParseInv, password, options
<1>3. StageInv'
  BY <1>1, Zenon DEF RunInv, StageInv
<1>4. TargetInv'
  BY <1>1, Zenon DEF RunInv, TargetInv, select, options
<1> QED BY <1>2, <1>3, <1>4

(* The steps of connect_and_authenticate(). *)
LEMMA ConnectingStep ==
  ASSUME RunInv, UNCHANGED <<run, discovery>>,
         \/ Client!ConnectTcp \/ Client!SetBlocking \/ Client!InitSession
         \/ Client!Handshake \/ Client!CheckHostKey \/ Client!Authenticate
  PROVE  RunInv'
<1> USE DEF RunInv
<1>1. UNCHANGED <<argv, parser, at_run, target, exit_code, discovery>>
  BY DEF run
<1>2. at \in Connecting
  BY Zenon DEF Client!ConnectTcp, Client!SetBlocking, Client!InitSession, Client!Handshake,
         Client!CheckHostKey, Client!Authenticate, Client!StepOrAbandon, Connecting
<1>3. at_run = "connect" /\ ~password_sent
  BY <1>2 DEF PlaceInv, Before, After, Connecting, Executing
<1>4. {socket', session', channel', password_sent'} \subseteq BOOLEAN
  BY Zenon DEF HeldInv, Client!ConnectTcp, Client!SetBlocking, Client!InitSession,
         Client!Handshake, Client!CheckHostKey, Client!Authenticate, Client!StepOrAbandon,
         Client!Abandon, Client!Closed, Client!connection
<1>5. ~channel
  BY <1>2 DEF HeldInv, WithChannel, Connecting
<1>6. \/ /\ at' = "idle" /\ ~socket' /\ ~session' /\ ~channel'
         /\ \/ last_error' # "authentication" /\ password_sent' = password_sent
            \/ /\ at = "auth" /\ last_error' = "authentication"
               /\ lookup' = lookup
      \/ /\ channel' = channel
         /\ \/ at = "tcp" /\ at' = "blocking" /\ socket' /\ UNCHANGED <<session, password_sent>>
            \/ at = "blocking" /\ at' = "init" /\ UNCHANGED <<socket, session, password_sent>>
            \/ at = "init" /\ at' = "handshake" /\ session' /\ UNCHANGED <<socket, password_sent>>
            \/ at = "handshake" /\ at' = "hostkey" /\ UNCHANGED <<socket, session, password_sent>>
            \/ /\ at = "hostkey" /\ at' = "auth" /\ UNCHANGED <<socket, session, password_sent>>
               /\ strict => lookup' = "match"
            \/ at = "auth" /\ at' = "ready" /\ password_sent' /\ UNCHANGED <<socket, session>>
  <2>1. CASE Client!ConnectTcp \/ Client!InitSession
    BY <2>1 DEF Client!ConnectTcp, Client!InitSession, Client!Abandon, Client!Closed
  <2>2. CASE Client!SetBlocking \/ Client!Handshake
    BY <2>2 DEF Client!SetBlocking, Client!Handshake, Client!StepOrAbandon, Client!Abandon,
                Client!Closed, Client!connection
  <2>3. CASE Client!CheckHostKey
    BY <2>3 DEF Client!CheckHostKey, Client!StatusOf, Client!Closed, strict
  <2>4. CASE Client!Authenticate
    BY <2>4 DEF Client!Authenticate, Client!Closed
  <2> QED BY <2>1, <2>2, <2>3, <2>4
<1>7. HeldInv'
  BY <1>2, <1>4, <1>5, <1>6 DEF HeldInv, WithSocket, WithSession, WithChannel, Connecting, Executing
<1>8. strict' = strict
  BY <1>1, Zenon DEF strict, options
<1>9. GateInv'
  BY <1>6, <1>8 DEF GateInv
<1>10. PlaceInv'
  BY <1>1, <1>3, <1>6, <1>8 DEF PlaceInv, GateInv, Before, After, Connecting, Executing
<1>11. CodeInv'
  BY <1>1, <1>3 DEF CodeInv
<1> QED BY <1>1, <1>7, <1>9, <1>10, <1>11, RunUnchanged

(* The steps of execute(). *)
LEMMA ExecutingStep ==
  ASSUME RunInv, UNCHANGED <<run, discovery>>,
         \/ Client!OpenChannel \/ Client!ExecCommand \/ Client!ReadStdout
         \/ Client!ReadStderr \/ Client!CloseChannel
  PROVE  RunInv'
<1> USE DEF RunInv
<1>1. UNCHANGED <<argv, parser, at_run, target, exit_code, discovery>>
  BY DEF run
<1>2. at \in Executing /\ UNCHANGED <<socket, session, lookup, password_sent>>
  BY DEF Client!OpenChannel, Client!ExecCommand, Client!ReadStdout, Client!ReadStderr,
         Client!CloseChannel, Client!ExecuteFails, Client!connection, Executing
<1>3. at_run \in {"ifconfig", "fallback"}
  BY <1>2 DEF PlaceInv, Before, After, Connecting, Executing
<1>4. \/ at' = "ready" /\ channel' = FALSE
      \/ at = "open" /\ at' = "exec" /\ channel' = TRUE
      \/ at \in WithChannel /\ at' \in WithChannel /\ channel' = channel
  <2>1. CASE Client!OpenChannel
    BY <2>1 DEF Client!OpenChannel, Client!ExecuteFails
  <2>2. CASE Client!ExecCommand
    BY <2>2 DEF Client!ExecCommand, Client!ExecuteFails, WithChannel
  <2>3. CASE Client!ReadStdout \/ Client!ReadStderr
    BY <2>3, Zenon DEF Client!ReadStdout, Client!ReadStderr, WithChannel
  <2>4. CASE Client!CloseChannel
    BY <2>4 DEF Client!CloseChannel
  <2> QED BY <2>1, <2>2, <2>3, <2>4
<1>5. {socket', session', channel', password_sent'} \subseteq BOOLEAN
  BY <1>2, <1>4, Zenon DEF HeldInv
<1>6. HeldInv'
  BY <1>2, <1>4, <1>5 DEF HeldInv, WithSocket, WithSession, WithChannel, Connecting, Executing
<1>7. GateInv'
  BY <1>4 DEF GateInv, WithChannel
<1>8. PlaceInv'
  BY <1>1, <1>2, <1>3, <1>4 DEF PlaceInv, Before, After, Connecting, Executing, WithChannel
<1>9. CodeInv'
  BY <1>1, <1>3 DEF CodeInv
<1> QED BY <1>1, <1>6, <1>7, <1>8, <1>9, RunUnchanged

(* An exception stops a call of the client where it is. *)
LEMMA ThrowingStep == ASSUME RunInv, ClientThrows PROVE RunInv'
<1> USE DEF RunInv
<1>1. /\ UNCHANGED <<argv, parser, at_run, target, exit_code, discovery>>
      /\ UNCHANGED <<socket, session, channel>>
      /\ at \notin {"idle", "ready", "threw"} /\ at' = "threw"
      /\ at = "auth" \/ password_sent' = password_sent
  BY DEF ClientThrows, Client!Throws, Client!Resting, run
<1>2. password_sent' \in BOOLEAN
  BY Zenon DEF ClientThrows, Client!Throws, HeldInv
<1>3. HeldInv' /\ GateInv'
  BY <1>1, <1>2 DEF HeldInv, GateInv
<1>4. at_run \in After
  BY <1>1 DEF PlaceInv
<1>5. PlaceInv'
  <2>1. CASE at_run = "connect"
    BY <1>1, <2>1 DEF PlaceInv, Before
  <2>2. CASE at_run \in {"ifconfig", "fallback"}
    <3>1. at # "auth" /\ password_sent
      BY <1>1, <2>2 DEF PlaceInv, Executing
    <3>2. password_sent' = password_sent
      BY <1>1, <3>1
    <3> QED BY <1>1, <2>2, <3>1, <3>2 DEF PlaceInv, Before
  <2> QED BY <1>4, <2>1, <2>2 DEF After
<1>6. CodeInv'
  BY <1>1, <1>4 DEF CodeInv, After
<1> QED BY <1>1, <1>3, <1>5, <1>6, RunUnchanged

(* The client does not move while run() leaves it alone. *)
LEMMA ClientUnchanged ==
  ASSUME RunInv, UNCHANGED <<parser, client>>
  PROVE  HeldInv' /\ GateInv'
BY Zenon DEF RunInv, HeldInv, GateInv, client, strict, options

(* run() ends before the password was needed. *)
LEMMA EarlyExit ==
  ASSUME RunInv, at_run \in Before, NEW code \in Codes, Exit(code),
         UNCHANGED <<argv, parser, target, discovery, client>>,
         mock \/ code \in UnsentCodes \cup {"kNoDevice"}
  PROVE  RunInv'
<1> USE DEF RunInv
<1>1. at_run' = "exited" /\ exit_code' = code /\ code # "none"
  BY DEF Exit, Codes, SentCodes, UnsentCodes
<1>2. HeldInv' /\ GateInv'
  BY ClientUnchanged
<1>3. at = "idle" /\ ~password_sent /\ at' = at /\ password_sent' = password_sent
  BY DEF PlaceInv, client
<1>4. PlaceInv' /\ TargetInv'
  BY <1>1, <1>3 DEF PlaceInv, TargetInv, Before, After
<1>5. mock' = mock
  BY Zenon DEF mock, options
<1>6. CodeInv'
  BY <1>1, <1>3, <1>5 DEF CodeInv, Tells
<1>7. ParseInv'
  BY <1>1, Zenon DEF ParseInv, After
<1>8. StageInv'
  BY Zenon DEF StageInv, discovery
<1> QED BY <1>2, <1>4, <1>6, <1>7, <1>8

(* What a report ends with. *)
LEMMA ReportCodes ==
  ASSUME NEW list
  PROVE  ReportCode(list) \in {"kParseFailed", "kSuccess", "kUnexpectedInterfaceCount"}
BY Zenon DEF ReportCode

(* The exits before the discovery, and those that it ends with.            *)
LEMMA EarlyExits ==
  ASSUME RunInv, \/ WinsockFails \/ MockMode \/ NoPassword \/ EnumerationThrows
                 \/ DiscoveryThrows \/ NoDevice
  PROVE  RunInv'
<1>1. at_run \in Before /\ UNCHANGED <<argv, parser, target, discovery, client>>
  BY DEF WinsockFails, MockMode, NoPassword, EnumerationThrows, DiscoveryThrows, NoDevice,
         Refuse, Parsed, Before
<1>2. CASE WinsockFails \/ NoPassword \/ EnumerationThrows \/ DiscoveryThrows \/ NoDevice
  <2>1. PICK code \in {"kUsageError", "kNoDevice"} : Exit(code)
    BY <1>2 DEF WinsockFails, NoPassword, EnumerationThrows, DiscoveryThrows, NoDevice, Refuse
  <2>2. code \in Codes /\ code \in UnsentCodes \cup {"kNoDevice"}
    BY DEF Codes, UnsentCodes
  <2> QED BY <1>1, <2>1, <2>2, EarlyExit
<1>3. CASE MockMode
  <2>1. mock
    BY <1>3 DEF MockMode
  <2>2. PICK code \in Codes : Exit(code)
    <3>1. \/ Exit("kUsageError")
          \/ Exit("kNoDevice")
          \/ \E list : Exit(ReportCode(list))
      BY <1>3, Zenon DEF MockMode
    <3> QED BY <3>1, ReportCodes DEF Codes, SentCodes, UnsentCodes
  <2> QED BY <1>1, <2>1, <2>2, EarlyExit
<1> QED BY <1>2, <1>3

(* run() goes on from one place to another without the client. *)
LEMMA MoveOn ==
  ASSUME RunInv, at_run \in Before, at_run' \in {"options", "stages"},
         UNCHANGED <<argv, target, exit_code, discovery, client>>, ParseInv',
         HeldInv', GateInv'
  PROVE  RunInv'
<1>1. at = "idle" /\ ~password_sent /\ at' = at /\ password_sent' = password_sent
  BY DEF RunInv, PlaceInv, client
<1>2. PlaceInv' /\ TargetInv'
  BY <1>1 DEF PlaceInv, TargetInv, Before, After
<1>3. CodeInv'
  BY DEF RunInv, CodeInv, Before
<1>4. StageInv'
  BY Zenon DEF RunInv, StageInv, discovery
<1> QED BY <1>2, <1>3, <1>4 DEF RunInv

(* The command line is parsed, argument by argument. *)
LEMMA ParsingStep ==
  ASSUME RunInv, StartParsing \/ ParseOption
  PROVE  RunInv'
<1> USE DEF RunInv
<1>1. CASE StartParsing
  <2>1. /\ at_run = "start" /\ at_run' = "options"
        /\ UNCHANGED <<argv, parser, target, exit_code, discovery, client>>
    BY <1>1 DEF StartParsing
  <2>2. ParseInv'
    BY <2>1, Zenon DEF ParseInv, After
  <2>3. at_run \in Before /\ at_run' \in {"options", "stages"}
    BY <2>1 DEF Before
  <2> QED BY <2>1, <2>2, <2>3, MoveOn, ClientUnchanged
<1>2. CASE ParseOption
  <2>1. /\ at_run = "options" /\ parser.i <= Len(argv) /\ parser' = Turn(parser, argv)
        /\ UNCHANGED <<argv, target, discovery, client>>
        /\ IF parser'.exit_code = "none" THEN UNCHANGED <<at_run, exit_code>>
                                         ELSE Exit(parser'.exit_code)
    BY <1>2 DEF ParseOption
  <2>2. /\ argv \in Seq(Texts) /\ Faithful(parser, argv)
        /\ parser = Parser(parser.i, parser.options, "none")
    BY <2>1 DEF ParseInv
  <2>3. /\ Faithful(parser', argv)
        /\ \E k, o : \E c \in {"none", "kSuccess", "kUsageError"} : parser' = Parser(k, o, c)
    BY <2>1, <2>2, TurnFaithful
  <2>4. /\ parser' = Parser(parser'.i, parser'.options, parser'.exit_code)
        /\ parser'.exit_code \in {"none", "kSuccess", "kUsageError"}
    BY <2>3 DEF Parser
  <2>5. at_run' \in {"options", "exited"} /\ (at_run' = "options" => parser'.exit_code = "none")
    BY <2>1 DEF Exit
  <2>6. ParseInv'
    <3>1. argv' = argv /\ at_run' \notin After \cup {"start", "stages"}
      BY <2>1, <2>5 DEF After
    <3> QED BY <2>2, <2>3, <2>4, <2>5, <3>1 DEF ParseInv
  <2>7. at = "idle" /\ ~password_sent /\ UNCHANGED <<at, password_sent, socket, session, channel>>
    BY <2>1 DEF PlaceInv, Before, client
  <2>8. HeldInv' /\ GateInv'
    <3>1. HeldInv'
      BY <2>7, Zenon DEF HeldInv
    <3> QED BY <2>7, <3>1 DEF GateInv
  <2>9. CASE parser'.exit_code = "none"
    <3>1. UNCHANGED <<at_run, exit_code>>
      BY <2>1, <2>9
    <3>2. at_run \in Before /\ at_run' \in {"options", "stages"}
      BY <2>1, <3>1 DEF Before
    <3> QED BY <2>1, <2>6, <2>8, <3>1, <3>2, MoveOn
  <2>10. CASE parser'.exit_code # "none"
    <3>1. at_run' = "exited" /\ exit_code' = parser'.exit_code
      BY <2>1, <2>10 DEF Exit
    <3>2. exit_code' = "kUsageError" \/ parser'.exit_code = "kSuccess"
      BY <2>4, <2>10, <3>1
    <3>3. PlaceInv' /\ TargetInv'
      BY <2>7, <3>1 DEF PlaceInv, TargetInv, Before, After
    <3>4. CodeInv'
      BY <2>7, <2>10, <3>1, <3>2 DEF CodeInv, Tells, UnsentCodes
    <3>5. StageInv'
      BY <2>1, Zenon DEF StageInv, discovery
    <3> QED BY <2>6, <2>8, <3>3, <3>4, <3>5
  <2> QED BY <2>9, <2>10
<1> QED BY <1>1, <1>2

(* The choice of the interface. *)
LEMMA InterfaceStep ==
  ASSUME RunInv, SelectInterface
  PROVE  RunInv'
<1>1. /\ at_run = "options" /\ parser.i > Len(argv) /\ password # Empty
      /\ UNCHANGED <<argv, parser, target, discovery, client>>
  BY DEF SelectInterface, Parsed
<1>2. \/ Exit("kNoInterface") \/ Exit("kMultipleInterfaces")
      \/ at_run' = "stages" /\ UNCHANGED exit_code
  BY Zenon DEF SelectInterface
<1>3. at_run \in Before
  BY <1>1 DEF Before
<1>4. CASE Exit("kNoInterface") \/ Exit("kMultipleInterfaces")
  <2>1. PICK code \in {"kNoInterface", "kMultipleInterfaces"} : Exit(code)
    BY <1>4
  <2>2. code \in UnsentCodes /\ code \in Codes
    BY DEF Codes, UnsentCodes
  <2> QED BY <1>1, <1>3, <2>1, <2>2, EarlyExit
<1>5. CASE at_run' = "stages" /\ UNCHANGED exit_code
  <2>1. password' = password
    BY <1>1, Zenon DEF password, options
  <2>2. ParseInv'
    <3>1. /\ parser.i > Len(argv) /\ argv \in Seq(Texts) /\ Faithful(parser, argv)
          /\ parser = Parser(parser.i, parser.options, parser.exit_code)
          /\ parser.exit_code \in {"none", "kSuccess", "kUsageError"}
      BY <1>1 DEF RunInv, ParseInv
    <3> QED BY <1>1, <1>5, <2>1, <3>1, Zenon DEF ParseInv
  <2> QED BY <1>1, <1>3, <1>5, <2>2, MoveOn, ClientUnchanged
<1> QED BY <1>2, <1>4, <1>5

(* The stages keep track of what they asked and found. *)
LEMMA StageStep ==
  ASSUME StageInv, Discovery!Next
  PROVE  StageInv'
<1> USE DEF StageInv
<1>0. MaxHosts \in Nat /\ Len(hosts) \in Nat /\ DOMAIN hosts = 1 .. Len(hosts)
  BY RunAssumption
<1>1. ASSUME NEW list \in HostLists, Discovery!Choose(list) PROVE StageInv'
  <2>1. /\ phase = "choosing" /\ phase' = "probing" /\ hosts' = list
        /\ UNCHANGED <<answer, devices>>
    BY <1>1 DEF Discovery!Choose
  <2>2. list \in Seq(Hosts) /\ Len(list) <= MaxHosts
    BY RunAssumption
  <2> QED BY <1>0, <2>1, <2>2
<1>2. ASSUME NEW i \in 1 .. MaxHosts, NEW verdict \in {"asked", "ssh", "nothing"},
             answer' = [answer EXCEPT ![i] = verdict], UNCHANGED <<phase, hosts, devices>>,
             phase \in {"probing", "failing"}, i \in DOMAIN hosts
      PROVE  StageInv'
  <2>1. \A k \in 1 .. MaxHosts : k > Len(hosts) => k # i
    BY <1>0, <1>2
  <2> QED BY <1>0, <1>2, <2>1
<1>3. ASSUME NEW i \in 1 .. MaxHosts, Discovery!Ask(i) PROVE StageInv'
  BY <1>2, <1>3 DEF Discovery!Ask
<1>4. ASSUME NEW i \in 1 .. MaxHosts, NEW verdict \in {"ssh", "nothing"},
             Discovery!Answer(i, verdict)
      PROVE  StageInv'
  <2>1. i \in DOMAIN hosts
    BY <1>0, <1>4 DEF Discovery!Answer
  <2> QED BY <1>2, <1>4, <2>1 DEF Discovery!Answer
<1>5. CASE Discovery!Conclude
  <2>1. /\ phase = "probing" /\ \A i \in DOMAIN hosts : answer[i] \in {"ssh", "nothing"}
        /\ devices' = Discovery!Select(hosts, LAMBDA i : answer[i] = "ssh")
        /\ hosts' = hosts
        /\ \/ phase' = "choosing" /\ answer' = Discovery!Unasked
           \/ phase' = "closing" /\ answer' = answer
    BY <1>5, Zenon DEF Discovery!Conclude
  <2>2. Selected(Hosts, hosts, answer, devices')
    <3>1. hosts \in Seq(Hosts)
      OBVIOUS
    <3> QED BY <2>1, <3>1, SelectFacts, Zenon
  <2>3. CASE phase' = "choosing" /\ answer' = Discovery!Unasked
    <3>1. answer' = [i \in 1 .. MaxHosts |-> "unasked"]
      BY <2>3 DEF Discovery!Unasked, Discovery!Index
    <3> QED BY <2>1, <2>3, <3>1
  <2>4. CASE phase' = "closing" /\ answer' = answer
    <3>1. \A i \in 1 .. MaxHosts : answer[i] # "asked"
      BY <1>0, <2>1
    <3>2. Selected(Hosts, hosts', answer', devices')
      BY <2>1, <2>2, <2>4
    <3> QED BY <2>1, <2>4, <3>1, <3>2
  <2> QED BY <2>1, <2>3, <2>4
<1>6. CASE Discovery!Settle \/ Discovery!Fail \/ Discovery!Failed \/ Discovery!Abort
  <2>1. /\ UNCHANGED <<hosts, answer, devices>>
        /\ \/ phase = "closing" /\ phase' = "settled"
           \/ phase' \in {"failing", "failed", "aborted"}
    BY <1>6 DEF Discovery!Settle, Discovery!Fail, Discovery!Failed, Discovery!Abort
  <2> QED BY <2>1, Zenon
<1> QED BY <1>1, <1>3, <1>4, <1>5, <1>6 DEF Discovery!Next, Discovery!Index

(* Discovery goes on. *)
LEMMA DiscoverStep == ASSUME RunInv, Discover PROVE RunInv'
<1> USE DEF RunInv
<1>1. /\ at_run = "stages" /\ Discovery!Next
      /\ UNCHANGED <<argv, parser, at_run, target, exit_code, client>>
  BY DEF Discover, run
<1>2. StageInv'
  BY <1>1, StageStep
<1>3. HeldInv' /\ GateInv'
  BY <1>1, ClientUnchanged
<1>4. PlaceInv' /\ CodeInv' /\ ParseInv'
  BY <1>1, Zenon DEF PlaceInv, CodeInv, Tells, ParseInv, password, mock, strict, options, client
<1>5. TargetInv'
  BY <1>1 DEF TargetInv, After
<1> QED BY <1>2, <1>3, <1>4, <1>5

(* The client is told to connect to a device that answered. *)
LEMMA ConnectStep ==
  ASSUME RunInv, at_run = "stages", phase = "settled", NEW device, ConnectTo(device),
         \E i \in Found(hosts, answer) : hosts[i] = device,
         Cardinality(Found(hosts, answer)) > 1 => device = select
  PROVE  RunInv'
<1> USE DEF RunInv
<1>1. /\ at_run' = "connect" /\ target' = device
      /\ UNCHANGED <<argv, parser, exit_code, discovery>>
      /\ at = "idle" /\ at' = "tcp" /\ password_sent' = FALSE
      /\ UNCHANGED <<socket, session, channel>>
  BY DEF ConnectTo, Client!Connect
<1>2. {socket', session', channel', password_sent'} \subseteq BOOLEAN
  BY <1>1, Zenon DEF HeldInv
<1>3. HeldInv'
  BY <1>1, <1>2 DEF HeldInv, WithSocket, WithSession, WithChannel, Connecting
<1>4. GateInv' /\ PlaceInv' /\ CodeInv'
  BY <1>1 DEF GateInv, PlaceInv, CodeInv, Before, After, Connecting
<1>5. ParseInv'
  <2>1. password' = password
    BY <1>1, Zenon DEF password, options
  <2>2. at_run \in After \cup {"stages"}
    OBVIOUS
  <2> QED BY <1>1, <2>1, <2>2, Zenon DEF ParseInv
<1>6. UNCHANGED <<phase, hosts, answer, devices>>
  BY <1>1 DEF discovery
<1>7. StageInv'
  BY <1>6, Zenon DEF StageInv
<1>8. TargetInv'
  <2>1. select' = select /\ Found(hosts', answer') = Found(hosts, answer)
    BY <1>1, <1>6, Zenon DEF select, options
  <2> QED BY <1>1, <1>6, <2>1 DEF TargetInv
<1> QED BY <1>3, <1>4, <1>5, <1>7, <1>8

(* The device is taken if it is the only one, or the one selected. *)
LEMMA ChooseStep == ASSUME RunInv, OneDevice \/ SeveralDevices PROVE RunInv'
<1>1. at_run = "stages" /\ phase = "settled" /\ at_run \in Before
  BY DEF OneDevice, SeveralDevices, Before
<1>2. /\ devices \in Seq(Hosts)
      /\ \A k \in 1 .. Len(devices) : \E i \in Found(hosts, answer) : devices[k] = hosts[i]
      /\ Len(devices) = Cardinality(Found(hosts, answer))
  BY <1>1 DEF RunInv, StageInv, Selected
<1>3. CASE OneDevice
  <2>1. Len(devices) = 1 /\ ConnectTo(devices[1])
    BY <1>3 DEF OneDevice
  <2>2. PICK device : device = devices[1]
    OBVIOUS
  <2>3. \E i \in Found(hosts, answer) : hosts[i] = device
    BY <1>2, <2>1, <2>2
  <2>4. ~(Cardinality(Found(hosts, answer)) > 1)
    BY <1>2, <2>1
  <2> QED BY <1>1, <2>1, <2>2, <2>3, <2>4, ConnectStep
<1>4. CASE SeveralDevices
  <2>1. \/ Refuse("kMultipleDevices") \/ Refuse("kUsageError")
        \/ Contains(devices, select) /\ ConnectTo(select)
    BY <1>4 DEF SeveralDevices
  <2>2. CASE Refuse("kMultipleDevices") \/ Refuse("kUsageError")
    <3>1. PICK code \in {"kMultipleDevices", "kUsageError"} : Refuse(code)
      BY <2>2
    <3>2. code \in UnsentCodes /\ code \in Codes
      BY DEF Codes, UnsentCodes
    <3>3. Exit(code) /\ UNCHANGED <<argv, parser, target, discovery, client>>
      BY <3>1 DEF Refuse
    <3> QED BY <1>1, <3>2, <3>3, EarlyExit
  <2>3. CASE Contains(devices, select) /\ ConnectTo(select)
    <3>1. PICK device : device = select
      OBVIOUS
    <3>2. PICK k \in 1 .. Len(devices) : devices[k] = device
      BY <1>2, <2>3, <3>1 DEF Contains
    <3>3. \E i \in Found(hosts, answer) : hosts[i] = device
      BY <1>2, <3>2
    <3> QED BY <1>1, <2>3, <3>1, <3>3, ConnectStep
  <2> QED BY <2>1, <2>2, <2>3
<1> QED BY <1>3, <1>4

(* run() ends and the client is disconnected. *)
LEMMA LastExit ==
  ASSUME RunInv, NEW code \in Codes, Exit(code), Tells(code),
         UNCHANGED <<argv, parser, target, discovery>>, Client!Disconnect
  PROVE  RunInv'
<1> USE DEF RunInv
<1>1. /\ at_run' = "exited" /\ exit_code' = code /\ code # "none"
      /\ at' = "idle" /\ session' = FALSE /\ socket' = FALSE /\ channel' = FALSE
      /\ UNCHANGED <<lookup, password_sent>>
  BY DEF Exit, Codes, SentCodes, UnsentCodes, Client!Disconnect, Client!Closed
<1>2. {socket', session', channel', password_sent'} \subseteq BOOLEAN
  BY <1>1, Zenon DEF HeldInv
<1>3. HeldInv'
  BY <1>1, <1>2 DEF HeldInv, WithSocket, WithSession, WithChannel
<1>4. GateInv' /\ PlaceInv' /\ TargetInv'
  BY <1>1 DEF GateInv, PlaceInv, TargetInv, Before, After
<1>5. strict' = strict
  BY Zenon DEF strict, options
<1>6. CodeInv'
  BY <1>1, <1>5 DEF CodeInv, Tells
<1>7. ParseInv'
  BY <1>1, Zenon DEF ParseInv, After
<1>8. StageInv'
  BY Zenon DEF StageInv, discovery
<1> QED BY <1>3, <1>4, <1>6, <1>7, <1>8

(* connect_and_authenticate() returned false: the exit code says whether   *)
(* the password can have been sent.                                        *)
LEMMA ConnectFailedStep == ASSUME RunInv, ConnectFailed PROVE RunInv'
<1>1. /\ at_run = "connect" /\ at = "idle" /\ Exit(ConnectCode(last_error))
      /\ UNCHANGED <<argv, parser, target, discovery>>
      /\ Client!Disconnect
  BY DEF ConnectFailed, Destroyed
<1>2. /\ password_sent => last_error = "authentication"
      /\ last_error = "authentication" /\ strict => lookup = "match"
  BY <1>1 DEF RunInv, PlaceInv, Connecting
<1>3. ConnectCode(last_error) \in Codes /\ Tells(ConnectCode(last_error))
  BY <1>2 DEF ConnectCode, Codes, UnsentCodes, Tells
<1> QED BY <1>1, <1>3, LastExit

(* main() catches an exception. *)
LEMMA CaughtStep == ASSUME RunInv, ClientThrew \/ RunThrows PROVE RunInv'
<1>1. /\ Exit("kNoDevice") /\ UNCHANGED <<argv, parser, target, discovery>>
      /\ Client!Disconnect
  BY DEF ClientThrew, RunThrows, Caught, Destroyed
<1>2. "kNoDevice" \in Codes /\ Tells("kNoDevice")
  BY DEF Codes, Tells
<1> QED BY <1>1, <1>2, LastExit

(* A command is started on the open session. *)
LEMMA CommandStep == ASSUME RunInv, RunIfconfig \/ RunFallback PROVE RunInv'
<1> USE DEF RunInv
<1>1. /\ at_run \in {"connect", "ifconfig"} /\ at = "ready" /\ at_run' \in {"ifconfig", "fallback"}
      /\ UNCHANGED <<argv, parser, target, exit_code, discovery>>
      /\ UNCHANGED <<socket, session, channel, password_sent>>
      /\ session => at' = "open"
  BY DEF RunIfconfig, RunFallback, Client!Execute, Client!connection
<1>2. at' = "open" /\ password_sent
  BY <1>1 DEF HeldInv, PlaceInv, WithSession, Connecting
<1>3. {socket', session', channel', password_sent'} \subseteq BOOLEAN
  BY <1>1, Zenon DEF HeldInv
<1>4. HeldInv'
  BY <1>1, <1>2, <1>3 DEF HeldInv, WithSocket, WithSession, WithChannel, Executing
<1>5. GateInv' /\ PlaceInv' /\ CodeInv'
  BY <1>1, <1>2 DEF GateInv, PlaceInv, CodeInv, Before, After, Executing
<1>6. at_run \in After /\ at_run' \in After /\ at_run' \notin {"start", "options"}
  BY <1>1 DEF After
<1>7. ParseInv'
  <2>1. password' = password
    BY <1>1, Zenon DEF password, options
  <2> QED BY <1>1, <1>6, <2>1, Zenon DEF ParseInv
<1>8. UNCHANGED <<phase, hosts, answer, devices>>
  BY <1>1 DEF discovery
<1>9. StageInv'
  BY <1>8, Zenon DEF StageInv
<1>10. TargetInv'
  <2>1. select' = select
    BY <1>1, Zenon DEF select, options
  <2> QED BY <1>1, <1>6, <1>8, <2>1, Zenon DEF TargetInv
<1> QED BY <1>4, <1>5, <1>7, <1>9, <1>10

(* The session is over, with or without a report. *)
LEMMA EndStep == ASSUME RunInv, BothCommandsFail \/ ReportInterfaces PROVE RunInv'
<1>1. /\ at_run \in {"ifconfig", "fallback"}
      /\ UNCHANGED <<argv, parser, target, discovery>>
      /\ Client!Disconnect
  BY DEF BothCommandsFail, ReportInterfaces
<1>2. PICK code \in SentCodes : Exit(code)
  <2>1. CASE BothCommandsFail
    BY <2>1 DEF BothCommandsFail, SentCodes
  <2>2. CASE ReportInterfaces
    <3>1. \E list : Exit(ReportCode(list))
      BY <2>2, Zenon DEF ReportInterfaces
    <3> QED BY <3>1, ReportCodes DEF SentCodes
  <2> QED BY <2>1, <2>2
<1>3. code \in Codes /\ Tells(code)
  BY <1>1 DEF RunInv, PlaceInv, Codes, Tells
<1> QED BY <1>1, <1>2, <1>3, LastExit

(* Every step of the program keeps the invariant. *)
LEMMA RunStepInv == RunInv /\ [Next]_vars => RunInv'
<1> SUFFICES ASSUME RunInv, [Next]_vars PROVE RunInv'
  OBVIOUS
<1>1. CASE ClientWorks
  <2>1. UNCHANGED <<run, discovery>> /\ Client!ClientStep
    BY <1>1 DEF ClientWorks
  <2> QED BY <2>1, ConnectingStep, ExecutingStep DEF Client!ClientStep
<1>2. CASE \/ WinsockFails \/ MockMode \/ NoPassword \/ EnumerationThrows
           \/ DiscoveryThrows \/ NoDevice
  BY <1>2, EarlyExits
<1>3. CASE StartParsing \/ ParseOption \/ SelectInterface \/ Discover
  BY <1>3, ParsingStep, InterfaceStep, DiscoverStep
<1>4. CASE OneDevice \/ SeveralDevices \/ ConnectFailed \/ RunIfconfig \/ RunFallback
  BY <1>4, ChooseStep, ConnectFailedStep, CommandStep
<1>5. CASE \/ BothCommandsFail \/ ReportInterfaces \/ ClientThrew \/ RunThrows
           \/ ClientThrows
  BY <1>5, EndStep, CaughtStep, ThrowingStep
<1>6. CASE UNCHANGED vars
  <2>1. UNCHANGED <<argv, parser, at_run, target, exit_code, discovery, client>>
    BY <1>6 DEF vars, run
  <2>2. HeldInv' /\ GateInv' /\ ParseInv' /\ StageInv' /\ TargetInv'
    BY <2>1, ClientUnchanged, RunUnchanged
  <2>3. PlaceInv' /\ CodeInv'
    BY <2>1, Zenon DEF RunInv, PlaceInv, CodeInv, Tells, mock, strict, options, client
  <2> QED BY <2>2, <2>3 DEF RunInv
<1> QED BY <1>1, <1>2, <1>3, <1>4, <1>5, <1>6, Zenon DEF Next, RunStep, Exception, Over

-----------------------------------------------------------------------------
(* Theorems                                                                *)

(* The inductive invariant of run() and of the calls it makes. *)
THEOREM RunInvariance == Spec => []RunInv
<1>1. Init => RunInv
  BY RunInitInv
<1>2. RunInv /\ [Next]_vars => RunInv'
  BY RunStepInv
<1> QED BY <1>1, <1>2, PTL DEF Spec

(* For every list of arguments, however long, parse_options() has at every *)
(* turn the options that the usage text gives to what it has read, and     *)
(* stops only where the usage text has it stop.                            *)
THEOREM ParserIsFaithful == Spec => []OptionsAsWritten
<1>1. RunInv => OptionsAsWritten
  BY DEF RunInv, ParseInv, OptionsAsWritten
<1> QED BY <1>1, RunInvariance, PTL

(* Whatever ends run(), nothing of the SSH client is left open. *)
THEOREM NothingOpenAtExit == Spec => []ClosedAtExit
<1>1. RunInv => ClosedAtExit
  BY DEF RunInv, CodeInv, PlaceInv, HeldInv, ClosedAtExit, WithSocket, WithSession, WithChannel
<1> QED BY <1>1, RunInvariance, PTL

(* After every run, however it went, the exit code tells of the password   *)
(* what the README's table of exit codes lets a caller conclude.           *)
THEOREM ExitCodeIsTelling == Spec => []ExitCodeTellsCredentials
<1>1. RunInv => ExitCodeTellsCredentials
  <2> SUFFICES ASSUME RunInv, exit_code # "none", ~mock, parser.exit_code # "kSuccess"
               PROVE  /\ ExitCode[exit_code] \in {0} \cup 9 .. 11 => password_sent
                      /\ ExitCode[exit_code] \in 2 .. 4 \cup {6, 7} => ~password_sent
                      /\ ExitCode[exit_code] = 8 /\ options["--strict-host-key"] =>
                           lookup = "match"
    BY Zenon DEF ExitCodeTellsCredentials
  <2>1. Tells(exit_code)
    BY DEF RunInv, CodeInv
  <2>2. exit_code \in SentCodes => ExitCode[exit_code] \in {0} \cup 9 .. 11
    BY DEF SentCodes, ExitCode
  <2>3. exit_code \in UnsentCodes => ExitCode[exit_code] \in 2 .. 4 \cup {6, 7}
    BY DEF UnsentCodes, ExitCode
  <2>4. ExitCode["kSshAuthFailed"] = 8 /\ ExitCode["kNoDevice"] = 5
    BY DEF ExitCode
  <2> QED BY <2>1, <2>2, <2>3, <2>4 DEF Tells, strict
<1> QED BY <1>1, RunInvariance, PTL

(* The password goes only to a device that answered in a discovery that is *)
(* over, to the one selected if there are several, and under               *)
(* --strict-host-key only after its key matched.                           *)
THEOREM CredentialsGoToTheDevice == Spec => CredentialsOnlyToTheDevice
<1> DEFINE Sends == password_sent' /\ ~password_sent
           Allowed == /\ phase = "settled" /\ password # Empty
                      /\ \A i \in DOMAIN answer : answer[i] # "asked"
                      /\ \E i \in DOMAIN hosts : hosts[i] = target /\ answer[i] = "ssh"
                      /\ Cardinality({i \in DOMAIN hosts : answer[i] = "ssh"}) > 1
                           => target = Said(argv, Len(argv) + 1, "--select")
                      /\ Said(argv, Len(argv) + 1, "--strict-host-key") => lookup' = "match"
<1>1. RunInv /\ [Next]_vars => [Sends => Allowed]_vars
  <2> SUFFICES ASSUME RunInv, Next, password_sent', ~password_sent PROVE Allowed
    OBVIOUS
  <2>1. Client!Authenticate \/ Client!Throws
    <3>1. password_sent' # password_sent
      OBVIOUS
    <3>2. CASE ClientWorks
      BY <3>2 DEF ClientWorks, Client!ClientStep, Client!ConnectTcp, Client!SetBlocking,
             Client!InitSession, Client!Handshake, Client!CheckHostKey, Client!StepOrAbandon,
             Client!Abandon, Client!OpenChannel, Client!ExecCommand, Client!ExecuteFails,
             Client!ReadStdout, Client!ReadStderr, Client!CloseChannel, Client!connection
    <3>3. CASE OneDevice \/ SeveralDevices
      BY <3>3 DEF OneDevice, SeveralDevices, ConnectTo, Refuse, Client!Connect, client
    <3>4. CASE \/ RunIfconfig \/ RunFallback \/ BothCommandsFail \/ ReportInterfaces
               \/ ConnectFailed \/ ClientThrew \/ RunThrows
      <4>1. password_sent' = password_sent
        BY <3>4, Zenon DEF RunIfconfig, RunFallback, BothCommandsFail, ReportInterfaces,
               ConnectFailed, ClientThrew, RunThrows, Caught, Destroyed,
               Client!Execute, Client!Disconnect, Client!connection
      <4> QED BY <4>1
    <3>5. CASE \/ WinsockFails \/ StartParsing \/ ParseOption \/ MockMode \/ NoPassword
               \/ SelectInterface \/ EnumerationThrows \/ Discover \/ DiscoveryThrows
               \/ NoDevice \/ Over
      <4>1. password_sent' = password_sent
        BY <3>5, Zenon DEF WinsockFails, StartParsing, ParseOption, MockMode, NoPassword,
               SelectInterface, EnumerationThrows, Discover, DiscoveryThrows, NoDevice,
               Refuse, Over, vars, client
      <4> QED BY <4>1
    <3>6. CASE ClientThrows
      BY <3>6 DEF ClientThrows
    <3> QED BY <3>2, <3>3, <3>4, <3>5, <3>6, Zenon DEF Next, RunStep, Exception
  <2>2. at = "auth" /\ lookup' = lookup
    BY <2>1 DEF Client!Authenticate, Client!Throws
  <2>3. at_run = "connect" /\ at_run \in After
    BY <2>2 DEF RunInv, PlaceInv, Before, After, Executing
  <2>4. /\ phase = "settled" /\ password # Empty
        /\ \E i \in Found(hosts, answer) : hosts[i] = target
        /\ Cardinality(Found(hosts, answer)) > 1 => target = select
        /\ \A i \in DOMAIN answer : answer[i] # "asked"
    BY <2>3 DEF RunInv, TargetInv, ParseInv, StageInv
  <2>5. \A o \in DOMAIN Defaults : options[o] = Said(argv, Len(argv) + 1, o)
    <3>1. parser.i > Len(argv) /\ argv \in Seq(Texts) /\ Faithful(parser, argv)
      BY <2>3 DEF RunInv, ParseInv
    <3>2. /\ parser.i \in Heads(argv) \cup {Len(argv) + 1}
          /\ parser.options = [o \in DOMAIN Defaults |-> Said(argv, parser.i, o)]
      BY <3>1, Zenon DEF Faithful
    <3>3. Heads(argv) \subseteq 1 .. Len(argv) /\ Len(argv) \in Nat
      BY <3>1, HeadsFacts DEF HeadsUpTo
    <3>4. parser.i = Len(argv) + 1
      BY <3>1, <3>2, <3>3
    <3> QED BY <3>2, <3>4 DEF options
  <2>6. /\ select = Said(argv, Len(argv) + 1, "--select")
        /\ options["--strict-host-key"] = Said(argv, Len(argv) + 1, "--strict-host-key")
    BY <2>5, OptionKinds DEF select
  <2>7. options["--strict-host-key"] => lookup' = "match"
    BY <2>2 DEF RunInv, GateInv, strict
  <2> QED BY <2>4, <2>6, <2>7 DEF Found
<1> QED BY <1>1, RunInvariance, PTL DEF Spec, CredentialsOnlyToTheDevice
=============================================================================
