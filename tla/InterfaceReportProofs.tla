------------------------ MODULE InterfaceReportProofs -----------------------
(***************************************************************************)
(* Proofs about the report, for every device: what the parsers make of the *)
(* lines a command prints, and what a reader takes from the emitted text.  *)
(***************************************************************************)
EXTENDS InterfaceReport, DataFacts, SequenceTheorems

-----------------------------------------------------------------------------
(* What a line does to the state of the parser it is for.                  *)

At(current, interfaces) == [current |-> current, interfaces |-> interfaces]

Turn(parsing, p, line) ==
  IF parsing = "ip" THEN IpAddrLine(p, line) ELSE IfconfigLine(p, line)

Kinds  == {"name", "inet", "ipv4", "addr:", "number", "word"}
Values == STRING \cup Addresses \cup {"inet", "2", NoName, NoAddress}
Words  == [kind : Kinds, val : Values]
Lines  == [indented : BOOLEAN, words : Seq(Words)]

(* A line without "inet" and "addr:" has no address. *)
LEMMA NoMark ==
  ASSUME NEW words, \A i \in DOMAIN words : words[i].kind \notin {"inet", "addr:"}
  PROVE  extract_inet_address(words) = NoAddress
<1>1. {i \in DOMAIN words : words[i].kind \in {"inet", "addr:"}} = {}
  OBVIOUS
<1> QED BY <1>1, Zenon DEF extract_inet_address

(* "inet A ..." and "inet addr:A ..." have the address A. *)
LEMMA InetMark ==
  ASSUME NEW kind \in {"ipv4", "addr:"}, NEW val
  PROVE  extract_inet_address(<<Word("inet", "inet"), Word(kind, val), Other>>) = val
<1> DEFINE words == <<Word("inet", "inet"), Word(kind, val), Other>>
           marks == {i \in DOMAIN words : words[i].kind \in {"inet", "addr:"}}
<1>1. /\ DOMAIN words = 1 .. 3 /\ Len(words) = 3
      /\ words[1].kind = "inet" /\ words[2].kind = kind /\ words[2].val = val
  BY DEF Word, Other
<1>2. 1 \in marks /\ marks \subseteq Nat /\ \A i \in marks : i >= 1
  BY <1>1
<1>3. Min(marks) = 1
  <2> HIDE DEF marks
  <2>1. PICK m : m = Min(marks)
    OBVIOUS
  <2>2. m \in marks /\ m <= 1
    BY <1>2, <2>1, MinFacts
  <2>3. m \in Nat /\ m >= 1
    BY <1>2, <2>2
  <2> QED BY <2>1, <2>2, <2>3
<1>4. extract_inet_address(words) =
        IF marks = {} THEN NoAddress
        ELSE IF words[Min(marks)].kind = "addr:" THEN words[Min(marks)].val
        ELSE IF Min(marks) < Len(words) /\ words[Min(marks) + 1].kind \in {"ipv4", "addr:"}
          THEN words[Min(marks) + 1].val
        ELSE NoAddress
  BY Zenon DEF extract_inet_address
<1>5. extract_inet_address(words) = words[2].val
  <2> HIDE DEF words, marks
  <2> QED BY <1>1, <1>2, <1>3, <1>4
<1> QED BY <1>1, <1>5

(* "inet6 addr: ..." has none: a blank follows "addr:". *)
LEMMA Inet6Mark ==
  extract_inet_address(<<Other, Word("addr:", NoAddress), Other>>) = NoAddress
<1> DEFINE words == <<Other, Word("addr:", NoAddress), Other>>
           marks == {i \in DOMAIN words : words[i].kind \in {"inet", "addr:"}}
<1>1. /\ DOMAIN words = 1 .. 3
      /\ words[1].kind = "word" /\ words[3].kind = "word"
      /\ words[2].kind = "addr:" /\ words[2].val = NoAddress
  BY DEF Word, Other
<1>2. marks = {2}
  BY <1>1
<1>3. Min(marks) = 2
  <2> HIDE DEF marks
  <2>1. Min(marks) \in marks
    BY <1>2, MinFacts
  <2> QED BY <1>2, <2>1
<1>4. extract_inet_address(words) =
        IF marks = {} THEN NoAddress
        ELSE IF words[Min(marks)].kind = "addr:" THEN words[Min(marks)].val
        ELSE IF Min(marks) < Len(words) /\ words[Min(marks) + 1].kind \in {"ipv4", "addr:"}
          THEN words[Min(marks) + 1].val
        ELSE NoAddress
  BY Zenon DEF extract_inet_address
<1> HIDE DEF words, marks
<1> QED BY <1>1, <1>2, <1>3, <1>4 DEF words

(* append() without an address. *)
LEMMA AppendNone ==
  ASSUME NEW interfaces, NEW name
  PROVE  append(interfaces, name, NoAddress) = interfaces
BY Zenon DEF append

(* A line with an address, and one without. *)
LEMMA SearchedLine ==
  ASSUME NEW current, NEW interfaces, NEW words, words # <<>>, words[1].kind # "number",
         NEW parsing
  PROVE  Turn(parsing, At(current, interfaces), Line(TRUE, words)) =
           At(current, append(interfaces, current, extract_inet_address(words)))
<1>1. IfconfigLine(At(current, interfaces), Line(TRUE, words)) =
        At(current, append(interfaces, current, extract_inet_address(words)))
  BY DEF IfconfigLine, At, Line
<1>2. IpAddrLine(At(current, interfaces), Line(TRUE, words)) =
        At(current, append(interfaces, current, extract_inet_address(words)))
  BY DEF IpAddrLine, At, Line
<1> QED BY <1>1, <1>2, Zenon DEF Turn

-----------------------------------------------------------------------------
(* The lines of a block.                                                   *)

(* What is known of the addresses and the name of an interface. *)
LEMMA IfaceFacts ==
  ASSUME NEW iface \in Ifaces
  PROVE  /\ iface.name \in STRING /\ iface.name # NoName
         /\ iface.addresses \in Seq(Addresses) /\ iface.inet6 \in BOOLEAN
BY DEF Ifaces

InetLine(kind, val) == Line(TRUE, <<Word("inet", "inet"), Word(kind, val), Other>>)

(* The lines of Block(): the header, one for each address, the rest. *)
Laid(B, n, header, iface, kind, rest) ==
  /\ B \in Seq(Lines) /\ Len(B) = 1 + n + Len(rest)
  /\ B[1] = header
  /\ \A i \in 1 .. n : B[1 + i] = InetLine(kind, iface.addresses[i])
  /\ \A i \in 1 .. Len(rest) : B[1 + n + i] = rest[i]

LEMMA BlockLines ==
  ASSUME NEW iface \in Ifaces, NEW kind \in {"ipv4", "addr:"},
         NEW header \in Lines, NEW rest \in Seq(Lines),
         NEW B, B = Block(header, iface, kind, rest), NEW n, n = Len(iface.addresses)
  PROVE  Laid(B, n, header, iface, kind, rest)
<1>1. n \in Nat /\ DOMAIN iface.addresses = 1 .. n /\ \A i \in 1 .. n : iface.addresses[i] \in Addresses
  BY IfaceFacts
<1> DEFINE L(i) == InetLine(kind, iface.addresses[i])
<1>2. ASSUME NEW i \in 1 .. n PROVE L(i) \in Lines
  <2>1. Word("inet", "inet") \in Words /\ Word(kind, iface.addresses[i]) \in Words /\ Other \in Words
    <3>1. "inet" \in Kinds /\ kind \in Kinds /\ "word" \in Kinds
      BY DEF Kinds
    <3>2. "inet" \in Values /\ iface.addresses[i] \in Values /\ NoName \in Values
      <4>1. iface.addresses[i] \in Addresses
        BY <1>1, Zenon
      <4> QED BY <4>1, Zenon DEF Values
    <3> QED BY <3>1, <3>2 DEF Words, Word, Other
  <2>2. \A x, y, z \in Words : <<x, y, z>> \in Seq(Words)
    OBVIOUS
  <2>3. <<Word("inet", "inet"), Word(kind, iface.addresses[i]), Other>> \in Seq(Words)
    BY <2>1, <2>2, Zenon
  <2> QED BY <2>3 DEF Lines, Line, InetLine
<1>3. PICK m : m = [i \in 1 .. n |-> L(i)]
  OBVIOUS
<1> HIDE DEF L
<1>4. m \in Seq(Lines) /\ Len(m) = n /\ \A i \in 1 .. n : m[i] = L(i)
  BY <1>1, <1>2, <1>3
<1>5. B = <<header>> \o m \o rest
  <2>1. m = [i \in DOMAIN iface.addresses |-> L(i)]
    BY <1>1, <1>3
  <2> QED BY <2>1, Zenon DEF Block, L, InetLine
<1>7. /\ B \in Seq(Lines) /\ Len(B) = 1 + n + Len(rest) /\ B[1] = header
      /\ \A i \in 1 .. n : B[1 + i] = m[i]
      /\ \A i \in 1 .. Len(rest) : B[1 + n + i] = rest[i]
  <2>1. PICK h : h = <<header>>
    OBVIOUS
  <2>2. h \in Seq(Lines) /\ Len(h) = 1 /\ h[1] = header
    BY <2>1
  <2>3. PICK g : g = h \o m
    OBVIOUS
  <2>4. /\ g \in Seq(Lines) /\ Len(g) = 1 + n
        /\ g[1] = header /\ \A i \in 1 .. n : g[1 + i] = m[i]
    <3>1. /\ g \in Seq(Lines) /\ Len(g) = Len(h) + Len(m)
          /\ \A i \in 1 .. Len(h) : g[i] = h[i]
          /\ \A i \in 1 .. Len(m) : g[Len(h) + i] = m[i]
      <4>1. m \in Seq(Lines) /\ h \in Seq(Lines)
        BY <1>4, <2>2
      <4> QED BY <2>3, <4>1, Joined
    <3> QED BY <1>1, <1>4, <2>2, <3>1
  <2>5. /\ B \in Seq(Lines) /\ Len(B) = Len(g) + Len(rest)
        /\ \A i \in 1 .. Len(g) : B[i] = g[i]
        /\ \A i \in 1 .. Len(rest) : B[Len(g) + i] = rest[i]
    BY <1>5, <2>1, <2>3, <2>4, Joined
  <2>6. \A i \in 1 .. n : 1 + i \in 1 .. Len(g)
    BY <1>1, <2>4
  <2>7. Len(B) = 1 + n + Len(rest) /\ B[1] = header
    BY <1>1, <2>4, <2>5
  <2>8. \A i \in 1 .. n : B[1 + i] = m[i]
    BY <2>4, <2>5, <2>6
  <2>9. \A i \in 1 .. Len(rest) : B[1 + n + i] = rest[i]
    BY <2>4, <2>5
  <2> QED BY <2>5, <2>7, <2>8, <2>9
<1>8. \A i \in 1 .. n : B[1 + i] = InetLine(kind, iface.addresses[i])
  BY <1>4, <1>7, Zenon DEF L
<1> QED BY <1>7, <1>8, Zenon DEF Laid

(* The lines of ifconfig that neither name an interface nor have an        *)
(* address, and the headers.                                               *)
Inet6Line    == Line(TRUE, <<Other, Other>>)
Inet6Addr    == Line(TRUE, <<Other, Word("addr:", NoAddress), Other>>)
CounterLine  == Line(TRUE, <<Other>>)
BlankLine    == Line(FALSE, <<>>)
QuietLines   == {Inet6Line, Inet6Addr, CounterLine, BlankLine}
Named(name)  == Line(FALSE, <<Word("name", name), Other>>)
Numbered(name) == Line(FALSE, <<Word("number", "2"), Word("name", name), Other>>)

LEMMA LinesTyped ==
  /\ QuietLines \subseteq Lines
  /\ \A name \in STRING : Named(name) \in Lines /\ Numbered(name) \in Lines
<1>1. /\ Other \in Words /\ Word("addr:", NoAddress) \in Words /\ Word("number", "2") \in Words
      /\ \A name \in STRING : Word("name", name) \in Words
  BY DEF Words, Word, Other, Kinds, Values
<1>2. /\ <<>> \in Seq(Words) /\ \A x \in Words : <<x>> \in Seq(Words)
      /\ \A x, y \in Words : <<x, y>> \in Seq(Words)
      /\ \A x, y, z \in Words : <<x, y, z>> \in Seq(Words)
  OBVIOUS
<1>3. \A w \in Seq(Words) : Line(TRUE, w) \in Lines /\ Line(FALSE, w) \in Lines
  BY DEF Lines, Line
<1>4. Inet6Line \in Lines /\ Inet6Addr \in Lines /\ CounterLine \in Lines /\ BlankLine \in Lines
  BY <1>1, <1>2, <1>3, Zenon DEF Inet6Line, Inet6Addr, CounterLine, BlankLine
<1>5. ASSUME NEW name \in STRING PROVE Named(name) \in Lines /\ Numbered(name) \in Lines
  BY <1>1, <1>2, <1>3, Zenon DEF Named, Numbered
<1> QED BY <1>4, <1>5 DEF QuietLines

(* They leave the state alone, whatever the parser. *)
LEMMA QuietTurn ==
  ASSUME NEW line \in QuietLines, NEW current, NEW interfaces, NEW parsing
  PROVE  Turn(parsing, At(current, interfaces), line) = At(current, interfaces)
<1>1. CASE line = BlankLine
  <2>1. IfconfigLine(At(current, interfaces), BlankLine) = At(current, interfaces)
    BY DEF IfconfigLine, BlankLine, Line
  <2>2. IpAddrLine(At(current, interfaces), BlankLine) = At(current, interfaces)
    BY DEF IpAddrLine, BlankLine, Line
  <2> QED BY <1>1, <2>1, <2>2, Zenon DEF Turn
<1>2. ASSUME NEW words, line = Line(TRUE, words), words # <<>>, words[1].kind # "number",
             extract_inet_address(words) = NoAddress
      PROVE  Turn(parsing, At(current, interfaces), line) = At(current, interfaces)
  <2>1. Turn(parsing, At(current, interfaces), Line(TRUE, words)) =
          At(current, append(interfaces, current, NoAddress))
    BY <1>2, SearchedLine
  <2> QED BY <1>2, <2>1, AppendNone
<1>3. CASE line = Inet6Line
  <2>1. PICK words : words = <<Other, Other>>
    OBVIOUS
  <2>2. words # <<>> /\ words[1].kind # "number" /\ DOMAIN words = 1 .. 2
        /\ \A i \in DOMAIN words : words[i].kind \notin {"inet", "addr:"}
    BY <2>1 DEF Other, Word
  <2>3. extract_inet_address(words) = NoAddress
    BY <2>2, NoMark
  <2> QED BY <1>2, <1>3, <2>1, <2>2, <2>3 DEF Inet6Line
<1>4. CASE line = Inet6Addr
  <2>1. PICK words : words = <<Other, Word("addr:", NoAddress), Other>>
    OBVIOUS
  <2>2. words # <<>> /\ words[1].kind # "number"
    BY <2>1 DEF Other, Word
  <2>3. extract_inet_address(words) = NoAddress
    BY <2>1, Inet6Mark
  <2> QED BY <1>2, <1>4, <2>1, <2>2, <2>3 DEF Inet6Addr
<1>5. CASE line = CounterLine
  <2>1. PICK words : words = <<Other>>
    OBVIOUS
  <2>2. words # <<>> /\ words[1].kind # "number" /\ DOMAIN words = 1 .. 1
        /\ \A i \in DOMAIN words : words[i].kind \notin {"inet", "addr:"}
    BY <2>1 DEF Other, Word
  <2>3. extract_inet_address(words) = NoAddress
    BY <2>2, NoMark
  <2> QED BY <1>2, <1>5, <2>1, <2>2, <2>3 DEF CounterLine
<1> QED BY <1>1, <1>3, <1>4, <1>5 DEF QuietLines

(* A header names its interface, for the parser it is for; the other       *)
(* parser stays where it began.                                            *)
LEMMA HeaderTurn ==
  ASSUME NEW name, NEW current, NEW interfaces
  PROVE  /\ IfconfigLine(At(current, interfaces), Named(name)) = At(name, interfaces)
         /\ IpAddrLine(At(current, interfaces), Numbered(name)) = At(name, interfaces)
         /\ IpAddrLine(At(current, interfaces), Named(name)) = At(current, interfaces)
<1>1. PICK words : words = <<Word("name", name), Other>>
  OBVIOUS
<1>2. /\ words # <<>> /\ words[1].val = name /\ words[1].kind # "number" /\ DOMAIN words = 1 .. 2
      /\ \A i \in DOMAIN words : words[i].kind \notin {"inet", "addr:"}
  BY <1>1 DEF Other, Word
<1>3. extract_inet_address(words) = NoAddress
  BY <1>2, NoMark
<1>4. \A c : append(interfaces, c, NoAddress) = interfaces
  BY AppendNone
<1>5. Named(name) = Line(FALSE, words)
  BY <1>1, Zenon DEF Named
<1>6. IfconfigLine(At(current, interfaces), Line(FALSE, words)) = At(name, interfaces)
  BY <1>2, <1>3, <1>4 DEF IfconfigLine, At, Line
<1>7. IpAddrLine(At(current, interfaces), Line(FALSE, words)) = At(current, interfaces)
  BY <1>2, <1>3, <1>4 DEF IpAddrLine, At, Line
<1>8. IpAddrLine(At(current, interfaces), Numbered(name)) = At(name, interfaces)
  <2>1. PICK more : more = <<Word("number", "2"), Word("name", name), Other>>
    OBVIOUS
  <2>2. more # <<>> /\ more[1].kind = "number" /\ more[2].val = name /\ Len(more) > 1
    BY <2>1 DEF Word
  <2>3. Numbered(name) = Line(FALSE, more)
    BY <2>1, Zenon DEF Numbered
  <2> QED BY <2>2, <2>3 DEF IpAddrLine, At, Line
<1> QED BY <1>5, <1>6, <1>7, <1>8

(* A line with an address. *)
LEMMA AddressTurn ==
  ASSUME NEW kind \in {"ipv4", "addr:"}, NEW val, NEW current, NEW interfaces, NEW parsing
  PROVE  Turn(parsing, At(current, interfaces), InetLine(kind, val)) =
           At(current, append(interfaces, current, val))
<1>1. PICK words : words = <<Word("inet", "inet"), Word(kind, val), Other>>
  OBVIOUS
<1>2. words # <<>> /\ words[1].kind # "number"
  BY <1>1 DEF Word
<1>3. extract_inet_address(words) = val
  BY <1>1, InetMark
<1>4. Turn(parsing, At(current, interfaces), Line(TRUE, words)) =
        At(current, append(interfaces, current, extract_inet_address(words)))
  BY <1>2, SearchedLine
<1> QED BY <1>1, <1>3, <1>4, Zenon DEF InetLine

Formats == {"net-tools", "busybox", "ip"}

BlockOf(iface, printed) ==
  IF printed = "ip" THEN IpAddr(iface)
  ELSE IF printed = "busybox" THEN BusyBox(iface) ELSE NetTools(iface)

(* The lines of a block in each format. *)
LEMMA BlockShape ==
  ASSUME NEW iface \in Ifaces, NEW printed \in Formats
  PROVE  \E kind \in {"ipv4", "addr:"}, rest \in Seq(Lines) :
           /\ BlockOf(iface, printed) =
                Block(IF printed = "ip" THEN Numbered(iface.name) ELSE Named(iface.name),
                      iface, kind, rest)
           /\ \A i \in 1 .. Len(rest) : rest[i] \in QuietLines
<1>1. CASE printed = "ip"
  <2>1. <<>> \in Seq(Lines) /\ \A i \in 1 .. Len(<<>>) : <<>>[i] \in QuietLines
    OBVIOUS
  <2>2. BlockOf(iface, printed) = Block(Numbered(iface.name), iface, "ipv4", <<>>)
    BY <1>1, Zenon DEF BlockOf, IpAddr, Numbered
  <2> QED BY <1>1, <2>1, <2>2, Zenon
<1>2. ASSUME NEW line \in QuietLines
      PROVE  LET rest == Optional(<<line>>, iface.inet6) \o <<CounterLine, BlankLine>>
             IN  rest \in Seq(Lines) /\ \A i \in 1 .. Len(rest) : rest[i] \in QuietLines
  <2>1. PICK a, b : a = Optional(<<line>>, iface.inet6) /\ b = <<CounterLine, BlankLine>>
    OBVIOUS
  <2>2. a = <<>> \/ a = <<line>>
    BY <2>1 DEF Optional
  <2>3. \A x, y \in QuietLines : <<>> \in Seq(QuietLines) /\ <<x>> \in Seq(QuietLines)
                                 /\ <<x, y>> \in Seq(QuietLines)
    OBVIOUS
  <2>4. CounterLine \in QuietLines /\ BlankLine \in QuietLines
    BY DEF QuietLines
  <2>5. a \in Seq(QuietLines) /\ b \in Seq(QuietLines)
    BY <1>2, <2>1, <2>2, <2>3, <2>4, Zenon
  <2>6. PICK rest : rest = a \o b
    OBVIOUS
  <2>7. rest \in Seq(QuietLines)
    BY <2>5, <2>6
  <2>8. rest \in Seq(Lines) /\ \A i \in 1 .. Len(rest) : rest[i] \in QuietLines
    BY <2>7, LinesTyped
  <2> QED BY <2>1, <2>6, <2>8
<1>3. CASE printed = "busybox"
  <2>1. Inet6Addr \in QuietLines
    BY DEF QuietLines
  <2>2. PICK rest : rest = Optional(<<Inet6Addr>>, iface.inet6) \o <<CounterLine, BlankLine>>
    OBVIOUS
  <2>3. rest \in Seq(Lines) /\ \A i \in 1 .. Len(rest) : rest[i] \in QuietLines
    BY <1>2, <2>1, <2>2
  <2>4. printed # "ip"
    BY <1>3
  <2>5. BlockOf(iface, printed) = Block(Named(iface.name), iface, "addr:", rest)
    BY <1>3, <2>2, <2>4, Zenon DEF BlockOf, BusyBox, Named, Inet6Addr, CounterLine, BlankLine
  <2> QED BY <2>3, <2>4, <2>5, Zenon
<1>4. CASE printed = "net-tools"
  <2>1. Inet6Line \in QuietLines
    BY DEF QuietLines
  <2>2. PICK rest : rest = Optional(<<Inet6Line>>, iface.inet6) \o <<CounterLine, BlankLine>>
    OBVIOUS
  <2>3. rest \in Seq(Lines) /\ \A i \in 1 .. Len(rest) : rest[i] \in QuietLines
    BY <1>2, <2>1, <2>2
  <2>4. printed # "ip" /\ printed # "busybox"
    BY <1>4
  <2>5. BlockOf(iface, printed) = Block(Named(iface.name), iface, "ipv4", rest)
    BY <2>2, <2>4, Zenon DEF BlockOf, NetTools, Named, Inet6Line, CounterLine, BlankLine
  <2> QED BY <2>3, <2>4, <2>5, Zenon
<1> QED BY <1>1, <1>3, <1>4 DEF Formats

(* What the lines of a block do: the first names the interface, each of    *)
(* the next adds an address, the others do nothing.                        *)
Moves(B, n, iface, printed, current, interfaces) ==
  LET p == At(current, interfaces)
  IN  /\ B \in Seq(Lines) /\ Len(B) >= n + 1
      /\ Turn(printed, p, B[1]) = At(iface.name, interfaces)
      /\ \A i \in 1 .. n : Turn(printed, p, B[1 + i]) =
                             At(current, append(interfaces, current, iface.addresses[i]))
      /\ \A i \in n + 2 .. Len(B) : Turn(printed, p, B[i]) = p

LEMMA BlockTurns ==
  ASSUME NEW iface \in Ifaces, NEW printed \in Formats, NEW current, NEW interfaces
  PROVE  Moves(BlockOf(iface, printed), Len(iface.addresses), iface, printed,
               current, interfaces)
<1> DEFINE header == IF printed = "ip" THEN Numbered(iface.name) ELSE Named(iface.name)
           p == At(current, interfaces)
<1>1. PICK kind \in {"ipv4", "addr:"}, rest \in Seq(Lines) :
        /\ BlockOf(iface, printed) = Block(header, iface, kind, rest)
        /\ \A i \in 1 .. Len(rest) : rest[i] \in QuietLines
  BY BlockShape
<1>2. header \in Lines
  BY IfaceFacts, LinesTyped
<1>3. PICK B, n : B = Block(header, iface, kind, rest) /\ n = Len(iface.addresses)
  OBVIOUS
<1>4. /\ B \in Seq(Lines) /\ Len(B) = 1 + n + Len(rest)
      /\ B[1] = header
      /\ \A i \in 1 .. n : B[1 + i] = InetLine(kind, iface.addresses[i])
      /\ \A i \in 1 .. Len(rest) : B[1 + n + i] = rest[i]
  <2> HIDE DEF header
  <2>1. Laid(B, n, header, iface, kind, rest)
    BY <1>2, <1>3, BlockLines
  <2> QED BY <2>1, Zenon DEF Laid
<1>5. n \in Nat /\ Len(rest) \in Nat
  BY <1>3, IfaceFacts
<1>6. Turn(printed, p, header) = At(iface.name, interfaces)
  <2>1. IfconfigLine(p, Named(iface.name)) = At(iface.name, interfaces)
    BY HeaderTurn
  <2>2. IpAddrLine(p, Numbered(iface.name)) = At(iface.name, interfaces)
    BY HeaderTurn
  <2> QED BY <2>1, <2>2, Zenon DEF Turn
<1>7. ASSUME NEW i \in 1 .. n
      PROVE  Turn(printed, p, B[1 + i]) =
               At(current, append(interfaces, current, iface.addresses[i]))
  <2>1. B[1 + i] = InetLine(kind, iface.addresses[i])
    BY <1>4
  <2> QED BY <2>1, AddressTurn
<1>8. ASSUME NEW i \in n + 2 .. Len(B) PROVE Turn(printed, p, B[i]) = p
  <2>1. PICK j : j = i - (1 + n)
    OBVIOUS
  <2>2. j \in 1 .. Len(rest) /\ i = 1 + n + j
    BY <1>4, <1>5, <2>1
  <2>3. B[i] \in QuietLines
    BY <1>1, <1>4, <2>2
  <2> QED BY <2>3, QuietTurn
<1>9. Len(B) >= n + 1
  BY <1>4, <1>5
<1> HIDE DEF header
<1>10. Moves(B, n, iface, printed, current, interfaces)
  <2>1. Turn(printed, p, B[1]) = At(iface.name, interfaces)
    BY <1>4, <1>6
  <2> QED BY <1>4, <2>1, <1>7, <1>8, <1>9, Zenon DEF Moves
<1> QED BY <1>1, <1>3, <1>10

(* No line of ifconfig moves the other parser. *)
LEMMA OtherParserStays ==
  ASSUME NEW iface \in Ifaces, NEW printed \in Formats, printed # "ip",
         NEW k \in 1 .. Len(BlockOf(iface, printed))
  PROVE  IpAddrLine(Begin, BlockOf(iface, printed)[k]) = Begin
<1>1. PICK kind \in {"ipv4", "addr:"}, rest \in Seq(Lines) :
        /\ BlockOf(iface, printed) = Block(Named(iface.name), iface, kind, rest)
        /\ \A i \in 1 .. Len(rest) : rest[i] \in QuietLines
  BY BlockShape
<1>2. Named(iface.name) \in Lines
  BY IfaceFacts, LinesTyped
<1>3. PICK B, n : B = Block(Named(iface.name), iface, kind, rest) /\ n = Len(iface.addresses)
  OBVIOUS
<1>4. /\ B \in Seq(Lines) /\ Len(B) = 1 + n + Len(rest)
      /\ B[1] = Named(iface.name)
      /\ \A i \in 1 .. n : B[1 + i] = InetLine(kind, iface.addresses[i])
      /\ \A i \in 1 .. Len(rest) : B[1 + n + i] = rest[i]
  <2>1. Laid(B, n, Named(iface.name), iface, kind, rest)
    BY <1>2, <1>3, BlockLines
  <2> QED BY <2>1, Zenon DEF Laid
<1>5. n \in Nat /\ Len(rest) \in Nat
  BY <1>3, IfaceFacts
<1>6. Begin = At(NoName, <<>>)
  BY Zenon DEF Begin, At
<1>7. \A p, line : Turn("ip", p, line) = IpAddrLine(p, line)
  BY DEF Turn
<1>8. CASE k = 1
  <2>1. IpAddrLine(At(NoName, <<>>), Named(iface.name)) = At(NoName, <<>>)
    BY HeaderTurn
  <2>2. B[k] = Named(iface.name)
    BY <1>4, <1>8
  <2> QED BY <1>1, <1>3, <1>6, <2>1, <2>2
<1>9. CASE k \in 2 .. n + 1
  <2>1. PICK i : i = k - 1
    OBVIOUS
  <2>2. i \in 1 .. n /\ k = 1 + i
    BY <1>5, <1>9, <2>1
  <2>3. B[k] = InetLine(kind, iface.addresses[i])
    BY <1>4, <2>2
  <2>4. append(<<>>, NoName, iface.addresses[i]) = <<>>
    BY Zenon DEF append
  <2>5. Turn("ip", At(NoName, <<>>), B[k]) = At(NoName, <<>>)
    BY <2>3, <2>4, AddressTurn
  <2> QED BY <1>1, <1>3, <1>6, <1>7, <2>5
<1>10. CASE k > n + 1
  <2>1. PICK i : i = k - (1 + n)
    OBVIOUS
  <2>2. k \in 1 .. Len(B)
    BY <1>1, <1>3
  <2>3. i \in 1 .. Len(rest) /\ k = 1 + n + i
    <3>1. Len(B) = 1 + n + Len(rest)
      BY <1>4
    <3> QED BY <1>5, <1>10, <2>1, <2>2, <3>1
  <2>4. B[k] \in QuietLines
    BY <1>1, <1>4, <2>3
  <2>5. Turn("ip", At(NoName, <<>>), B[k]) = At(NoName, <<>>)
    BY <2>4, QuietTurn
  <2> QED BY <1>1, <1>3, <1>6, <1>7, <2>5
<1> QED BY <1>5, <1>8, <1>9, <1>10

-----------------------------------------------------------------------------
(* What a device prints and what it has.                                   *)

AllPairs == STRING \X Addresses

PairsOf(iface) ==
  IF iface.loopback THEN <<>>
  ELSE [k \in DOMAIN iface.addresses |-> <<iface.name, iface.addresses[k]>>]

LEMMA PairsOfFacts ==
  ASSUME NEW iface \in Ifaces
  PROVE  /\ PairsOf(iface) \in Seq(AllPairs)
         /\ Len(PairsOf(iface)) = IF iface.loopback THEN 0 ELSE Len(iface.addresses)
         /\ \A k \in 1 .. Len(PairsOf(iface)) :
              PairsOf(iface)[k] = <<iface.name, iface.addresses[k]>>
<1>1. PICK n : n = Len(iface.addresses)
  OBVIOUS
<1>2. /\ n \in Nat /\ DOMAIN iface.addresses = 1 .. n /\ iface.name \in STRING
      /\ \A k \in 1 .. n : iface.addresses[k] \in Addresses
  BY <1>1, IfaceFacts
<1>3. CASE iface.loopback
  <2>1. PairsOf(iface) = <<>>
    BY <1>3, Zenon DEF PairsOf
  <2> QED BY <1>3, <2>1
<1>4. CASE ~iface.loopback
  <2>1. PairsOf(iface) = [k \in 1 .. n |-> <<iface.name, iface.addresses[k]>>]
    BY <1>2, <1>4, Zenon DEF PairsOf
  <2>2. \A k \in 1 .. n : <<iface.name, iface.addresses[k]>> \in AllPairs
    BY <1>2 DEF AllPairs
  <2>3. /\ PairsOf(iface) \in Seq(AllPairs) /\ Len(PairsOf(iface)) = n
        /\ \A k \in 1 .. n : PairsOf(iface)[k] = <<iface.name, iface.addresses[k]>>
    BY <1>2, <2>1, <2>2
  <2> QED BY <1>1, <1>4, <2>3
<1> QED BY <1>3, <1>4

(* Blocks() and Pairs(), interface by interface. *)
LEMMA DeviceFacts ==
  ASSUME NEW d \in Devices, NEW printed \in Formats
  PROVE  /\ Len(d) \in Nat /\ DOMAIN d = 1 .. Len(d) /\ \A b \in 1 .. Len(d) : d[b] \in Ifaces
         /\ Blocks(d, printed) \in Seq(Seq(Lines)) /\ Len(Blocks(d, printed)) = Len(d)
         /\ \A b \in 1 .. Len(d) : Blocks(d, printed)[b] = BlockOf(d[b], printed)
         /\ Pairs(d) \in Seq(Seq(AllPairs)) /\ Len(Pairs(d)) = Len(d)
         /\ \A b \in 1 .. Len(d) : Pairs(d)[b] = PairsOf(d[b])
<1>1. PICK n : n = Len(d)
  OBVIOUS
<1>2. n \in Nat /\ DOMAIN d = 1 .. n /\ \A b \in 1 .. n : d[b] \in Ifaces
  <2>1. d \in Seq(Ifaces)
    BY DeviceAssumption
  <2> QED BY <1>1, <2>1
<1>3. Blocks(d, printed) = [b \in 1 .. n |-> BlockOf(d[b], printed)]
  BY <1>2, Zenon DEF Blocks, BlockOf
<1>4. Pairs(d) = [b \in 1 .. n |-> PairsOf(d[b])]
  BY <1>2, Zenon DEF Pairs, PairsOf
<1>5. \A b \in 1 .. n : BlockOf(d[b], printed) \in Seq(Lines)
  BY <1>2, BlockTurns DEF Moves
<1>6. \A b \in 1 .. n : PairsOf(d[b]) \in Seq(AllPairs)
  BY <1>2, PairsOfFacts
<1>7. /\ Blocks(d, printed) \in Seq(Seq(Lines)) /\ Len(Blocks(d, printed)) = n
      /\ \A b \in 1 .. n : Blocks(d, printed)[b] = BlockOf(d[b], printed)
  BY <1>2, <1>3, <1>5
<1>8. /\ Pairs(d) \in Seq(Seq(AllPairs)) /\ Len(Pairs(d)) = n
      /\ \A b \in 1 .. n : Pairs(d)[b] = PairsOf(d[b])
  BY <1>2, <1>4, <1>6
<1> QED BY <1>1, <1>2, <1>7, <1>8

(* Names and addresses of a device. *)
LEMMA DeviceDistinct ==
  ASSUME NEW d \in Devices
  PROVE  /\ \A b, c \in 1 .. Len(d) : d[b].name = d[c].name => b = c
         /\ \A b \in 1 .. Len(d) :
              /\ d[b].loopback <=> is_loopback_interface_name(d[b].name)
              /\ \A k, m \in 1 .. Len(d[b].addresses) :
                   d[b].addresses[k] = d[b].addresses[m] => k = m
<1>1. "ip" \in Formats
  BY DEF Formats
<1>2. DOMAIN d = 1 .. Len(d) /\ \A b \in 1 .. Len(d) : d[b] \in Ifaces
  BY <1>1, DeviceFacts
<1>3. \A b \in 1 .. Len(d) : DOMAIN d[b].addresses = 1 .. Len(d[b].addresses)
  BY <1>2, IfaceFacts
<1>4. \A b, c \in DOMAIN d : d[b].name = d[c].name => b = c
  BY DeviceAssumption, Zenon
<1>5. \A b \in DOMAIN d :
        /\ d[b].loopback <=> is_loopback_interface_name(d[b].name)
        /\ \A k, m \in DOMAIN d[b].addresses :
             d[b].addresses[k] = d[b].addresses[m] => k = m
  BY DeviceAssumption, Zenon
<1>6. ASSUME NEW b \in 1 .. Len(d), NEW k \in 1 .. Len(d[b].addresses),
             NEW m \in 1 .. Len(d[b].addresses), d[b].addresses[k] = d[b].addresses[m]
      PROVE  k = m
  <2>1. b \in DOMAIN d /\ k \in DOMAIN d[b].addresses /\ m \in DOMAIN d[b].addresses
    BY <1>2, <1>3
  <2> QED BY <1>5, <1>6, <2>1, Zenon
<1>7. \A b, c \in 1 .. Len(d) : d[b].name = d[c].name => b = c
  BY <1>2, <1>4
<1>8. \A b \in 1 .. Len(d) : d[b].loopback <=> is_loopback_interface_name(d[b].name)
  <2>1. \A b \in 1 .. Len(d) : b \in DOMAIN d
    BY <1>2
  <2> QED BY <1>5, <2>1, Zenon
<1> QED BY <1>6, <1>7, <1>8, Zenon

(* Each is of one interface of the device. *)
LEMMA HasElement ==
  ASSUME NEW d \in Devices, NEW at, Starts(at, Pairs(d), Has(d)), NEW x \in 1 .. Len(Has(d))
  PROVE  \E b \in 1 .. Len(d) : \E j \in 1 .. Len(d[b].addresses) :
           /\ x = at[b] + j
           /\ Has(d)[x] = <<d[b].name, d[b].addresses[j]>>
<1>1. "ip" \in Formats
  BY DEF Formats
<1>2. /\ Len(d) \in Nat /\ \A b \in 1 .. Len(d) : d[b] \in Ifaces
      /\ Len(Pairs(d)) = Len(d)
      /\ \A b \in 1 .. Len(d) : Pairs(d)[b] = PairsOf(d[b])
  BY <1>1, DeviceFacts
<1>3. PICK b \in 1 .. Len(d) : \E j \in 1 .. Len(Pairs(d)[b]) : x = at[b] + j
  <2>1. \E b \in 1 .. Len(Pairs(d)) : \E j \in 1 .. Len(Pairs(d)[b]) : x = at[b] + j
    BY Zenon DEF Starts
  <2> QED BY <1>2, <2>1
<1>4. PICK j \in 1 .. Len(Pairs(d)[b]) : x = at[b] + j
  BY <1>3
<1>5. Has(d)[x] = Pairs(d)[b][j]
  BY <1>2, <1>4, Zenon DEF Starts
<1>6. d[b] \in Ifaces /\ Pairs(d)[b] = PairsOf(d[b]) /\ j \in 1 .. Len(PairsOf(d[b]))
  BY <1>2, <1>4
<1>7. /\ PairsOf(d[b])[j] = <<d[b].name, d[b].addresses[j]>>
      /\ Len(PairsOf(d[b])) = IF d[b].loopback THEN 0 ELSE Len(d[b].addresses)
  BY <1>6, PairsOfFacts
<1>8. j \in 1 .. Len(d[b].addresses)
  BY <1>6, <1>7
<1> QED BY <1>4, <1>5, <1>6, <1>7, <1>8

(* No pair is there twice. *)
LEMMA HasFacts ==
  ASSUME NEW d \in Devices
  PROVE  /\ Has(d) \in Seq(AllPairs)
         /\ \E at : Starts(at, Pairs(d), Has(d))
         /\ \A x, y \in 1 .. Len(Has(d)) : Has(d)[x] = Has(d)[y] => x = y
<1>1. "ip" \in Formats
  BY DEF Formats
<1>2. /\ Len(d) \in Nat /\ \A b \in 1 .. Len(d) : d[b] \in Ifaces
      /\ Pairs(d) \in Seq(Seq(AllPairs)) /\ Len(Pairs(d)) = Len(d)
      /\ \A b \in 1 .. Len(d) : Pairs(d)[b] = PairsOf(d[b])
  BY <1>1, DeviceFacts
<1>3. Has(d) = FlattenSeq(Pairs(d))
  BY Zenon DEF Has
<1>4. Has(d) \in Seq(AllPairs) /\ \E at : Starts(at, Pairs(d), Has(d))
  BY <1>2, <1>3, FlattenStarts
<1>5. PICK at : Starts(at, Pairs(d), Has(d))
  BY <1>4
<1>6. ASSUME NEW x \in 1 .. Len(Has(d))
      PROVE  \E b \in 1 .. Len(d) : \E j \in 1 .. Len(d[b].addresses) :
               /\ x = at[b] + j
               /\ Has(d)[x] = <<d[b].name, d[b].addresses[j]>>
  BY <1>5, HasElement
<1>7. ASSUME NEW x \in 1 .. Len(Has(d)), NEW y \in 1 .. Len(Has(d)), Has(d)[x] = Has(d)[y]
      PROVE  x = y
  <2>b. PICK b \in 1 .. Len(d) : \E j \in 1 .. Len(d[b].addresses) :
          x = at[b] + j /\ Has(d)[x] = <<d[b].name, d[b].addresses[j]>>
    BY <1>6, Zenon
  <2>1. PICK j \in 1 .. Len(d[b].addresses) :
          x = at[b] + j /\ Has(d)[x] = <<d[b].name, d[b].addresses[j]>>
    BY <2>b, Zenon
  <2>c. PICK c \in 1 .. Len(d) : \E k \in 1 .. Len(d[c].addresses) :
          y = at[c] + k /\ Has(d)[y] = <<d[c].name, d[c].addresses[k]>>
    BY <1>6, Zenon
  <2>2. PICK k \in 1 .. Len(d[c].addresses) :
          y = at[c] + k /\ Has(d)[y] = <<d[c].name, d[c].addresses[k]>>
    BY <2>c, Zenon
  <2>3. d[b].name = d[c].name /\ d[b].addresses[j] = d[c].addresses[k]
    BY <1>7, <2>1, <2>2
  <2>4. b = c
    BY <2>3, DeviceDistinct
  <2>5. j = k
    BY <2>1, <2>2, <2>3, <2>4, DeviceDistinct
  <2> QED BY <2>1, <2>2, <2>4, <2>5
<1> QED BY <1>4, <1>7

-----------------------------------------------------------------------------
(* Where the loop of a parser is.                                          *)

(* Of the pairs of an interface, those its first k lines give. *)
Given(pairs, k) == IF k = 0 THEN 0 ELSE IF k - 1 <= Len(pairs) THEN k - 1 ELSE Len(pairs)

LEMMA GivenFacts ==
  ASSUME NEW pairs, Len(pairs) \in Nat, NEW k \in Nat
  PROVE  /\ Given(pairs, k) \in 0 .. Len(pairs)
         /\ k = 0 => Given(pairs, k) = 0
         /\ k \in 1 .. Len(pairs) + 1 => Given(pairs, k) = k - 1
         /\ k > Len(pairs) => Given(pairs, k) = Len(pairs)
<1>1. PICK m, g : m = Len(pairs) /\ g = Given(pairs, k)
  OBVIOUS
<1>2. g = IF k = 0 THEN 0 ELSE IF k - 1 <= m THEN k - 1 ELSE m
  BY <1>1, Zenon DEF Given
<1>3. /\ g \in 0 .. m
      /\ k = 0 => g = 0
      /\ k \in 1 .. m + 1 => g = k - 1
      /\ k > m => g = m
  BY <1>1, <1>2
<1> QED BY <1>1, <1>3

(* k lines of block b have been read, of k < Len(B), or all blocks have;   *)
(* what was parsed is the beginning of what the device has that they give. *)
Within(rows, at, d, printed, b, k, line, p) ==
  /\ b \in 1 .. Len(d) /\ k \in 0 .. Len(Blocks(d, printed)[b])
  /\ line = rows[b] + k + 1
  /\ \E current : /\ k > 0 => current = d[b].name
                  /\ p = At(current, SubSeq(Has(d), 1, at[b] + Given(Pairs(d)[b], k)))

Behind(rows, at, d, line, p) ==
  /\ line = rows[Len(d) + 1] + 1
  /\ \E current : p = At(current, Has(d))

Where(rows, at, d, printed, line, p) ==
  \/ Behind(rows, at, d, line, p)
  \/ \E b, k : /\ Within(rows, at, d, printed, b, k, line, p)
               /\ k < Len(Blocks(d, printed)[b])

(* What the proofs below need to know of block b: n addresses, the lines B *)
(* and the pairs P.                                                        *)
BlockIs(rows, at, d, printed, b, n, B, P) ==
  /\ d[b] \in Ifaces /\ Blocks(d, printed)[b] = B /\ Pairs(d)[b] = P
  /\ Len(B) \in Nat /\ n \in Nat /\ Len(P) \in Nat /\ Len(P) <= n /\ Len(B) >= n + 1
  /\ {rows[b], rows[b + 1], at[b], at[b + 1]} \subseteq Nat
  /\ rows[b + 1] = rows[b] + Len(B)
  /\ at[b + 1] = at[b] + Len(P) /\ at[b] + Len(P) <= Len(Has(d))
  /\ \A k \in 1 .. Len(B) : Printed(d, printed)[rows[b] + k] = B[k]
  /\ \A k \in 1 .. Len(P) : Has(d)[at[b] + k] = <<d[b].name, d[b].addresses[k]>>

LEMMA BlockData ==
  ASSUME NEW d \in Devices, NEW printed \in Formats, NEW rows, NEW at,
         Starts(rows, Blocks(d, printed), Printed(d, printed)), Starts(at, Pairs(d), Has(d)),
         NEW b \in 1 .. Len(d)
  PROVE  BlockIs(rows, at, d, printed, b, Len(d[b].addresses), BlockOf(d[b], printed),
                 PairsOf(d[b]))
<1>1. /\ Len(d) \in Nat /\ d[b] \in Ifaces
      /\ Len(Blocks(d, printed)) = Len(d) /\ Blocks(d, printed)[b] = BlockOf(d[b], printed)
      /\ Len(Pairs(d)) = Len(d) /\ Pairs(d)[b] = PairsOf(d[b])
  BY DeviceFacts
<1>2. BlockOf(d[b], printed) \in Seq(Lines) /\ Len(BlockOf(d[b], printed)) >= Len(d[b].addresses) + 1
  BY <1>1, BlockTurns DEF Moves
<1>3. /\ PairsOf(d[b]) \in Seq(AllPairs)
      /\ Len(PairsOf(d[b])) = IF d[b].loopback THEN 0 ELSE Len(d[b].addresses)
      /\ \A k \in 1 .. Len(PairsOf(d[b])) : PairsOf(d[b])[k] = <<d[b].name, d[b].addresses[k]>>
  BY <1>1, PairsOfFacts
<1>4. Len(d[b].addresses) \in Nat
  BY <1>1, IfaceFacts
<1>5. b \in 1 .. Len(Blocks(d, printed)) /\ b \in 1 .. Len(Pairs(d))
  BY <1>1
<1>6. /\ rows \in [1 .. Len(d) + 1 -> Nat] /\ at \in [1 .. Len(d) + 1 -> Nat]
  BY <1>1, Zenon DEF Starts
<1>7. /\ rows[b + 1] = rows[b] + Len(Blocks(d, printed)[b])
      /\ \A k \in 1 .. Len(Blocks(d, printed)[b]) :
           Printed(d, printed)[rows[b] + k] = Blocks(d, printed)[b][k]
  BY <1>5, Zenon DEF Starts
<1>8. /\ at[b + 1] = at[b] + Len(Pairs(d)[b])
      /\ \A k \in 1 .. Len(Pairs(d)[b]) :
           at[b] + k \in 1 .. Len(Has(d)) /\ Has(d)[at[b] + k] = Pairs(d)[b][k]
  BY <1>5, Zenon DEF Starts
<1>9. at[b] + Len(PairsOf(d[b])) <= Len(Has(d))
  <2>1. Len(Has(d)) \in Nat
    BY HasFacts
  <2>2. \A c \in 1 .. Len(d) + 1 : at[c] <= Len(Has(d))
    <3> DEFINE P == {m \in 0 .. Len(d) : at[Len(d) + 1 - m] <= Len(Has(d))}
    <3>1. 0 \in P
      <4>1. at[Len(d) + 1] = Len(Has(d))
        BY <1>1 DEF Starts
      <4>2. Len(d) + 1 - 0 = Len(d) + 1 /\ 0 \in 0 .. Len(d)
        BY <1>1
      <4> QED BY <2>1, <4>1, <4>2
    <3>2. ASSUME NEW m \in 0 .. Len(d) - 1, m \in P PROVE m + 1 \in P
      <4>1. PICK c : c = Len(d) + 1 - (m + 1)
        OBVIOUS
      <4>2. c \in 1 .. Len(d) /\ c + 1 = Len(d) + 1 - m /\ m + 1 \in 0 .. Len(d)
        BY <1>1, <4>1
      <4>3. at[c + 1] = at[c] + Len(Pairs(d)[c])
        BY <1>1, <4>2 DEF Starts
      <4>4. Pairs(d)[c] = PairsOf(d[c]) /\ d[c] \in Ifaces
        <5>1. \A e \in 1 .. Len(d) : Pairs(d)[e] = PairsOf(d[e]) /\ d[e] \in Ifaces
          BY DeviceFacts
        <5> QED BY <4>2, <5>1
      <4>5. PairsOf(d[c]) \in Seq(AllPairs)
        BY <4>4, PairsOfFacts
      <4>6. Len(Pairs(d)[c]) \in Nat
        BY <4>4, <4>5
      <4>7. at[c] \in Nat /\ at[c + 1] \in Nat /\ at[c + 1] <= Len(Has(d))
        <5>1. c \in 1 .. Len(d) + 1 /\ c + 1 \in 1 .. Len(d) + 1
          BY <1>1, <4>2
        <5>2. at[Len(d) + 1 - m] <= Len(Has(d))
          BY <3>2
        <5> QED BY <1>6, <4>2, <5>1, <5>2
      <4> QED BY <2>1, <4>1, <4>2, <4>3, <4>6, <4>7
    <3>3. \A m \in 0 .. Len(d) : m \in P
      <4> HIDE DEF P
      <4> QED BY <1>1, <3>1, <3>2, UpTo
    <3>4. ASSUME NEW c \in 1 .. Len(d) + 1 PROVE at[c] <= Len(Has(d))
      <4>1. PICK m : m = Len(d) + 1 - c
        OBVIOUS
      <4>2. m \in 0 .. Len(d) /\ Len(d) + 1 - m = c
        BY <1>1, <4>1
      <4> QED BY <3>3, <4>2
    <3> QED BY <3>4
  <2>3. b + 1 \in 1 .. Len(d) + 1
    BY <1>1
  <2> QED BY <1>1, <1>8, <2>2, <2>3
<1>10. {rows[b], rows[b + 1], at[b], at[b + 1]} \subseteq Nat
  BY <1>1, <1>6
<1>11. Len(BlockOf(d[b], printed)) \in Nat /\ Len(PairsOf(d[b])) \in Nat
  BY <1>2, <1>3
<1>12. Len(PairsOf(d[b])) <= Len(d[b].addresses)
  BY <1>3, <1>4
<1>13. \A k \in 1 .. Len(PairsOf(d[b])) : Has(d)[at[b] + k] = <<d[b].name, d[b].addresses[k]>>
  BY <1>1, <1>3, <1>8
<1>14. \A k \in 1 .. Len(BlockOf(d[b], printed)) :
         Printed(d, printed)[rows[b] + k] = BlockOf(d[b], printed)[k]
  BY <1>1, <1>7
<1>15. /\ rows[b + 1] = rows[b] + Len(BlockOf(d[b], printed))
       /\ at[b + 1] = at[b] + Len(PairsOf(d[b]))
  BY <1>1, <1>7, <1>8
<1> QED BY <1>1, <1>2, <1>4, <1>9, <1>10, <1>11, <1>12, <1>13, <1>14, <1>15, Zenon DEF BlockIs

(* append() adds the next pair the device has. *)
LEMMA AppendNext ==
  ASSUME NEW d \in Devices, NEW n \in Nat, n < Len(Has(d)), NEW name, NEW ipv4,
         Has(d)[n + 1] = <<name, ipv4>>, name # NoName, ipv4 # NoAddress,
         ~is_loopback_interface_name(name)
  PROVE  append(SubSeq(Has(d), 1, n), name, ipv4) = SubSeq(Has(d), 1, n + 1)
<1>1. PICK h : h = Has(d)
  OBVIOUS
<1>2. h \in Seq(AllPairs) /\ \A x, y \in 1 .. Len(h) : h[x] = h[y] => x = y
  BY <1>1, HasFacts
<1>3. PICK s : s = SubSeq(h, 1, n)
  OBVIOUS
<1>4. n \in 0 .. Len(h) /\ n + 1 \in 0 .. Len(h) /\ n + 1 \in 1 .. Len(h)
  BY <1>1, <1>2
<1>5. s \in Seq(AllPairs) /\ Len(s) = n /\ \A i \in 1 .. n : s[i] = h[i]
  BY <1>2, <1>3, <1>4, TakeFacts
<1>6. ~Contains(s, <<name, ipv4>>)
  <2>1. SUFFICES ASSUME NEW i \in 1 .. Len(s), s[i] = <<name, ipv4>> PROVE FALSE
    BY Zenon DEF Contains
  <2>2. i \in 1 .. Len(h) /\ i # n + 1 /\ h[i] = h[n + 1]
    BY <1>1, <1>4, <1>5, <2>1
  <2> QED BY <1>2, <1>4, <2>2
<1>7. append(s, name, ipv4) = Append(s, <<name, ipv4>>)
  BY <1>6, Zenon DEF append
<1>8. Append(s, <<name, ipv4>>) = SubSeq(h, 1, n + 1)
  <2>1. h[n + 1] \in AllPairs /\ <<name, ipv4>> = h[n + 1]
    BY <1>1, <1>2, <1>4
  <2>2. PICK t : t = Append(s, h[n + 1])
    OBVIOUS
  <2>3. /\ t \in Seq(AllPairs) /\ Len(t) = n + 1 /\ t[n + 1] = h[n + 1]
        /\ \A i \in 1 .. n : t[i] = h[i]
    BY <1>5, <2>1, <2>2
  <2>4. \A i \in 1 .. n + 1 : t[i] = h[i]
    BY <2>3
  <2>5. PICK u : u = SubSeq(h, 1, n + 1)
    OBVIOUS
  <2>6. u \in Seq(AllPairs) /\ Len(u) = n + 1 /\ \A i \in 1 .. n + 1 : u[i] = h[i]
    BY <1>2, <1>4, <2>5, TakeFacts
  <2>7. t = u
    BY <2>3, <2>4, <2>6, SameElements
  <2> QED BY <2>1, <2>2, <2>5, <2>7
<1> QED BY <1>1, <1>3, <1>7, <1>8

(* A block whose lines have all been read. *)
LEMMA NextBlock ==
  ASSUME NEW d \in Devices, NEW printed \in Formats, NEW rows, NEW at,
         Starts(rows, Blocks(d, printed), Printed(d, printed)), Starts(at, Pairs(d), Has(d)),
         NEW b, NEW k, NEW line, NEW p, Within(rows, at, d, printed, b, k, line, p)
  PROVE  Where(rows, at, d, printed, line, p)
<1>1. b \in 1 .. Len(d) /\ k \in 0 .. Len(Blocks(d, printed)[b])
  BY DEF Within
<1>2. CASE k < Len(Blocks(d, printed)[b])
  BY <1>2, Zenon DEF Where
<1>3. CASE ~(k < Len(Blocks(d, printed)[b]))
  <2>1. PICK n, B, P : n = Len(d[b].addresses) /\ B = BlockOf(d[b], printed) /\ P = PairsOf(d[b])
    OBVIOUS
  <2>2. /\ Blocks(d, printed)[b] = B /\ Pairs(d)[b] = P /\ n \in Nat
        /\ Len(B) \in Nat /\ Len(P) \in Nat /\ Len(P) <= n /\ Len(B) >= n + 1
        /\ {rows[b], rows[b + 1], at[b], at[b + 1]} \subseteq Nat
        /\ rows[b + 1] = rows[b] + Len(B)
        /\ at[b + 1] = at[b] + Len(P)
    <3>1. BlockIs(rows, at, d, printed, b, n, B, P)
      BY <1>1, <2>1, BlockData
    <3> QED BY <3>1, Zenon DEF BlockIs
  <2>3. k = Len(B)
    BY <1>1, <1>3, <2>2
  <2>4. Given(P, k) = Len(P)
    BY <2>2, <2>3 DEF Given
  <2>5. line = rows[b + 1] + 1 /\ \E current : p = At(current, SubSeq(Has(d), 1, at[b + 1]))
    <3>1. line = rows[b] + k + 1 /\ \E current : p = At(current, SubSeq(Has(d), 1, at[b] + Given(P, k)))
      BY <2>2 DEF Within
    <3>2. rows[b] + k + 1 = rows[b + 1] + 1 /\ at[b] + Given(P, k) = at[b + 1]
      BY <2>2, <2>3, <2>4
    <3> QED BY <3>1, <3>2
  <2>6. Len(d) \in Nat /\ Len(Blocks(d, printed)) = Len(d) /\ Len(Pairs(d)) = Len(d)
    BY DeviceFacts
  <2>7. CASE b = Len(d)
    <3>1. at[b + 1] = Len(Has(d))
      BY <2>6, <2>7 DEF Starts
    <3>2. SubSeq(Has(d), 1, Len(Has(d))) = Has(d)
      BY HasFacts
    <3>3. Behind(rows, at, d, line, p)
      BY <2>5, <2>7, <3>1, <3>2 DEF Behind
    <3> QED BY <3>3 DEF Where
  <2>8. CASE b # Len(d)
    <3>1. b + 1 \in 1 .. Len(d)
      BY <1>1, <2>6, <2>8
    <3>2. /\ Blocks(d, printed)[b + 1] = BlockOf(d[b + 1], printed)
          /\ Len(BlockOf(d[b + 1], printed)) \in Nat /\ Len(d[b + 1].addresses) \in Nat
          /\ Len(BlockOf(d[b + 1], printed)) >= Len(d[b + 1].addresses) + 1
      <4>1. BlockIs(rows, at, d, printed, b + 1, Len(d[b + 1].addresses),
                    BlockOf(d[b + 1], printed), PairsOf(d[b + 1]))
        BY <3>1, BlockData
      <4> QED BY <4>1, Zenon DEF BlockIs
    <3>3. 0 < Len(Blocks(d, printed)[b + 1]) /\ 0 \in 0 .. Len(Blocks(d, printed)[b + 1])
      BY <3>2
    <3>4. Given(Pairs(d)[b + 1], 0) = 0
      BY DEF Given
    <3>5. line = rows[b + 1] + 0 + 1 /\ at[b + 1] + Given(Pairs(d)[b + 1], 0) = at[b + 1]
      BY <2>2, <2>5, <3>4
    <3>6. Within(rows, at, d, printed, b + 1, 0, line, p)
      BY <2>5, <3>1, <3>3, <3>5 DEF Within
    <3> QED BY <3>3, <3>6, Zenon DEF Where
  <2> QED BY <2>7, <2>8
<1> QED BY <1>2, <1>3

(* One turn of the loop, on the output the parser is for. *)
LEMMA ParseStep ==
  ASSUME NEW d \in Devices, NEW printed \in Formats, NEW rows, NEW at,
         Starts(rows, Blocks(d, printed), Printed(d, printed)), Starts(at, Pairs(d), Has(d)),
         NEW line, NEW p, Where(rows, at, d, printed, line, p), line <= Len(Printed(d, printed))
  PROVE  Where(rows, at, d, printed, line + 1, Turn(printed, p, Printed(d, printed)[line]))
<1>1. Len(d) \in Nat /\ Len(Blocks(d, printed)) = Len(d)
  BY DeviceFacts
<1>2. rows[Len(d) + 1] = Len(Printed(d, printed)) /\ rows[Len(d) + 1] \in Nat
  BY <1>1 DEF Starts
<1>3. ~Behind(rows, at, d, line, p)
  BY <1>2 DEF Behind
<1>4. PICK b, k : Within(rows, at, d, printed, b, k, line, p) /\ k < Len(Blocks(d, printed)[b])
  BY <1>3 DEF Where
<1>5. b \in 1 .. Len(d) /\ k \in 0 .. Len(Blocks(d, printed)[b]) /\ line = rows[b] + k + 1
  BY <1>4 DEF Within
<1>6. PICK current : /\ k > 0 => current = d[b].name
                     /\ p = At(current, SubSeq(Has(d), 1, at[b] + Given(Pairs(d)[b], k)))
  BY <1>4 DEF Within
<1>7. PICK n, B, P : n = Len(d[b].addresses) /\ B = BlockOf(d[b], printed) /\ P = PairsOf(d[b])
  OBVIOUS
<1>8. BlockIs(rows, at, d, printed, b, n, B, P)
  BY <1>5, <1>7, BlockData
<1>9. /\ d[b] \in Ifaces /\ Blocks(d, printed)[b] = B /\ Pairs(d)[b] = P
      /\ Len(B) \in Nat /\ n \in Nat /\ Len(P) \in Nat /\ Len(P) <= n /\ Len(B) >= n + 1
      /\ rows[b] \in Nat /\ at[b] \in Nat /\ at[b] + Len(P) <= Len(Has(d))
      /\ \A j \in 1 .. Len(B) : Printed(d, printed)[rows[b] + j] = B[j]
      /\ \A j \in 1 .. Len(P) : Has(d)[at[b] + j] = <<d[b].name, d[b].addresses[j]>>
  BY <1>8 DEF BlockIs
<1>10. PICK s : s = SubSeq(Has(d), 1, at[b] + Given(P, k))
  OBVIOUS
<1>11. k \in Nat /\ k < Len(B) /\ k + 1 \in 1 .. Len(B) /\ k + 1 \in 0 .. Len(B)
  BY <1>4, <1>5, <1>9
<1>12. Printed(d, printed)[line] = B[k + 1]
  <2>1. rows[b] + (k + 1) = line
    <3>1. rows[b] \in Nat /\ k \in Nat /\ line = rows[b] + k + 1
      BY <1>5, <1>9, <1>11
    <3> QED BY <3>1
  <2> QED BY <1>9, <1>11, <2>1
<1>13. PICK q : q = Turn(printed, p, B[k + 1])
  OBVIOUS
<1>14. /\ Turn(printed, At(current, s), B[1]) = At(d[b].name, s)
       /\ \A i \in 1 .. n : Turn(printed, At(current, s), B[1 + i]) =
                              At(current, append(s, current, d[b].addresses[i]))
       /\ \A i \in n + 2 .. Len(B) : Turn(printed, At(current, s), B[i]) = At(current, s)
  <2>1. Moves(B, n, d[b], printed, current, s)
    BY <1>7, <1>9, BlockTurns
  <2> QED BY <2>1, Zenon DEF Moves
<1>15. p = At(current, s)
  BY <1>6, <1>9, <1>10
<1>16. q = At(d[b].name, SubSeq(Has(d), 1, at[b] + Given(P, k + 1)))
  <2>1. CASE k = 0
    <3>1. Given(P, k) = 0 /\ Given(P, k + 1) = 0
      <4>1. Len(P) \in Nat /\ k \in Nat /\ k + 1 \in Nat /\ k + 1 \in 1 .. Len(P) + 1
        BY <1>9, <2>1
      <4>2. (k + 1) - 1 = 0
        BY <2>1
      <4> QED BY <2>1, <4>1, <4>2, GivenFacts
    <3>2. k + 1 = 1
      BY <2>1
    <3> QED BY <1>10, <1>13, <1>14, <1>15, <3>1, <3>2
  <2>2. CASE k \in 1 .. n
    <3>1. current = d[b].name /\ k + 1 = 1 + k
      BY <1>6, <2>2
    <3>2. q = At(d[b].name, append(s, d[b].name, d[b].addresses[k]))
      BY <1>13, <1>14, <1>15, <2>2, <3>1
    <3>3. /\ d[b].loopback \in BOOLEAN
          /\ Len(P) = IF d[b].loopback THEN 0 ELSE n
      <4>1. Len(P) = IF d[b].loopback THEN 0 ELSE n
        BY <1>7, <1>9, PairsOfFacts
      <4>2. d[b].loopback \in BOOLEAN
        BY <1>9 DEF Ifaces
      <4> QED BY <4>1, <4>2
    <3>4. d[b].loopback <=> is_loopback_interface_name(d[b].name)
      BY <1>5, DeviceDistinct
    <3>5. CASE d[b].loopback
      <4>1. Len(P) = 0
        BY <3>3, <3>5
      <4>2. Given(P, k) = 0 /\ Given(P, k + 1) = 0
        <5>1. Len(P) \in Nat /\ k \in Nat /\ k + 1 \in Nat /\ k > Len(P) /\ k + 1 > Len(P)
          BY <1>11, <2>2, <4>1
        <5> QED BY <4>1, <5>1, GivenFacts
      <4>3. append(s, d[b].name, d[b].addresses[k]) = s
        BY <3>4, <3>5, Zenon DEF append
      <4> QED BY <1>10, <3>2, <4>2, <4>3
    <3>6. CASE ~d[b].loopback
      <4>1. Len(P) = n
        BY <3>3, <3>6
      <4>2. Given(P, k) = k - 1 /\ Given(P, k + 1) = k
        <5>1. /\ Len(P) \in Nat /\ k \in Nat /\ k + 1 \in Nat
              /\ k \in 1 .. Len(P) + 1 /\ k + 1 \in 1 .. Len(P) + 1 /\ (k + 1) - 1 = k
          BY <1>9, <1>11, <2>2, <4>1
        <5> QED BY <5>1, GivenFacts
      <4>3. PICK m : m = at[b] + (k - 1)
        OBVIOUS
      <4>4. m \in Nat /\ m + 1 = at[b] + k /\ m < Len(Has(d))
        <5>1. Has(d) \in Seq(AllPairs)
          BY HasFacts
        <5>2. PICK h, a : h = Len(Has(d)) /\ a = at[b]
          OBVIOUS
        <5>3. h \in Nat /\ a \in Nat /\ n \in Nat /\ a + n <= h
          BY <1>9, <4>1, <5>1, <5>2
        <5>4. m \in Nat /\ m + 1 = a + k /\ m < h
          <6>1. m = a + (k - 1)
            BY <4>3, <5>2
          <6>2. k \in Nat /\ k <= n /\ k # 0
            BY <2>2, <5>3
          <6> QED BY <5>3, <6>1, <6>2
        <5> QED BY <5>2, <5>4
      <4>5. Has(d)[m + 1] = <<d[b].name, d[b].addresses[k]>>
        BY <1>9, <2>2, <4>1, <4>4
      <4>6. d[b].name # NoName /\ d[b].addresses[k] # NoAddress
        <5>1. d[b].name # NoName /\ d[b].addresses \in Seq(Addresses)
          BY <1>9, IfaceFacts
        <5>2. d[b].addresses[k] \in Addresses
          BY <1>7, <2>2, <5>1
        <5> QED BY <5>1, <5>2, DeviceAssumption
      <4>7. ~is_loopback_interface_name(d[b].name)
        BY <3>4, <3>6
      <4>8. append(SubSeq(Has(d), 1, m), d[b].name, d[b].addresses[k]) = SubSeq(Has(d), 1, m + 1)
        BY <4>4, <4>5, <4>6, <4>7, AppendNext
      <4> QED BY <1>10, <3>2, <4>2, <4>3, <4>4, <4>8
    <3> QED BY <3>5, <3>6
  <2>3. CASE k > n
    <3>1. current = d[b].name /\ k + 1 \in n + 2 .. Len(B)
      BY <1>6, <1>9, <1>11, <2>3
    <3>2. q = At(d[b].name, s)
      BY <1>13, <1>14, <1>15, <3>1
    <3>3. Given(P, k) = Len(P) /\ Given(P, k + 1) = Len(P)
      <4>1. Len(P) \in Nat /\ k \in Nat /\ k + 1 \in Nat /\ k > Len(P) /\ k + 1 > Len(P)
        BY <1>9, <1>11, <2>3
      <4> QED BY <4>1, GivenFacts
    <3> QED BY <1>10, <3>2, <3>3
  <2> QED BY <1>9, <1>11, <2>1, <2>2, <2>3
<1>17. line + 1 = rows[b] + (k + 1) + 1
  <2>1. rows[b] \in Nat /\ k \in Nat /\ line = rows[b] + k + 1
    BY <1>5, <1>9, <1>11
  <2> QED BY <2>1
<1>18. Within(rows, at, d, printed, b, k + 1, line + 1, q)
  <2>1. k + 1 \in 0 .. Len(Blocks(d, printed)[b]) /\ Pairs(d)[b] = P
    BY <1>9, <1>11
  <2>2. \E c : /\ k + 1 > 0 => c = d[b].name
               /\ q = At(c, SubSeq(Has(d), 1, at[b] + Given(Pairs(d)[b], k + 1)))
    BY <1>16, <2>1, Zenon
  <2> QED BY <1>5, <1>17, <2>1, <2>2, Zenon DEF Within
<1> QED BY <1>12, <1>13, <1>18, NextBlock

(* Where the loop begins, and where it ends. *)
LEMMA ParseBegin ==
  ASSUME NEW d \in Devices, NEW printed \in Formats, NEW rows, NEW at,
         Starts(rows, Blocks(d, printed), Printed(d, printed)), Starts(at, Pairs(d), Has(d))
  PROVE  Where(rows, at, d, printed, 1, Begin)
<1>1. /\ Len(d) \in Nat /\ Len(Blocks(d, printed)) = Len(d) /\ Len(Pairs(d)) = Len(d)
  BY DeviceFacts
<1>2. rows[1] = 0 /\ at[1] = 0 /\ at[Len(d) + 1] = Len(Has(d))
  BY <1>1 DEF Starts
<1>3. Begin = At(NoName, <<>>)
  BY Zenon DEF Begin, At
<1>4. Has(d) \in Seq(AllPairs)
  BY HasFacts
<1>5. CASE Len(d) = 0
  <2>1. rows[Len(d) + 1] + 1 = 1
    BY <1>2, <1>5
  <2>2. Has(d) = <<>>
    BY <1>2, <1>4, <1>5
  <2> QED BY <1>3, <2>1, <2>2 DEF Where, Behind
<1>6. CASE Len(d) # 0
  <2>1. 1 \in 1 .. Len(d)
    BY <1>1, <1>6
  <2>2. BlockIs(rows, at, d, printed, 1, Len(d[1].addresses), BlockOf(d[1], printed),
                PairsOf(d[1]))
    BY <2>1, BlockData
  <2>3. Len(Blocks(d, printed)[1]) \in Nat
    BY <2>2 DEF BlockIs
  <2>4. 0 \in 0 .. Len(Blocks(d, printed)[1]) /\ ~(0 > 0) /\ 1 = 0 + 0 + 1
    BY <2>3
  <2>5. at[1] + Given(Pairs(d)[1], 0) = 0
    BY <1>2 DEF Given
  <2>6. SubSeq(Has(d), 1, 0) = <<>>
    BY <1>4
  <2>7. Begin = At(NoName, SubSeq(Has(d), 1, at[1] + Given(Pairs(d)[1], 0)))
    BY <1>3, <2>5, <2>6
  <2>8. Within(rows, at, d, printed, 1, 0, 1, Begin)
    BY <1>2, <2>1, <2>4, <2>7, Zenon DEF Within
  <2> QED BY <2>8, NextBlock
<1> QED BY <1>5, <1>6

-----------------------------------------------------------------------------
(* The inductive invariant.                                                *)

(* The files of mock mode hold the output of ifconfig (--mock-ifconfig),   *)
(* and run() has a parser for what each command prints.                    *)
FilesAreIfconfig ==
  Cases \subseteq {"run"} \X Formats \cup {"mock"} \X {"net-tools", "busybox"}

InputInv ==
  /\ device \in Devices /\ format \in Formats /\ json \in BOOLEAN
  /\ parser \in {"ifconfig", "ip"} /\ next \in Nat \ {0}
  /\ mode \in {"run", "mock"} /\ (mode = "mock" => format # "ip")
  /\ mode = "run" => (parser = "ip" <=> format = "ip")

(* The second parser is tried on output in which the first found nothing,  *)
(* and finds nothing; otherwise the parser is the one for the output.      *)
ParserInv ==
  IF parser = "ip" /\ format # "ip" THEN state = Begin /\ Has(device) = <<>>
  ELSE \E rows, at : /\ Starts(rows, Blocks(device, format), Output)
                     /\ Starts(at, Pairs(device), Has(device))
                     /\ Where(rows, at, device, format, next, state)

(* The report and what was emitted of it. *)
ReportInv ==
  /\ exit_code = "none" => out = <<>>
  /\ exit_code # "none" =>
       /\ next > Len(Output)
       /\ \E endpoint \in {MockReport} \cup Endpoints :
            /\ report = DiscoveryReport(endpoint, Interfaces(state.interfaces),
                                        Warnings(state.interfaces))
            /\ out = IF state.interfaces = <<>> THEN <<>>
                     ELSE IF json THEN format_json(report) ELSE format_text(report)

IInv == InputInv /\ ParserInv /\ ReportInv

(* What has been printed, as one sequence. *)
LEMMA PrintedFacts ==
  ASSUME NEW d \in Devices, NEW printed \in Formats
  PROVE  /\ Printed(d, printed) \in Seq(Lines)
         /\ \E rows : Starts(rows, Blocks(d, printed), Printed(d, printed))
<1>1. Blocks(d, printed) \in Seq(Seq(Lines))
  BY DeviceFacts
<1>2. Printed(d, printed) = FlattenSeq(Blocks(d, printed))
  BY Zenon DEF Printed
<1> QED BY <1>1, <1>2, FlattenStarts

LEMMA InvInit ==
  ASSUME FilesAreIfconfig, Init
  PROVE  IInv
<1>1. InputInv
  <2>1. PICK case \in Cases : mode = case[1] /\ format = case[2]
    BY DEF Init
  <2>2. \/ mode = "run" /\ format \in Formats
        \/ mode = "mock" /\ format \in {"net-tools", "busybox"}
    BY <2>1 DEF FilesAreIfconfig
  <2>3. mode \in {"run", "mock"} /\ format \in Formats /\ (mode = "mock" => format # "ip")
    BY <2>2 DEF Formats
  <2>4. /\ parser \in {"ifconfig", "ip"}
        /\ mode = "run" => (parser = "ip" <=> format = "ip")
        /\ device \in Devices /\ next \in Nat \ {0} /\ json \in BOOLEAN
    BY DEF Init
  <2> QED BY <2>3, <2>4 DEF InputInv
<1>2. ParserInv
  <2>1. ~(parser = "ip" /\ format # "ip")
    BY DEF Init
  <2>2. device \in Devices /\ format \in Formats /\ next = 1 /\ state = Begin
    BY <1>1 DEF Init, InputInv
  <2>3. PICK rows : Starts(rows, Blocks(device, format), Printed(device, format))
    BY <2>2, PrintedFacts
  <2>4. PICK at : Starts(at, Pairs(device), Has(device))
    BY <2>2, HasFacts
  <2>5. Where(rows, at, device, format, 1, Begin)
    BY <2>2, <2>3, <2>4, ParseBegin
  <2> QED BY <2>1, <2>2, <2>3, <2>4, <2>5, Zenon DEF ParserInv, Output
<1>3. ReportInv
  BY DEF Init, ReportInv
<1> QED BY <1>1, <1>2, <1>3 DEF IInv

(* What was parsed is a beginning of what the device has; at the end of    *)
(* the output it is all.                                                   *)
LEMMA ParsedFacts ==
  ASSUME InputInv, ParserInv
  PROVE  /\ IsPrefix(state.interfaces, Has(device))
         /\ next > Len(Output) => state.interfaces = Has(device)
<1>1. device \in Devices /\ format \in Formats
  BY DEF InputInv
<1>2. Has(device) \in Seq(AllPairs)
  BY <1>1, HasFacts
<1>3. \A s \in Seq(AllPairs) : IsPrefix(s, s)
  BY PrefixFacts
<1>4. \A c, s : At(c, s).interfaces = s
  BY DEF At
<1>5. CASE parser = "ip" /\ format # "ip"
  <2>1. state = Begin /\ Has(device) = <<>>
    BY <1>5 DEF ParserInv
  <2>2. state.interfaces = <<>>
    BY <2>1, Zenon DEF Begin
  <2> QED BY <1>2, <1>3, <2>1, <2>2
<1>6. CASE ~(parser = "ip" /\ format # "ip")
  <2>1. PICK rows, at : /\ Starts(rows, Blocks(device, format), Printed(device, format))
                        /\ Starts(at, Pairs(device), Has(device))
                        /\ Where(rows, at, device, format, next, state)
    BY <1>6, Zenon DEF ParserInv, Output
  <2>2. CASE Behind(rows, at, device, next, state)
    <3>1. state.interfaces = Has(device)
      BY <1>4, <2>2, Zenon DEF Behind
    <3> QED BY <1>2, <1>3, <3>1
  <2>3. CASE ~Behind(rows, at, device, next, state)
    <3>1. PICK b, k : /\ Within(rows, at, device, format, b, k, next, state)
                      /\ k < Len(Blocks(device, format)[b])
      BY <2>1, <2>3 DEF Where
    <3>2. /\ b \in 1 .. Len(device) /\ k \in 0 .. Len(Blocks(device, format)[b])
          /\ next = rows[b] + k + 1
      BY <3>1 DEF Within
    <3>3. PICK n, B, P : n = Len(device[b].addresses) /\ B = BlockOf(device[b], format) /\ P = PairsOf(device[b])
      OBVIOUS
    <3>4. BlockIs(rows, at, device, format, b, n, B, P)
      BY <1>1, <2>1, <3>2, <3>3, BlockData
    <3>5. /\ Blocks(device, format)[b] = B /\ Pairs(device)[b] = P
          /\ Len(B) \in Nat /\ Len(P) \in Nat /\ rows[b] \in Nat /\ at[b] \in Nat
          /\ at[b] + Len(P) <= Len(Has(device))
      BY <3>4 DEF BlockIs
    <3>6. state.interfaces = SubSeq(Has(device), 1, at[b] + Given(P, k))
      BY <1>4, <3>1, <3>5, ZenonT(40) DEF Within
    <3>7. k \in 0 .. Len(B) /\ k < Len(B)
      BY <3>1, <3>2, <3>5
    <3>8. Given(P, k) \in 0 .. Len(P)
      <4>1. Len(P) \in Nat /\ k \in Nat
        BY <3>5, <3>7
      <4> QED BY <4>1, GivenFacts
    <3>9. PICK m : m = at[b] + Given(P, k)
      OBVIOUS
    <3>10. m \in 0 .. Len(Has(device))
      <4>1. Len(Has(device)) \in Nat
        BY <1>2
      <4> QED BY <3>5, <3>8, <3>9, <4>1
    <3>11. PICK s : s = SubSeq(Has(device), 1, m)
      OBVIOUS
    <3>12. s \in Seq(AllPairs) /\ Len(s) = m /\ \A i \in 1 .. m : s[i] = Has(device)[i]
      BY <1>2, <3>10, <3>11, TakeFacts
    <3>13. Len(s) <= Len(Has(device))
      BY <1>2, <3>10, <3>12
    <3>14. IsPrefix(s, Has(device))
      BY <1>2, <3>12, <3>13, PrefixFacts
    <3>15. next <= Len(Output)
      <4>1. Len(Blocks(device, format)) = Len(device)
        BY <1>1, DeviceFacts
      <4>2. k + 1 \in 1 .. Len(B) /\ rows[b] + (k + 1) = next
        BY <3>2, <3>5, <3>7
      <4>3. rows[b] + (k + 1) \in 1 .. Len(Printed(device, format))
        BY <2>1, <3>2, <3>5, <4>1, <4>2 DEF Starts
      <4>4. Len(Printed(device, format)) \in Nat
        BY <1>1, PrintedFacts
      <4> QED BY <4>2, <4>3, <4>4 DEF Output
    <3>16. Len(Output) \in Nat /\ next \in Nat
      <4>1. Len(Printed(device, format)) \in Nat
        BY <1>1, PrintedFacts
      <4> QED BY <4>1 DEF Output, InputInv
    <3> QED BY <3>6, <3>9, <3>11, <3>14, <3>15, <3>16
  <2> QED BY <2>2, <2>3
<1> QED BY <1>5, <1>6

LEMMA ParseLineKeeps ==
  ASSUME IInv, ParseLine
  PROVE  IInv'
<1>1. /\ exit_code = "none" /\ next <= Len(Output) /\ next' = next + 1
      /\ UNCHANGED <<device, format, mode, json, parser, out, report, exit_code>>
  BY DEF ParseLine, input, emitted
<1>2. device \in Devices /\ format \in Formats /\ next \in Nat
  BY DEF IInv, InputInv
<1>3. InputInv'
  BY <1>1 DEF IInv, InputInv
<1>4. Output' = Output
  BY <1>1, Zenon DEF Output
<1>5. state' = IF parser = "ifconfig" THEN IfconfigLine(state, Printed(device, format)[next])
                                      ELSE IpAddrLine(state, Printed(device, format)[next])
  BY Zenon DEF ParseLine, Output
<1>6. ParserInv'
  <2>1. CASE parser = "ip" /\ format # "ip"
    <3>1. state = Begin /\ Has(device) = <<>>
      BY <2>1 DEF IInv, ParserInv
    <3>2. PICK rows : Starts(rows, Blocks(device, format), Printed(device, format))
      BY <1>2, PrintedFacts
    <3>3. next \in 1 .. Len(Printed(device, format))
      <4>1. next # 0
        BY DEF IInv, InputInv
      <4> QED BY <1>1, <1>2, <4>1 DEF Output
    <3>4. Len(Blocks(device, format)) = Len(device) /\ \A b \in 1 .. Len(device) :
            device[b] \in Ifaces /\ Blocks(device, format)[b] = BlockOf(device[b], format)
      BY <1>2, DeviceFacts
    <3>5. PICK b \in 1 .. Len(Blocks(device, format)) :
            \E j \in 1 .. Len(Blocks(device, format)[b]) : next = rows[b] + j
      BY <3>2, <3>3, Zenon DEF Starts
    <3>6. PICK j \in 1 .. Len(Blocks(device, format)[b]) : next = rows[b] + j
      BY <3>5
    <3>7. Printed(device, format)[next] = Blocks(device, format)[b][j]
      BY <3>2, <3>6, Zenon DEF Starts
    <3>8. IpAddrLine(Begin, BlockOf(device[b], format)[j]) = Begin
      BY <1>2, <2>1, <3>4, <3>6, OtherParserStays
    <3>9. state' = Begin
      BY <1>5, <2>1, <3>1, <3>4, <3>7, <3>8
    <3> QED BY <1>1, <2>1, <3>1, <3>9 DEF ParserInv
  <2>2. CASE ~(parser = "ip" /\ format # "ip")
    <3>1. PICK rows, at : /\ Starts(rows, Blocks(device, format), Printed(device, format))
                          /\ Starts(at, Pairs(device), Has(device))
                          /\ Where(rows, at, device, format, next, state)
      BY <2>2, Zenon DEF IInv, ParserInv, Output
    <3>2. parser = "ip" <=> format = "ip"
      BY <2>2 DEF IInv, InputInv
    <3>3. state' = Turn(format, state, Printed(device, format)[next])
      <4>1. parser = "ifconfig" <=> format # "ip"
        BY <3>2 DEF IInv, InputInv
      <4> QED BY <1>5, <4>1 DEF Turn
    <3>4. Where(rows, at, device, format, next + 1, state')
      BY <1>1, <1>2, <3>1, <3>3, ParseStep DEF Output
    <3>5. (\E r, a : /\ Starts(r, Blocks(device, format), Output)
                     /\ Starts(a, Pairs(device), Has(device))
                     /\ Where(r, a, device, format, next, state))'
      BY <1>1, <1>4, <3>1, <3>4, Zenon DEF Output
    <3> QED BY <1>1, <2>2, <3>5, Zenon DEF ParserInv
  <2> QED BY <2>1, <2>2
<1>7. ReportInv'
  BY <1>1 DEF IInv, ReportInv
<1> QED BY <1>3, <1>6, <1>7 DEF IInv

LEMMA TrySecondParserKeeps ==
  ASSUME IInv, TrySecondParser
  PROVE  IInv'
<1>1. /\ exit_code = "none" /\ next > Len(Output) /\ mode = "mock"
      /\ state.interfaces = <<>> /\ parser' = "ip" /\ next' = 1 /\ state' = Begin
      /\ UNCHANGED <<device, format, mode, json, out, report, exit_code>>
  BY DEF TrySecondParser, input, emitted
<1>2. format # "ip"
  BY <1>1 DEF IInv, InputInv
<1>3. InputInv'
  BY <1>1 DEF IInv, InputInv
<1>4. Has(device) = <<>>
  BY <1>1, ParsedFacts DEF IInv
<1>5. ParserInv'
  BY <1>1, <1>2, <1>4 DEF ParserInv
<1>6. ReportInv'
  BY <1>1 DEF IInv, ReportInv
<1> QED BY <1>3, <1>5, <1>6 DEF IInv

LEMMA ReportKeeps ==
  ASSUME IInv, Report
  PROVE  IInv'
<1>1. /\ exit_code = "none" /\ next > Len(Output)
      /\ UNCHANGED <<device, format, mode, json, parser, next, state>>
  BY DEF Report, input
<1>2. PICK endpoint \in {MockReport} \cup Endpoints :
        report' = DiscoveryReport(endpoint, Interfaces(state.interfaces),
                                  Warnings(state.interfaces))
  BY DEF Report
<1>3. out' = IF state.interfaces = <<>> THEN out
             ELSE IF json THEN format_json(report') ELSE format_text(report')
  BY Zenon DEF Report, emit
<1>4. out = <<>>
  BY <1>1 DEF IInv, ReportInv
<1>5. Output' = Output
  BY <1>1, Zenon DEF Output
<1>6. InputInv'
  BY <1>1 DEF IInv, InputInv
<1>7. ParserInv'
  BY <1>1, <1>5, Zenon DEF IInv, ParserInv
<1>8. exit_code' # "none"
  BY Zenon DEF Report, ReportCode
<1>9. ReportInv'
  <2>1. state'.interfaces = state.interfaces
    BY <1>1
  <2>2. report' = DiscoveryReport(endpoint, Interfaces(state'.interfaces),
                                  Warnings(state'.interfaces))
    BY <1>2, <2>1
  <2>3. out' = IF state'.interfaces = <<>> THEN <<>>
               ELSE IF json' THEN format_json(report') ELSE format_text(report')
    BY <1>1, <1>3, <1>4, <2>1
  <2>4. next' > Len(Output')
    BY <1>1, <1>5
  <2> QED BY <1>2, <1>8, <2>2, <2>3, <2>4, Zenon DEF ReportInv
<1> QED BY <1>6, <1>7, <1>9 DEF IInv

LEMMA StutterKeeps ==
  ASSUME IInv, UNCHANGED vars
  PROVE  IInv'
<1>1. /\ UNCHANGED <<device, format, mode, json, parser, next, state>>
      /\ UNCHANGED <<out, report, exit_code>>
  BY DEF vars, input, emitted
<1>2. Output' = Output
  BY <1>1, Zenon DEF Output
<1>3. InputInv'
  BY <1>1 DEF IInv, InputInv
<1>4. ParserInv'
  BY <1>1, <1>2, Zenon DEF IInv, ParserInv
<1>5. ReportInv'
  BY <1>1, <1>2, Zenon DEF IInv, ReportInv
<1> QED BY <1>3, <1>4, <1>5 DEF IInv

(* The inductive invariant is one. *)
LEMMA Invariance ==
  ASSUME FilesAreIfconfig
  PROVE  Spec => []IInv
<1>1. Init => IInv
  BY InvInit
<1>2. IInv /\ [Next]_vars => IInv'
  BY ParseLineKeeps, TrySecondParserKeeps, ReportKeeps, StutterKeeps DEF Next
<1> QED BY <1>1, <1>2, PTL DEF Spec

(* Whatever the device, the report holds its pairs of interface and        *)
(* address, in order and each once: parse_ifconfig_output() and            *)
(* parse_ip_addr_output() on what the commands print, and the second       *)
(* parser of run_mock_mode() adds nothing.                                 *)
THEOREM ReportIsTheDevice ==
  ASSUME FilesAreIfconfig
  PROVE  Spec => []ReportsTheDevice
<1>1. IInv => ReportsTheDevice
  BY ParsedFacts DEF IInv, ReportInv, ReportsTheDevice
<1> QED BY <1>1, Invariance, PTL

(* At every line, what was parsed is a beginning of that: output cut off   *)
(* between two lines gives no wrong entry (the loops of both parsers).     *)
THEOREM CutOutputHarmless ==
  ASSUME FilesAreIfconfig
  PROVE  Spec => []CutOutputIsBeginning
<1>1. IInv => CutOutputIsBeginning
  BY ParsedFacts DEF IInv, CutOutputIsBeginning
<1> QED BY <1>1, Invariance, PTL

-----------------------------------------------------------------------------
(* The reader of JSON on what format_json() writes.                        *)

(* The characters: whatever a text is made of, the fixed symbols, and the  *)
(* digits of the control characters.                                       *)
Letters == STRING \cup {ToString(n) : n \in Nat}
             \cup {"mock", "expected_two_network_interfaces_but_found"}
Marks   == {"{", "}", "[", "]", ",", ":"}
Chars   == Letters \cup Marks \cup Keys \cup Range(Hex)
             \cup {Quote, Backslash, "n", "r", "t", "u"}

Tokens == {"mark", "text"} \X Seq(Chars)

(* From state s the text x leads to state t. *)
Reads(s, x, t) ==
  \E f : /\ f[0] = s
         /\ \A i \in 1 .. Len(x) : f[i] = ReadCharacter(f[i - 1], x[i])
         /\ f[Len(x)] = t

LEMMA ReadsNothing ==
  ASSUME NEW s
  PROVE  Reads(s, <<>>, s)
<1>1. PICK f : f = [i \in {0} |-> s]
  OBVIOUS
<1>2. f[0] = s /\ Len(<<>>) = 0
  BY <1>1
<1> QED BY <1>2 DEF Reads

LEMMA ReadsOne ==
  ASSUME NEW s, NEW c
  PROVE  Reads(s, <<c>>, ReadCharacter(s, c))
<1>1. PICK x, t : x = <<c>> /\ t = ReadCharacter(s, c)
  OBVIOUS
<1>2. Len(x) = 1 /\ x[1] = c
  BY <1>1
<1>3. PICK f : f = [i \in {0, 1} |-> IF i = 0 THEN s ELSE t]
  OBVIOUS
<1>4. f[0] = s /\ f[1] = t
  BY <1>3
<1>5. \A i \in 1 .. Len(x) : f[i] = ReadCharacter(f[i - 1], x[i])
  <2>1. ASSUME NEW i \in 1 .. Len(x) PROVE i = 1 /\ i - 1 = 0
    BY <1>2
  <2> QED BY <1>1, <1>2, <1>4, <2>1
<1>6. Reads(s, x, t)
  BY <1>2, <1>4, <1>5 DEF Reads
<1> QED BY <1>1, <1>6

LEMMA ReadsMore ==
  ASSUME NEW x \in Seq(Chars), NEW y \in Seq(Chars), NEW s, NEW t, NEW u,
         Reads(s, x, t), Reads(t, y, u)
  PROVE  Reads(s, x \o y, u)
<1>1. PICK z, m, n : z = x \o y /\ m = Len(x) /\ n = Len(y)
  OBVIOUS
<1>2. /\ m \in Nat /\ n \in Nat /\ Len(z) = m + n
      /\ \A i \in 1 .. m : z[i] = x[i]
      /\ \A i \in 1 .. n : z[m + i] = y[i]
  BY <1>1, Joined
<1>3. PICK f : /\ f[0] = s /\ f[m] = t
               /\ \A i \in 1 .. m : f[i] = ReadCharacter(f[i - 1], x[i])
  BY <1>1 DEF Reads
<1>4. PICK g : /\ g[0] = t /\ g[n] = u
               /\ \A i \in 1 .. n : g[i] = ReadCharacter(g[i - 1], y[i])
  BY <1>1 DEF Reads
<1>5. PICK h : h = [i \in 0 .. m + n |-> IF i <= m THEN f[i] ELSE g[i - m]]
  OBVIOUS
<1>6. \A i \in 0 .. m + n : h[i] = IF i <= m THEN f[i] ELSE g[i - m]
  BY <1>5
<1>7. h[0] = s
  BY <1>2, <1>3, <1>6
<1>8. \A i \in m .. m + n : h[i] = g[i - m]
  <2> SUFFICES ASSUME NEW i \in m .. m + n PROVE h[i] = g[i - m]
    OBVIOUS
  <2>1. CASE i = m
    <3>1. h[m] = f[m] /\ m - m = 0
      BY <1>2, <1>6
    <3> QED BY <1>3, <1>4, <2>1, <3>1
  <2>2. CASE i # m
    BY <1>2, <1>6, <2>2
  <2> QED BY <2>1, <2>2
<1>9. h[m + n] = u
  <2>1. m + n \in m .. m + n /\ (m + n) - m = n
    BY <1>2
  <2> QED BY <1>4, <1>8, <2>1
<1>10. ASSUME NEW i \in 1 .. Len(z) PROVE h[i] = ReadCharacter(h[i - 1], z[i])
  <2>1. CASE i <= m
    <3>1. /\ i \in 1 .. m /\ i \in 0 .. m + n /\ i - 1 \in 0 .. m + n /\ i - 1 <= m
      BY <1>2, <2>1
    <3>2. h[i] = f[i] /\ h[i - 1] = f[i - 1] /\ z[i] = x[i]
      BY <1>2, <1>6, <3>1
    <3> QED BY <1>3, <3>1, <3>2
  <2>2. CASE ~(i <= m)
    <3>1. PICK j : j = i - m
      OBVIOUS
    <3>2. /\ j \in 1 .. n /\ i = m + j /\ i \in m .. m + n /\ i - 1 \in m .. m + n
          /\ (i - 1) - m = j - 1
      BY <1>2, <2>2, <3>1
    <3>3. h[i] = g[j] /\ h[i - 1] = g[j - 1] /\ z[i] = y[j]
      BY <1>2, <1>8, <3>1, <3>2
    <3> QED BY <1>4, <3>2, <3>3
  <2> QED BY <2>1, <2>2
<1>11. Reads(s, z, u)
  BY <1>2, <1>7, <1>9, <1>10 DEF Reads
<1> QED BY <1>1, <1>11

(* The reader has one way to read a text: JsonTokens() gives what any      *)
(* reading of it arrives at.                                               *)
Readings(r, x) ==
  r = [n \in 0 .. Len(x) |-> IF n = 0 THEN Reader("between", <<>>, <<>>)
                             ELSE ReadCharacter(r[n - 1], x[n])]

LEMMA ReadsTokens ==
  ASSUME NEW x \in Seq(Chars), NEW tokens,
         Reads(Reader("between", <<>>, <<>>), x, Reader("between", <<>>, tokens))
  PROVE  JsonTokens(x) = tokens
<1>1. PICK m, s : m = Len(x) /\ s = Reader("between", <<>>, <<>>)
  OBVIOUS
<1>2. m \in Nat
  BY <1>1
<1>3. PICK f : /\ f[0] = s /\ f[m] = Reader("between", <<>>, tokens)
               /\ \A i \in 1 .. m : f[i] = ReadCharacter(f[i - 1], x[i])
  BY <1>1 DEF Reads
<1>4. PICK g : g = [n \in 0 .. m |-> f[n]]
  OBVIOUS
<1>5. \A n \in 0 .. m : g[n] = IF n = 0 THEN s ELSE ReadCharacter(g[n - 1], x[n])
  <2> SUFFICES ASSUME NEW n \in 0 .. m
               PROVE  g[n] = IF n = 0 THEN s ELSE ReadCharacter(g[n - 1], x[n])
    OBVIOUS
  <2>1. CASE n = 0
    BY <1>3, <1>4, <2>1
  <2>2. CASE n # 0
    <3>1. n \in 1 .. m /\ n - 1 \in 0 .. m
      BY <1>2, <2>2
    <3>2. g[n] = f[n] /\ g[n - 1] = f[n - 1]
      BY <1>4, <3>1
    <3> QED BY <1>3, <2>2, <3>1, <3>2
  <2> QED BY <2>1, <2>2
<1>6. g = [n \in 0 .. m |-> IF n = 0 THEN s ELSE ReadCharacter(g[n - 1], x[n])]
  BY <1>4, <1>5
<1>7. Readings(g, x)
  BY <1>1, <1>6, Zenon DEF Readings
<1>8. PICK r : r = CHOOSE h : Readings(h, x)
  OBVIOUS
<1>9. Readings(r, x)
  BY <1>7, <1>8, Zenon
<1>10. \A n \in 0 .. m : r[n] = IF n = 0 THEN s ELSE ReadCharacter(r[n - 1], x[n])
  BY <1>1, <1>9, Zenon DEF Readings
<1>11. \A n \in 0 .. m : r[n] = f[n]
  <2> DEFINE P == {n \in 0 .. m : r[n] = f[n]}
  <2>1. 0 \in P
    <3>1. 0 \in 0 .. m
      BY <1>2
    <3>2. r[0] = s
      BY <1>10, <3>1, Zenon
    <3> QED BY <1>3, <3>1, <3>2, Zenon
  <2>2. ASSUME NEW n \in 0 .. m - 1, n \in P PROVE n + 1 \in P
    <3>1. n + 1 \in 1 .. m /\ n + 1 \in 0 .. m /\ n + 1 # 0 /\ (n + 1) - 1 = n /\ r[n] = f[n]
      BY <1>2, <2>2
    <3>2. r[n + 1] = ReadCharacter(r[n], x[n + 1]) /\ f[n + 1] = ReadCharacter(f[n], x[n + 1])
      BY <1>3, <1>10, <3>1
    <3> QED BY <3>1, <3>2
  <2>3. \A n \in 0 .. m : n \in P
    <3> HIDE DEF P
    <3> QED BY <1>2, <2>1, <2>2, UpTo
  <2> QED BY <2>3
<1>12. r[Len(x)] = Reader("between", <<>>, tokens)
  <2>1. m \in 0 .. m
    BY <1>2
  <2> QED BY <1>1, <1>3, <1>11, <2>1
<1>13. ReadAll(x) = r[Len(x)]
  BY <1>8, Zenon DEF ReadAll, Readings
<1>14. ReadAll(x) = Reader("between", <<>>, tokens)
  BY <1>12, <1>13
<1> QED BY <1>14 DEF Reader, JsonTokens

(* What the reader does in each mode. *)
LEMMA ReaderFields ==
  ASSUME NEW m, NEW text, NEW tokens
  PROVE  LET s == Reader(m, text, tokens) IN s.mode = m /\ s.text = text /\ s.tokens = tokens
BY DEF Reader

LEMMA ReaderModes ==
  ASSUME NEW text, NEW tokens, NEW c
  PROVE  /\ ReadCharacter(Reader("between", text, tokens), c) = Between(Reader("between", text, tokens), c)
         /\ ReadCharacter(Reader("plain", text, tokens), c)   = Plain(Reader("plain", text, tokens), c)
         /\ ReadCharacter(Reader("escape", text, tokens), c)  = Escape(Reader("escape", text, tokens), c)
         /\ ReadCharacter(Reader("digits", text, tokens), c)  = Digits(Reader("digits", text, tokens), c)
<1>1. ASSUME NEW s, s.mode = "between" PROVE ReadCharacter(s, c) = Between(s, c)
  BY <1>1, Zenon DEF ReadCharacter
<1>2. ASSUME NEW s, s.mode = "plain" PROVE ReadCharacter(s, c) = Plain(s, c)
  BY <1>2, Zenon DEF ReadCharacter
<1>3. ASSUME NEW s, s.mode = "escape" PROVE ReadCharacter(s, c) = Escape(s, c)
  BY <1>3, Zenon DEF ReadCharacter
<1>4. ASSUME NEW s, s.mode = "digits" PROVE ReadCharacter(s, c) = Digits(s, c)
  BY <1>4, Zenon DEF ReadCharacter
<1> QED BY <1>1, <1>2, <1>3, <1>4, ReaderFields

(* Characters that are not escaped. *)
Ordinary(c) == c \notin {Quote, Backslash, LineFeed, Return, Tab} \cup DOMAIN Hex

(* The special characters are different from each other, and none is a     *)
(* control character with digits.                                          *)
LEMMA Different ==
  /\ Quote # Backslash /\ Quote # LineFeed /\ Quote # Return /\ Quote # Tab
  /\ Backslash # LineFeed /\ Backslash # Return /\ Backslash # Tab
  /\ LineFeed # Return /\ LineFeed # Tab /\ Return # Tab
  /\ \A c \in {Quote, Backslash, LineFeed, Return, Tab} : c \notin {"n", "r", "t", "u"} /\ c \notin DOMAIN Hex
  /\ \A c \in Keys \cup Marks : c \notin {Quote, Backslash, LineFeed, Return, Tab}
  /\ \A c \in Keys : Ordinary(c)
<1>1. /\ Quote # Backslash /\ Quote # LineFeed /\ Quote # Return /\ Quote # Tab
      /\ Backslash # LineFeed /\ Backslash # Return /\ Backslash # Tab
      /\ LineFeed # Return /\ LineFeed # Tab /\ Return # Tab
      /\ \A c \in {Quote, Backslash, LineFeed, Return, Tab} : c \notin {"n", "r", "t", "u"}
  BY DEF Quote, Backslash, LineFeed, Return, Tab
<1>2. \A c \in Keys \cup Marks : c \notin {Quote, Backslash, LineFeed, Return, Tab}
  BY DEF Quote, Backslash, LineFeed, Return, Tab, Keys, Marks
<1>3. \A c \in {Quote, Backslash, LineFeed, Return, Tab} \cup Keys : c \notin DOMAIN Hex
  BY HexAssumption
<1> QED BY <1>1, <1>2, <1>3, Zenon DEF Ordinary

(* What Escaped() makes of each character. *)
LEMMA EscapedCases ==
  /\ \A c \in {Quote, Backslash} : Escaped(c) = <<Backslash, c>>
  /\ Escaped(LineFeed) = <<Backslash, "n">>
  /\ Escaped(Return) = <<Backslash, "r">>
  /\ Escaped(Tab) = <<Backslash, "t">>
  /\ \A c \in DOMAIN Hex : Escaped(c) = <<Backslash, "u", Hex[c]>>
  /\ \A c : Ordinary(c) => Escaped(c) = <<c>>
<1>1. ASSUME NEW c \in {Quote, Backslash} PROVE Escaped(c) = <<Backslash, c>>
  <2>1. c # LineFeed /\ c # Return /\ c # Tab /\ c \notin DOMAIN Hex
    BY Different
  <2> QED BY <2>1, Zenon DEF Escaped
<1>2. Escaped(LineFeed) = <<Backslash, "n">>
  <2>1. LineFeed \notin {Quote, Backslash} /\ LineFeed # Return /\ LineFeed # Tab /\ LineFeed \notin DOMAIN Hex
    BY Different
  <2> QED BY <2>1, Zenon DEF Escaped
<1>3. Escaped(Return) = <<Backslash, "r">>
  <2>1. Return \notin {Quote, Backslash} /\ LineFeed # Return /\ Return # Tab /\ Return \notin DOMAIN Hex
    BY Different
  <2> QED BY <2>1, Zenon DEF Escaped
<1>4. Escaped(Tab) = <<Backslash, "t">>
  <2>1. Tab \notin {Quote, Backslash} /\ LineFeed # Tab /\ Return # Tab /\ Tab \notin DOMAIN Hex
    BY Different
  <2> QED BY <2>1, Zenon DEF Escaped
<1>5. ASSUME NEW c \in DOMAIN Hex PROVE Escaped(c) = <<Backslash, "u", Hex[c]>>
  <2>1. c \notin {Quote, Backslash} /\ c # LineFeed /\ c # Return /\ c # Tab
    BY Different
  <2> QED BY <2>1, Zenon DEF Escaped
<1>6. ASSUME NEW c, Ordinary(c) PROVE Escaped(c) = <<c>>
  <2>1. c \notin {Quote, Backslash} /\ c # LineFeed /\ c # Return /\ c # Tab /\ c \notin DOMAIN Hex
    BY <1>6 DEF Ordinary
  <2> QED BY <2>1, Zenon DEF Escaped
<1> QED BY <1>1, <1>2, <1>3, <1>4, <1>5, <1>6, Zenon

(* What the reader makes of the characters of a text. *)
LEMMA ReaderCases ==
  ASSUME NEW text, NEW tokens
  PROVE  /\ Plain(Reader("plain", text, tokens), Quote) = Reader("between", <<>>, Append(tokens, Text(text)))
         /\ Plain(Reader("plain", text, tokens), Backslash) = Reader("escape", text, tokens)
         /\ \A c : Ordinary(c) => Plain(Reader("plain", text, tokens), c) = Reader("plain", Append(text, c), tokens)
         /\ Escape(Reader("escape", text, tokens), "u") = Reader("digits", text, tokens)
         /\ Escape(Reader("escape", text, tokens), "n") = Reader("plain", Append(text, LineFeed), tokens)
         /\ Escape(Reader("escape", text, tokens), "r") = Reader("plain", Append(text, Return), tokens)
         /\ Escape(Reader("escape", text, tokens), "t") = Reader("plain", Append(text, Tab), tokens)
         /\ \A c \in {Quote, Backslash} :
              Escape(Reader("escape", text, tokens), c) = Reader("plain", Append(text, c), tokens)
         /\ \A c \in DOMAIN Hex :
              Digits(Reader("digits", text, tokens), Hex[c]) = Reader("plain", Append(text, c), tokens)
<1>1. PICK p, e, g : /\ p = Reader("plain", text, tokens) /\ e = Reader("escape", text, tokens)
                     /\ g = Reader("digits", text, tokens)
  OBVIOUS
<1>2. /\ p.text = text /\ p.tokens = tokens /\ e.text = text /\ e.tokens = tokens
      /\ g.text = text /\ g.tokens = tokens
  BY <1>1, ReaderFields
<1>3. \A m, c : /\ Mode(p, m) = Reader(m, text, tokens) /\ Mode(e, m) = Reader(m, text, tokens)
                /\ Keep(p, c) = Reader("plain", Append(text, c), tokens)
                /\ Keep(e, c) = Reader("plain", Append(text, c), tokens)
                /\ Keep(g, c) = Reader("plain", Append(text, c), tokens)
  BY <1>2, Zenon DEF Mode, Keep
<1>4. Quote \notin Control /\ Backslash \notin Control
  BY Different DEF Control
<1>5. Plain(p, Quote) = Reader("between", <<>>, Append(tokens, Text(text)))
  <2>1. Quote # Backslash
    BY Different
  <2>2. Plain(p, Quote) = Reader("between", <<>>, Append(p.tokens, Text(p.text)))
    BY <1>4, <2>1, Zenon DEF Plain
  <2> QED BY <1>2, <2>2
<1>6. Plain(p, Backslash) = Reader("escape", text, tokens)
  <2>1. Quote # Backslash
    BY Different
  <2>2. Plain(p, Backslash) = Mode(p, "escape")
    BY <1>4, <2>1, Zenon DEF Plain
  <2> QED BY <1>3, <2>2
<1>7. ASSUME NEW c, Ordinary(c) PROVE Plain(p, c) = Reader("plain", Append(text, c), tokens)
  <2>1. c # Quote /\ c # Backslash /\ c \notin Control
    BY <1>7 DEF Ordinary, Control
  <2>2. Plain(p, c) = Keep(p, c)
    BY <2>1, Zenon DEF Plain
  <2> QED BY <1>3, <2>2
<1>8. ASSUME NEW c \in {"u", "n", "r", "t"} PROVE c \notin {Quote, Backslash}
  BY Different
<1>9. /\ Escape(e, "u") = Mode(e, "digits") /\ Escape(e, "n") = Keep(e, LineFeed)
      /\ Escape(e, "r") = Keep(e, Return) /\ Escape(e, "t") = Keep(e, Tab)
  <2>1. Escape(e, "u") = Mode(e, "digits")
    BY <1>8, Zenon DEF Escape
  <2>2. Escape(e, "n") = Keep(e, LineFeed)
    BY <1>8, Zenon DEF Escape
  <2>3. Escape(e, "r") = Keep(e, Return)
    BY <1>8, Zenon DEF Escape
  <2>4. Escape(e, "t") = Keep(e, Tab)
    BY <1>8, Zenon DEF Escape
  <2> QED BY <2>1, <2>2, <2>3, <2>4
<1>10. ASSUME NEW c \in {Quote, Backslash} PROVE Escape(e, c) = Keep(e, c)
  <2>1. c # "u" /\ c # "n" /\ c # "r" /\ c # "t"
    BY Different
  <2> QED BY <2>1, Zenon DEF Escape
<1>11. ASSUME NEW c \in DOMAIN Hex PROVE Digits(g, Hex[c]) = Keep(g, c)
  <2>1. Hex[c] \in Range(Hex)
    BY DEF Range
  <2>2. (CHOOSE d \in DOMAIN Hex : Hex[d] = Hex[c]) = c
    <3>1. \A d \in DOMAIN Hex : Hex[d] = Hex[c] => d = c
      BY HexAssumption
    <3> QED BY <3>1, Zenon
  <2>3. Digits(g, Hex[c]) = Keep(g, CHOOSE d \in DOMAIN Hex : Hex[d] = Hex[c])
    BY <2>1, Zenon DEF Digits
  <2> QED BY <2>2, <2>3
<1> QED BY <1>1, <1>3, <1>5, <1>6, <1>7, <1>9, <1>10, <1>11, Zenon

(* Short texts. *)
LEMMA JoinedTwo ==
  ASSUME NEW S, NEW a \in S, NEW b \in S
  PROVE  /\ <<a>> \in Seq(S) /\ <<b>> \in Seq(S) /\ <<a, b>> \in Seq(S)
         /\ <<a>> \o <<b>> = <<a, b>>
<1>1. PICK u, v, w : u = <<a>> /\ v = <<b>> /\ w = <<a, b>>
  OBVIOUS
<1>2. /\ u \in Seq(S) /\ Len(u) = 1 /\ u[1] = a
      /\ v \in Seq(S) /\ Len(v) = 1 /\ v[1] = b
      /\ w \in Seq(S) /\ Len(w) = 2 /\ w[1] = a /\ w[2] = b
  BY <1>1
<1>3. PICK x : x = u \o v
  OBVIOUS
<1>4. x \in Seq(S) /\ Len(x) = 2 /\ x[1] = a /\ x[2] = b
  <2>1. /\ x \in Seq(S) /\ Len(x) = Len(u) + Len(v)
        /\ \A i \in 1 .. Len(u) : x[i] = u[i]
        /\ \A i \in 1 .. Len(v) : x[Len(u) + i] = v[i]
    <3>1. u \in Seq(S) /\ v \in Seq(S)
      BY <1>2
    <3> QED BY <1>3, <3>1, Joined
  <2>2. x[Len(u) + 1] = v[1]
    BY <1>2, <2>1
  <2> QED BY <1>2, <2>1, <2>2
<1>5. x = w
  BY <1>2, <1>4
<1> QED BY <1>1, <1>2, <1>3, <1>5

LEMMA JoinedThree ==
  ASSUME NEW S, NEW a \in S, NEW b \in S, NEW c \in S
  PROVE  /\ <<a, b, c>> \in Seq(S) /\ <<a, b>> \o <<c>> = <<a, b, c>>
<1>1. PICK u, v, w : u = <<a, b>> /\ v = <<c>> /\ w = <<a, b, c>>
  OBVIOUS
<1>2. /\ u \in Seq(S) /\ Len(u) = 2 /\ u[1] = a /\ u[2] = b
      /\ v \in Seq(S) /\ Len(v) = 1 /\ v[1] = c
      /\ w \in Seq(S) /\ Len(w) = 3 /\ w[1] = a /\ w[2] = b /\ w[3] = c
  BY <1>1
<1>3. PICK x : x = u \o v
  OBVIOUS
<1>4. x \in Seq(S) /\ Len(x) = 3 /\ x[1] = a /\ x[2] = b /\ x[3] = c
  <2>1. /\ x \in Seq(S) /\ Len(x) = Len(u) + Len(v)
        /\ \A i \in 1 .. Len(u) : x[i] = u[i]
        /\ \A i \in 1 .. Len(v) : x[Len(u) + i] = v[i]
    <3>1. u \in Seq(S) /\ v \in Seq(S)
      BY <1>2
    <3> QED BY <1>3, <3>1, Joined
  <2>2. x[Len(u) + 1] = v[1]
    BY <1>2, <2>1
  <2> QED BY <1>2, <2>1, <2>2
<1>5. x = w
  BY <1>2, <1>4
<1> QED BY <1>1, <1>2, <1>3, <1>5

LEMMA JoinedFour ==
  ASSUME NEW S, NEW a \in S, NEW b \in S, NEW c \in S, NEW d \in S
  PROVE  /\ <<a, b, c, d>> \in Seq(S) /\ <<a, b, c>> \o <<d>> = <<a, b, c, d>>
<1>1. PICK u, v, w : u = <<a, b, c>> /\ v = <<d>> /\ w = <<a, b, c, d>>
  OBVIOUS
<1>2. /\ u \in Seq(S) /\ Len(u) = 3 /\ u[1] = a /\ u[2] = b /\ u[3] = c
      /\ v \in Seq(S) /\ Len(v) = 1 /\ v[1] = d
      /\ w \in Seq(S) /\ Len(w) = 4 /\ w[1] = a /\ w[2] = b /\ w[3] = c /\ w[4] = d
  BY <1>1
<1>3. PICK x : x = u \o v
  OBVIOUS
<1>4. x \in Seq(S) /\ Len(x) = 4 /\ x[1] = a /\ x[2] = b /\ x[3] = c /\ x[4] = d
  <2>1. /\ x \in Seq(S) /\ Len(x) = Len(u) + Len(v)
        /\ \A i \in 1 .. Len(u) : x[i] = u[i]
        /\ \A i \in 1 .. Len(v) : x[Len(u) + i] = v[i]
    <3>1. u \in Seq(S) /\ v \in Seq(S)
      BY <1>2
    <3> QED BY <1>3, <3>1, Joined
  <2>2. x[Len(u) + 1] = v[1]
    BY <1>2, <2>1
  <2> QED BY <1>2, <2>1, <2>2
<1>5. x = w
  BY <1>2, <1>4
<1> QED BY <1>1, <1>2, <1>3, <1>5

(* An escaped character is read as the character. *)
LEMMA ReadsTwo ==
  ASSUME NEW a \in Chars, NEW b \in Chars, NEW s
  PROVE  Reads(s, <<a, b>>, ReadCharacter(ReadCharacter(s, a), b))
<1>1. <<a>> \in Seq(Chars) /\ <<b>> \in Seq(Chars) /\ <<a>> \o <<b>> = <<a, b>>
  BY JoinedTwo
<1>2. PICK t : t = ReadCharacter(s, a)
  OBVIOUS
<1>3. Reads(s, <<a>>, t) /\ Reads(t, <<b>>, ReadCharacter(t, b))
  BY <1>2, ReadsOne
<1>4. Reads(s, <<a>> \o <<b>>, ReadCharacter(t, b))
  BY <1>1, <1>3, ReadsMore
<1> QED BY <1>1, <1>2, <1>4

LEMMA ReadsEscaped ==
  ASSUME NEW c \in Letters, NEW text, NEW tokens
  PROVE  /\ Escaped(c) \in Seq(Chars)
         /\ Reads(Reader("plain", text, tokens), Escaped(c), Reader("plain", Append(text, c), tokens))
<1>1. PICK p, e, g, t : /\ p = Reader("plain", text, tokens) /\ e = Reader("escape", text, tokens)
                        /\ g = Reader("digits", text, tokens)
                        /\ t = Reader("plain", Append(text, c), tokens)
  OBVIOUS
<1>2. /\ c \in Chars /\ Quote \in Chars /\ Backslash \in Chars
      /\ "n" \in Chars /\ "r" \in Chars /\ "t" \in Chars /\ "u" \in Chars
      /\ \A d \in DOMAIN Hex : Hex[d] \in Chars
  BY DEF Chars, Range
<1>3. ReadCharacter(p, Backslash) = e
  BY <1>1, ReaderModes, ReaderCases
<1>4. ASSUME NEW x \in Chars, ReadCharacter(e, x) = t, Escaped(c) = <<Backslash, x>>
      PROVE  Escaped(c) \in Seq(Chars) /\ Reads(p, Escaped(c), t)
  <2>1. Reads(p, <<Backslash, x>>, ReadCharacter(ReadCharacter(p, Backslash), x))
    BY <1>2, ReadsTwo
  <2>2. <<Backslash, x>> \in Seq(Chars)
    BY <1>2
  <2> QED BY <1>3, <1>4, <2>1, <2>2
<1>5. CASE c \in {Quote, Backslash}
  <2>1. Escaped(c) = <<Backslash, c>>
    BY <1>5, EscapedCases, Zenon
  <2>2. ReadCharacter(e, c) = t
    <3>1. ReadCharacter(e, c) = Escape(e, c)
      BY <1>1, ReaderModes
    <3>2. Escape(e, c) = t
      BY <1>1, <1>5, ReaderCases, Zenon
    <3> QED BY <3>1, <3>2
  <2> QED BY <1>1, <1>2, <1>4, <2>1, <2>2
<1>6. CASE c = LineFeed
  <2>1. Escaped(c) = <<Backslash, "n">>
    BY <1>6, EscapedCases, Zenon
  <2>2. ReadCharacter(e, "n") = t
    BY <1>1, <1>6, ReaderModes, ReaderCases
  <2> QED BY <1>1, <1>2, <1>4, <2>1, <2>2
<1>7. CASE c = Return
  <2>1. Escaped(c) = <<Backslash, "r">>
    BY <1>7, EscapedCases, Zenon
  <2>2. ReadCharacter(e, "r") = t
    BY <1>1, <1>7, ReaderModes, ReaderCases
  <2> QED BY <1>1, <1>2, <1>4, <2>1, <2>2
<1>8. CASE c = Tab
  <2>1. Escaped(c) = <<Backslash, "t">>
    BY <1>8, EscapedCases, Zenon
  <2>2. ReadCharacter(e, "t") = t
    BY <1>1, <1>8, ReaderModes, ReaderCases
  <2> QED BY <1>1, <1>2, <1>4, <2>1, <2>2
<1>9. CASE c \in DOMAIN Hex
  <2>1. Escaped(c) = <<Backslash, "u", Hex[c]>>
    BY <1>9, EscapedCases, Zenon
  <2>2. ReadCharacter(e, "u") = g
    BY <1>1, ReaderModes, ReaderCases
  <2>3. ReadCharacter(g, Hex[c]) = t
    BY <1>1, <1>9, ReaderModes, ReaderCases
  <2>4. Hex[c] \in Chars
    BY <1>2, <1>9
  <2>5. PICK h : h = Hex[c]
    OBVIOUS
  <2>6. /\ <<Backslash, "u">> \in Seq(Chars) /\ <<h>> \in Seq(Chars)
        /\ <<Backslash, "u">> \o <<h>> = <<Backslash, "u", h>> /\ <<Backslash, "u", h>> \in Seq(Chars)
    <3>1. Backslash \in Chars /\ "u" \in Chars /\ h \in Chars
      BY <1>2, <2>4, <2>5
    <3> QED BY <3>1, JoinedTwo, JoinedThree
  <2>7. Reads(p, <<Backslash, "u">>, g)
    <3>1. Reads(p, <<Backslash, "u">>, ReadCharacter(ReadCharacter(p, Backslash), "u"))
      BY <1>2, ReadsTwo
    <3> QED BY <1>3, <2>2, <3>1
  <2>8. Reads(g, <<h>>, t)
    <3>1. Reads(g, <<h>>, ReadCharacter(g, h))
      BY ReadsOne
    <3> QED BY <2>3, <2>5, <3>1
  <2>9. Reads(p, <<Backslash, "u">> \o <<h>>, t)
    BY <2>6, <2>7, <2>8, ReadsMore
  <2> QED BY <1>1, <2>1, <2>5, <2>6, <2>9
<1>10. CASE Ordinary(c)
  <2>1. Escaped(c) = <<c>>
    BY <1>10, EscapedCases, Zenon
  <2>2. ReadCharacter(p, c) = t
    BY <1>1, <1>10, ReaderModes, ReaderCases
  <2>3. Reads(p, <<c>>, ReadCharacter(p, c)) /\ <<c>> \in Seq(Chars)
    BY <1>2, ReadsOne
  <2> QED BY <1>1, <2>1, <2>2, <2>3
<1> QED BY <1>5, <1>6, <1>7, <1>8, <1>9, <1>10 DEF Ordinary

(* One text after the other, each from where the reader was left. *)
LEMMA ReadsFlat ==
  ASSUME NEW seqs \in Seq(Seq(Chars)), NEW st,
         \A i \in 1 .. Len(seqs) : Reads(st[i - 1], seqs[i], st[i])
  PROVE  FlattenSeq(seqs) \in Seq(Chars) /\ Reads(st[0], FlattenSeq(seqs), st[Len(seqs)])
<1>1. PICK n : n = Len(seqs)
  OBVIOUS
<1>2. n \in Nat /\ \A i \in 1 .. n : seqs[i] \in Seq(Chars)
  BY <1>1
<1>3. PICK F : Partial(F, Chars, seqs) /\ FlattenSeq(seqs) = F[Len(seqs)]
  BY FlattenFacts
<1>4. /\ \A i \in 0 .. n : F[i] \in Seq(Chars)
      /\ F[0] = <<>>
      /\ \A i \in 1 .. n : F[i] = F[i - 1] \o seqs[i]
      /\ FlattenSeq(seqs) = F[n]
  BY <1>1, <1>3 DEF Partial
<1> DEFINE P == {i \in 0 .. n : Reads(st[0], F[i], st[i])}
<1>5. 0 \in P
  <2>1. 0 \in 0 .. n
    BY <1>2
  <2>2. Reads(st[0], <<>>, st[0])
    BY ReadsNothing
  <2> QED BY <1>4, <2>1, <2>2
<1>6. ASSUME NEW i \in 0 .. n - 1, i \in P PROVE i + 1 \in P
  <2>1. i \in 0 .. n /\ i + 1 \in 0 .. n /\ i + 1 \in 1 .. n /\ (i + 1) - 1 = i
    BY <1>2
  <2>2. Reads(st[i], seqs[i + 1], st[i + 1])
    BY <1>1, <2>1
  <2>3. Reads(st[0], F[i], st[i])
    BY <1>6
  <2>4. F[i] \in Seq(Chars) /\ seqs[i + 1] \in Seq(Chars) /\ F[i + 1] = F[i] \o seqs[i + 1]
    BY <1>2, <1>4, <2>1
  <2>5. Reads(st[0], F[i] \o seqs[i + 1], st[i + 1])
    BY <2>2, <2>3, <2>4, ReadsMore
  <2> QED BY <2>1, <2>4, <2>5
<1>7. n \in P
  <2>1. n \in 0 .. n
    BY <1>2
  <2> HIDE DEF P
  <2> QED BY <1>2, <1>5, <1>6, <2>1, UpTo
<1>8. F[n] \in Seq(Chars)
  BY <1>2, <1>4
<1> QED BY <1>1, <1>4, <1>7, <1>8

(* A text is a longer and longer beginning of itself. *)
LEMMA TakeOneMore ==
  ASSUME NEW S, NEW s \in Seq(S), NEW i \in 1 .. Len(s)
  PROVE  SubSeq(s, 1, i) = Append(SubSeq(s, 1, i - 1), s[i])
<1>1. i \in 0 .. Len(s) /\ i - 1 \in 0 .. Len(s) /\ s[i] \in S
  OBVIOUS
<1>2. PICK u, v : u = SubSeq(s, 1, i) /\ v = SubSeq(s, 1, i - 1)
  OBVIOUS
<1>3. u \in Seq(S) /\ Len(u) = i /\ \A k \in 1 .. i : u[k] = s[k]
  BY <1>1, <1>2, TakeFacts
<1>4. v \in Seq(S) /\ Len(v) = i - 1 /\ \A k \in 1 .. i - 1 : v[k] = s[k]
  BY <1>1, <1>2, TakeFacts
<1>5. PICK w : w = Append(v, s[i])
  OBVIOUS
<1>6. w \in Seq(S) /\ Len(w) = i /\ w[i] = s[i] /\ \A k \in 1 .. i - 1 : w[k] = s[k]
  BY <1>1, <1>4, <1>5
<1>7. \A k \in 1 .. i : w[k] = u[k]
  BY <1>3, <1>6
<1>8. u = w
  BY <1>3, <1>6, <1>7, SameElements
<1> QED BY <1>2, <1>5, <1>8

(* An escaped text is read as the text. *)
LEMMA ReadsEscape ==
  ASSUME NEW value \in Seq(Letters), NEW tokens
  PROVE  /\ json_escape(value) \in Seq(Chars)
         /\ Reads(Reader("plain", <<>>, tokens), json_escape(value), Reader("plain", value, tokens))
<1>1. PICK n : n = Len(value)
  OBVIOUS
<1>2. n \in Nat /\ DOMAIN value = 1 .. n /\ \A i \in 1 .. n : value[i] \in Letters
  BY <1>1
<1>3. PICK seqs : seqs = [i \in 1 .. n |-> Escaped(value[i])]
  OBVIOUS
<1>4. json_escape(value) = FlattenSeq(seqs)
  BY <1>2, <1>3, Zenon DEF json_escape
<1>5. \A i \in 1 .. n : Escaped(value[i]) \in Seq(Chars)
  BY <1>2, ReadsEscaped
<1>6. seqs \in Seq(Seq(Chars)) /\ Len(seqs) = n /\ \A i \in 1 .. n : seqs[i] = Escaped(value[i])
  BY <1>2, <1>3, <1>5
<1>7. PICK st : st = [i \in 0 .. n |-> Reader("plain", SubSeq(value, 1, i), tokens)]
  OBVIOUS
<1>8. \A i \in 0 .. n : st[i] = Reader("plain", SubSeq(value, 1, i), tokens)
  BY <1>7, Zenon
<1>9. ASSUME NEW i \in 1 .. n PROVE Reads(st[i - 1], seqs[i], st[i])
  <2>1. i \in 0 .. n /\ i - 1 \in 0 .. n
    BY <1>2
  <2>2. PICK text : text = SubSeq(value, 1, i - 1)
    OBVIOUS
  <2>3. SubSeq(value, 1, i) = Append(text, value[i])
    BY <1>1, <2>2, TakeOneMore
  <2>4. st[i - 1] = Reader("plain", text, tokens) /\ st[i] = Reader("plain", Append(text, value[i]), tokens)
    BY <1>8, <2>1, <2>2, <2>3
  <2>5. value[i] \in Letters
    BY <1>2
  <2>6. Reads(Reader("plain", text, tokens), Escaped(value[i]), Reader("plain", Append(text, value[i]), tokens))
    BY <2>5, ReadsEscaped
  <2> QED BY <1>6, <2>4, <2>6
<1>10. FlattenSeq(seqs) \in Seq(Chars) /\ Reads(st[0], FlattenSeq(seqs), st[n])
  BY <1>6, <1>9, ReadsFlat
<1>11. st[0] = Reader("plain", <<>>, tokens) /\ st[n] = Reader("plain", value, tokens)
  <2>1. SubSeq(value, 1, 0) = <<>> /\ SubSeq(value, 1, n) = value
    BY <1>1
  <2>2. 0 \in 0 .. n /\ n \in 0 .. n
    BY <1>2
  <2> QED BY <1>8, <2>1, <2>2
<1> QED BY <1>4, <1>10, <1>11

(* Between two texts, x is read as these tokens. *)
Says(x, said) ==
  /\ x \in Seq(Chars) /\ said \in Seq(Tokens)
  /\ \A before \in Seq(Tokens) :
       Reads(Reader("between", <<>>, before), x, Reader("between", <<>>, before \o said))

LEMMA SaysBoth ==
  ASSUME NEW x, NEW y, NEW a, NEW b, Says(x, a), Says(y, b)
  PROVE  Says(x \o y, a \o b)
<1>1. x \in Seq(Chars) /\ y \in Seq(Chars) /\ a \in Seq(Tokens) /\ b \in Seq(Tokens)
  BY DEF Says
<1>2. x \o y \in Seq(Chars) /\ a \o b \in Seq(Tokens)
  BY <1>1, Joined
<1>3. ASSUME NEW before \in Seq(Tokens)
      PROVE  Reads(Reader("between", <<>>, before), x \o y, Reader("between", <<>>, before \o (a \o b)))
  <2>1. before \o a \in Seq(Tokens)
    BY <1>1, Joined
  <2>2. Reads(Reader("between", <<>>, before), x, Reader("between", <<>>, before \o a))
    BY Zenon DEF Says
  <2>3. Reads(Reader("between", <<>>, before \o a), y, Reader("between", <<>>, (before \o a) \o b))
    BY <2>1, Zenon DEF Says
  <2>4. (before \o a) \o b = before \o (a \o b)
    <3>1. a \in Seq(Tokens) /\ b \in Seq(Tokens)
      BY <1>1
    <3> QED BY <3>1, ConcatAssociative
  <2>5. Reads(Reader("between", <<>>, before), x \o y, Reader("between", <<>>, (before \o a) \o b))
    BY <1>1, <2>2, <2>3, ReadsMore
  <2> QED BY <2>4, <2>5
<1> QED BY <1>2, <1>3, Zenon DEF Says

LEMMA SaysNothing == Says(<<>>, <<>>)
<1>1. <<>> \in Seq(Chars) /\ <<>> \in Seq(Tokens)
  OBVIOUS
<1>2. \A before \in Seq(Tokens) : before \o <<>> = before
  OBVIOUS
<1>3. ASSUME NEW before \in Seq(Tokens)
      PROVE  Reads(Reader("between", <<>>, before), <<>>, Reader("between", <<>>, before \o <<>>))
  BY <1>2, ReadsNothing
<1> QED BY <1>1, <1>3 DEF Says

(* A mark. *)
LEMMA SaysMark ==
  ASSUME NEW c \in Marks
  PROVE  Says(<<c>>, <<Mark(c)>>)
<1>1. c \in Chars /\ c # Quote
  BY Different DEF Chars
<1>2. <<c>> \in Seq(Chars)
  BY <1>1
<1>3. Mark(c) \in Tokens
  BY <1>2 DEF Mark, Tokens
<1>4. ASSUME NEW before \in Seq(Tokens)
      PROVE  Reads(Reader("between", <<>>, before), <<c>>, Reader("between", <<>>, before \o <<Mark(c)>>))
  <2>1. PICK s : s = Reader("between", <<>>, before)
    OBVIOUS
  <2>2. s.tokens = before
    BY <2>1, ReaderFields
  <2>3. ReadCharacter(s, c) = Between(s, c)
    BY <2>1, ReaderModes
  <2>4. Between(s, c) = Reader("between", <<>>, Append(before, Mark(c)))
    BY <1>1, <2>2, Zenon DEF Between
  <2>5. Append(before, Mark(c)) = before \o <<Mark(c)>>
    BY <1>3, AppendIsConcat
  <2>6. Reads(s, <<c>>, ReadCharacter(s, c))
    BY ReadsOne
  <2> QED BY <2>1, <2>3, <2>4, <2>5, <2>6
<1>5. <<Mark(c)>> \in Seq(Tokens)
  BY <1>3
<1> QED BY <1>2, <1>4, <1>5 DEF Says

(* A text between quotes, given how it is read. *)
LEMMA SaysText ==
  ASSUME NEW x \in Seq(Chars), NEW text \in Seq(Chars),
         \A before : Reads(Reader("plain", <<>>, before), x, Reader("plain", text, before))
  PROVE  Says(<<Quote>> \o x \o <<Quote>>, <<Text(text)>>)
<1>1. Quote \in Chars
  BY DEF Chars
<1>2. <<Quote>> \in Seq(Chars)
  BY <1>1
<1>3. Text(text) \in Tokens
  BY DEF Text, Tokens
<1>4. <<Text(text)>> \in Seq(Tokens)
  BY <1>3
<1>5. <<Quote>> \o x \in Seq(Chars)
  BY <1>2, Joined
<1>6. (<<Quote>> \o x) \o <<Quote>> \in Seq(Chars)
  BY <1>2, <1>5, Joined
<1>7. ASSUME NEW before \in Seq(Tokens)
      PROVE  Reads(Reader("between", <<>>, before), (<<Quote>> \o x) \o <<Quote>>,
                   Reader("between", <<>>, before \o <<Text(text)>>))
  <2>1. PICK s, t, u, v : /\ s = Reader("between", <<>>, before) /\ t = Reader("plain", <<>>, before)
                          /\ u = Reader("plain", text, before)
                          /\ v = Reader("between", <<>>, before \o <<Text(text)>>)
    OBVIOUS
  <2>2. Reads(s, <<Quote>>, t)
    <3>1. s.tokens = before
      BY <2>1, ReaderFields
    <3>2. Between(s, Quote) = Reader("plain", <<>>, s.tokens)
      BY Zenon DEF Between
    <3>3. ReadCharacter(s, Quote) = Between(s, Quote)
      BY <2>1, ReaderModes
    <3>4. Reads(s, <<Quote>>, ReadCharacter(s, Quote))
      BY ReadsOne
    <3> QED BY <2>1, <3>1, <3>2, <3>3, <3>4
  <2>3. Reads(t, x, u)
    BY <2>1
  <2>4. Reads(u, <<Quote>>, v)
    <3>1. ReadCharacter(u, Quote) = Plain(u, Quote)
      BY <2>1, ReaderModes
    <3>2. Plain(u, Quote) = Reader("between", <<>>, Append(before, Text(text)))
      BY <2>1, ReaderCases
    <3>3. Append(before, Text(text)) = before \o <<Text(text)>>
      BY <1>3, AppendIsConcat
    <3>4. Reads(u, <<Quote>>, ReadCharacter(u, Quote))
      BY ReadsOne
    <3> QED BY <2>1, <3>1, <3>2, <3>3, <3>4
  <2>5. Reads(s, <<Quote>> \o x, u)
    BY <1>2, <2>2, <2>3, ReadsMore
  <2>6. Reads(s, (<<Quote>> \o x) \o <<Quote>>, v)
    BY <1>2, <1>5, <2>4, <2>5, ReadsMore
  <2> QED BY <2>1, <2>6
<1> QED BY <1>4, <1>6, <1>7 DEF Says

(* A text of the report, and a key. *)
LEMMA SaysQuoted ==
  ASSUME NEW value \in Seq(Letters)
  PROVE  Says(Quoted(value), <<Text(value)>>)
<1>1. Letters \subseteq Chars
  BY DEF Chars
<1>2. value \in Seq(Chars)
  BY <1>1
<1>3. /\ json_escape(value) \in Seq(Chars)
      /\ \A before : Reads(Reader("plain", <<>>, before), json_escape(value),
                           Reader("plain", value, before))
  BY ReadsEscape
<1>4. Says(<<Quote>> \o json_escape(value) \o <<Quote>>, <<Text(value)>>)
  BY <1>2, <1>3, SaysText
<1> QED BY <1>4, Zenon DEF Quoted

LEMMA SaysKey ==
  ASSUME NEW key \in Keys
  PROVE  Says(<<Quote, key, Quote, ":">>, <<Text(<<key>>), Mark(":")>>)
<1>1. Quote \in Chars /\ key \in Chars /\ ":" \in Chars /\ ":" \in Marks
  BY DEF Chars, Marks
<1>2. <<key>> \in Seq(Chars)
  BY <1>1
<1>3. ASSUME NEW before
      PROVE  Reads(Reader("plain", <<>>, before), <<key>>, Reader("plain", <<key>>, before))
  <2>1. PICK s : s = Reader("plain", <<>>, before)
    OBVIOUS
  <2>2. Ordinary(key)
    BY Different
  <2>3. ReadCharacter(s, key) = Plain(s, key)
    BY <2>1, ReaderModes
  <2>4. Plain(s, key) = Reader("plain", Append(<<>>, key), before)
    <3>1. PICK text : text = <<>>
      OBVIOUS
    <3>2. \A c : Ordinary(c) => Plain(Reader("plain", text, before), c) = Reader("plain", Append(text, c), before)
      BY ReaderCases
    <3>3. Plain(Reader("plain", text, before), key) = Reader("plain", Append(text, key), before)
      BY <2>2, <3>2, Zenon
    <3> QED BY <2>1, <3>1, <3>3
  <2>5. Append(<<>>, key) = <<key>>
    OBVIOUS
  <2>6. Reads(s, <<key>>, ReadCharacter(s, key))
    BY ReadsOne
  <2> QED BY <2>1, <2>3, <2>4, <2>5, <2>6
<1>4. Says(<<Quote>> \o <<key>> \o <<Quote>>, <<Text(<<key>>)>>)
  BY <1>2, <1>3, SaysText
<1>5. <<Quote>> \o <<key>> \o <<Quote>> = <<Quote, key, Quote>>
  <2>1. <<Quote>> \o <<key>> = <<Quote, key>>
    BY <1>1, JoinedTwo
  <2>2. <<Quote, key>> \o <<Quote>> = <<Quote, key, Quote>>
    BY <1>1, JoinedThree
  <2> QED BY <2>1, <2>2
<1>6. Says(<<":">>, <<Mark(":")>>)
  BY <1>1, SaysMark
<1>7. Says(<<Quote, key, Quote>> \o <<":">>, <<Text(<<key>>)>> \o <<Mark(":")>>)
  BY <1>4, <1>5, <1>6, SaysBoth
<1>8. <<Quote, key, Quote>> \o <<":">> = <<Quote, key, Quote, ":">>
  BY <1>1, JoinedFour
<1>9. <<Text(<<key>>)>> \o <<Mark(":")>> = <<Text(<<key>>), Mark(":")>>
  <2>1. Text(<<key>>) \in Tokens /\ Mark(":") \in Tokens
    <3>1. <<":">> \in Seq(Chars)
      BY <1>1
    <3> QED BY <1>2, <3>1 DEF Text, Mark, Tokens
  <2> QED BY <2>1, JoinedTwo
<1> QED BY <1>7, <1>8, <1>9

LEMMA SaysMember ==
  ASSUME NEW key \in Keys, NEW value, NEW said, Says(value, said)
  PROVE  Says(Member(key, value), <<Text(<<key>>), Mark(":")>> \o said)
<1>1. Says(<<Quote, key, Quote, ":">> \o value, <<Text(<<key>>), Mark(":")>> \o said)
  BY SaysKey, SaysBoth
<1> QED BY <1>1, Zenon DEF Member

(* A list of texts. *)
LEMMA SaysFlat ==
  ASSUME NEW xs \in Seq(Seq(Chars)), NEW ts \in Seq(Seq(Tokens)), Len(xs) = Len(ts),
         \A i \in 1 .. Len(xs) : Says(xs[i], ts[i])
  PROVE  Says(FlattenSeq(xs), FlattenSeq(ts))
<1>1. PICK n : n = Len(xs) /\ n = Len(ts)
  OBVIOUS
<1>2. n \in Nat
  BY <1>1
<1>3. PICK F : Partial(F, Chars, xs) /\ FlattenSeq(xs) = F[Len(xs)]
  BY FlattenFacts
<1>4. PICK G : Partial(G, Tokens, ts) /\ FlattenSeq(ts) = G[Len(ts)]
  BY FlattenFacts
<1>5. /\ F[0] = <<>> /\ G[0] = <<>>
      /\ \A i \in 1 .. n : F[i] = F[i - 1] \o xs[i] /\ G[i] = G[i - 1] \o ts[i]
      /\ FlattenSeq(xs) = F[n] /\ FlattenSeq(ts) = G[n]
  BY <1>1, <1>3, <1>4 DEF Partial
<1> DEFINE P == {i \in 0 .. n : Says(F[i], G[i])}
<1>6. 0 \in P
  <2>1. 0 \in 0 .. n
    BY <1>2
  <2> QED BY <1>5, <2>1, SaysNothing
<1>7. ASSUME NEW i \in 0 .. n - 1, i \in P PROVE i + 1 \in P
  <2>1. i + 1 \in 0 .. n /\ i + 1 \in 1 .. n /\ (i + 1) - 1 = i
    BY <1>2
  <2>2. Says(F[i], G[i]) /\ Says(xs[i + 1], ts[i + 1])
    BY <1>1, <1>7, <2>1
  <2>3. Says(F[i] \o xs[i + 1], G[i] \o ts[i + 1])
    BY <2>2, SaysBoth
  <2>4. F[i + 1] = F[i] \o xs[i + 1] /\ G[i + 1] = G[i] \o ts[i + 1]
    BY <1>5, <2>1
  <2> QED BY <2>1, <2>3, <2>4
<1>8. n \in P
  <2>1. n \in 0 .. n
    BY <1>2
  <2> HIDE DEF P
  <2> QED BY <1>2, <1>6, <1>7, <2>1, UpTo
<1> QED BY <1>5, <1>8

LEMMA SaysElements ==
  ASSUME NEW xs \in Seq(Seq(Chars)), NEW ts \in Seq(Seq(Tokens)), Len(xs) = Len(ts),
         \A i \in 1 .. Len(xs) : Says(xs[i], ts[i])
  PROVE  Says(Elements(xs), Separated(ts))
<1>1. PICK n : n = Len(xs) /\ n = Len(ts)
  OBVIOUS
<1>2. n \in Nat /\ DOMAIN xs = 1 .. n /\ DOMAIN ts = 1 .. n
  BY <1>1
<1> DEFINE X(i) == (IF i = 1 THEN <<>> ELSE <<",">>) \o xs[i]
           T(i) == (IF i = 1 THEN <<>> ELSE <<Mark(",")>>) \o ts[i]
<1>3. ASSUME NEW i \in 1 .. n PROVE Says(X(i), T(i))
  <2>1. Says(xs[i], ts[i])
    BY <1>1
  <2>2. CASE i = 1
    <3>1. Says(<<>> \o xs[i], <<>> \o ts[i])
      BY <2>1, SaysNothing, SaysBoth
    <3> QED BY <2>2, <3>1, Zenon
  <2>3. CASE i # 1
    <3>1. "," \in Marks
      BY DEF Marks
    <3>2. Says(<<",">> \o xs[i], <<Mark(",")>> \o ts[i])
      BY <2>1, <3>1, SaysMark, SaysBoth
    <3> QED BY <2>3, <3>2, Zenon
  <2> QED BY <2>2, <2>3
<1>4. PICK ys, us : ys = [i \in 1 .. n |-> X(i)] /\ us = [i \in 1 .. n |-> T(i)]
  OBVIOUS
<1>5. Elements(xs) = FlattenSeq(ys) /\ Separated(ts) = FlattenSeq(us)
  BY <1>2, <1>4, Zenon DEF Elements, Separated
<1> HIDE DEF X, T
<1>6. \A i \in 1 .. n : X(i) \in Seq(Chars) /\ T(i) \in Seq(Tokens)
  BY <1>3 DEF Says
<1>7. /\ ys \in Seq(Seq(Chars)) /\ Len(ys) = n /\ \A i \in 1 .. n : ys[i] = X(i)
      /\ us \in Seq(Seq(Tokens)) /\ Len(us) = n /\ \A i \in 1 .. n : us[i] = T(i)
  BY <1>2, <1>4, <1>6
<1>8. \A i \in 1 .. Len(ys) : Says(ys[i], us[i])
  BY <1>3, <1>7
<1>9. Says(FlattenSeq(ys), FlattenSeq(us))
  BY <1>7, <1>8, SaysFlat
<1> QED BY <1>5, <1>9

LEMMA SaysBrackets ==
  ASSUME NEW xs \in Seq(Seq(Chars)), NEW ts \in Seq(Seq(Tokens)), Len(xs) = Len(ts),
         \A i \in 1 .. Len(xs) : Says(xs[i], ts[i])
  PROVE  Says(Brackets(xs), Array(ts))
<1>1. Says(Elements(xs), Separated(ts))
  BY SaysElements
<1>2. "[" \in Marks /\ "]" \in Marks
  BY DEF Marks
<1>3. Says(<<"[">>, <<Mark("[")>>) /\ Says(<<"]">>, <<Mark("]")>>)
  BY <1>2, SaysMark
<1>4. Says(<<"[">> \o Elements(xs), <<Mark("[")>> \o Separated(ts))
  BY <1>1, <1>3, SaysBoth
<1>5. Says(<<"[">> \o Elements(xs) \o <<"]">>, <<Mark("[")>> \o Separated(ts) \o <<Mark("]")>>)
  BY <1>3, <1>4, SaysBoth
<1> QED BY <1>5, Zenon DEF Brackets, Array

LEMMA SaysBraces ==
  ASSUME NEW keys \in Seq(Keys), NEW xs \in Seq(Seq(Chars)), NEW vs, NEW ts \in Seq(Seq(Tokens)),
         Len(xs) = Len(keys), Len(ts) = Len(keys),
         \A i \in 1 .. Len(keys) : xs[i] = Member(keys[i], vs[i]) /\ Says(vs[i], ts[i])
  PROVE  Says(Braces(xs), Object(keys, ts))
<1>1. PICK n : n = Len(keys)
  OBVIOUS
<1>2. n \in Nat /\ DOMAIN keys = 1 .. n /\ \A i \in 1 .. n : keys[i] \in Keys
  BY <1>1
<1> DEFINE T(i) == <<Text(<<keys[i]>>), Mark(":")>> \o ts[i]
<1>3. ASSUME NEW i \in 1 .. n PROVE Says(xs[i], T(i))
  <2>1. keys[i] \in Keys /\ xs[i] = Member(keys[i], vs[i]) /\ Says(vs[i], ts[i])
    BY <1>1, <1>2
  <2> QED BY <2>1, SaysMember
<1>4. PICK us : us = [i \in 1 .. n |-> T(i)]
  OBVIOUS
<1>5. Object(keys, ts) = <<Mark("{")>> \o Separated(us) \o <<Mark("}")>>
  BY <1>2, <1>4, Zenon DEF Object
<1> HIDE DEF T
<1>6. \A i \in 1 .. n : T(i) \in Seq(Tokens)
  BY <1>3 DEF Says
<1>7. us \in Seq(Seq(Tokens)) /\ Len(us) = n /\ \A i \in 1 .. n : us[i] = T(i)
  BY <1>2, <1>4, <1>6
<1>8. Len(xs) = Len(us) /\ \A i \in 1 .. Len(xs) : Says(xs[i], us[i])
  BY <1>1, <1>3, <1>7
<1>9. Says(Elements(xs), Separated(us))
  BY <1>7, <1>8, SaysElements
<1>10. "{" \in Marks /\ "}" \in Marks
  BY DEF Marks
<1>11. Says(<<"{">>, <<Mark("{")>>) /\ Says(<<"}">>, <<Mark("}")>>)
  BY <1>10, SaysMark
<1>12. Says(<<"{">> \o Elements(xs), <<Mark("{")>> \o Separated(us))
  BY <1>9, <1>11, SaysBoth
<1>13. Says(<<"{">> \o Elements(xs) \o <<"}">>, <<Mark("{")>> \o Separated(us) \o <<Mark("}")>>)
  BY <1>11, <1>12, SaysBoth
<1> QED BY <1>5, <1>13, Zenon DEF Braces

-----------------------------------------------------------------------------
(* JSON: the reader takes from it what the report says.                    *)

TypedReport(r) ==
  /\ r.ssh_ip \in Seq(Letters) /\ r.ssh_banner \in Seq(Letters)
  /\ r.interface_name \in Seq(Letters) /\ r.discovery_stage \in Seq(Letters)
  /\ r.host_key_status \in Seq(Letters)
  /\ Len(r.interfaces) \in Nat /\ DOMAIN r.interfaces = 1 .. Len(r.interfaces)
  /\ \A i \in 1 .. Len(r.interfaces) :
       r.interfaces[i].name \in Seq(Letters) /\ r.interfaces[i].ipv4 \in Seq(Letters)
  /\ Len(r.warnings) \in Nat /\ DOMAIN r.warnings = 1 .. Len(r.warnings)
  /\ \A i \in 1 .. Len(r.warnings) : r.warnings[i] \in Seq(Letters)

LEMMA SaysTyped ==
  ASSUME NEW x, NEW said, Says(x, said)
  PROVE  x \in Seq(Chars) /\ said \in Seq(Tokens)
BY DEF Says

(* One interface. *)
InterfaceJson(i) == Braces(<<Member("name", Quoted(i.name)), Member("ipv4", Quoted(i.ipv4))>>)

InterfaceTokens(i) == Object(<<"name", "ipv4">>, <<<<Text(i.name)>>, <<Text(i.ipv4)>>>>)

LEMMA SaysInterface ==
  ASSUME NEW i, i.name \in Seq(Letters), i.ipv4 \in Seq(Letters)
  PROVE  Says(InterfaceJson(i), InterfaceTokens(i))
<1>1. PICK v1, v2, t1, t2 : /\ v1 = Quoted(i.name) /\ v2 = Quoted(i.ipv4)
                            /\ t1 = <<Text(i.name)>> /\ t2 = <<Text(i.ipv4)>>
  OBVIOUS
<1>2. Says(v1, t1) /\ Says(v2, t2)
  BY <1>1, SaysQuoted
<1>3. "name" \in Keys /\ "ipv4" \in Keys
  BY DEF Keys
<1>4. PICK x1, x2 : x1 = Member("name", v1) /\ x2 = Member("ipv4", v2)
  OBVIOUS
<1>5. x1 \in Seq(Chars) /\ x2 \in Seq(Chars) /\ t1 \in Seq(Tokens) /\ t2 \in Seq(Tokens)
  <2>1. /\ Says(x1, <<Text(<<"name">>), Mark(":")>> \o t1)
        /\ Says(x2, <<Text(<<"ipv4">>), Mark(":")>> \o t2)
    BY <1>2, <1>3, <1>4, SaysMember
  <2> QED BY <1>2, <2>1, SaysTyped
<1>6. PICK keys, xs, vs, ts : /\ keys = <<"name", "ipv4">> /\ xs = <<x1, x2>>
                              /\ vs = <<v1, v2>> /\ ts = <<t1, t2>>
  OBVIOUS
<1>7. /\ keys \in Seq(Keys) /\ Len(keys) = 2 /\ keys[1] = "name" /\ keys[2] = "ipv4"
  BY <1>3, <1>6
<1>8. xs \in Seq(Seq(Chars)) /\ Len(xs) = 2 /\ xs[1] = x1 /\ xs[2] = x2
  BY <1>5, <1>6
<1>9. ts \in Seq(Seq(Tokens)) /\ Len(ts) = 2 /\ ts[1] = t1 /\ ts[2] = t2
  BY <1>5, <1>6
<1>10. vs[1] = v1 /\ vs[2] = v2
  BY <1>6
<1>11. ASSUME NEW k \in 1 .. Len(keys) PROVE xs[k] = Member(keys[k], vs[k]) /\ Says(vs[k], ts[k])
  <2>1. k = 1 \/ k = 2
    BY <1>7
  <2> QED BY <1>2, <1>4, <1>7, <1>8, <1>9, <1>10, <2>1
<1>12. Says(Braces(xs), Object(keys, ts))
  BY <1>7, <1>8, <1>9, <1>11, SaysBraces
<1> QED BY <1>1, <1>4, <1>6, <1>12, Zenon DEF InterfaceJson, InterfaceTokens

(* The interfaces, and the warnings. *)
LEMMA SaysInterfaces ==
  ASSUME NEW r, TypedReport(r)
  PROVE  Says(Brackets([i \in DOMAIN r.interfaces |-> InterfaceJson(r.interfaces[i])]),
              Array([i \in DOMAIN r.interfaces |-> InterfaceTokens(r.interfaces[i])]))
<1>1. PICK n, l : l = r.interfaces /\ n = Len(r.interfaces)
  OBVIOUS
<1>2. /\ n \in Nat /\ DOMAIN l = 1 .. n
      /\ \A i \in 1 .. n : l[i].name \in Seq(Letters) /\ l[i].ipv4 \in Seq(Letters)
  BY <1>1 DEF TypedReport
<1>3. \A i \in 1 .. n : Says(InterfaceJson(l[i]), InterfaceTokens(l[i]))
  BY <1>2, SaysInterface
<1>4. \A i \in 1 .. n : InterfaceJson(l[i]) \in Seq(Chars) /\ InterfaceTokens(l[i]) \in Seq(Tokens)
  BY <1>3, SaysTyped
<1>5. PICK xs, ts : /\ xs = [i \in 1 .. n |-> InterfaceJson(l[i])]
                    /\ ts = [i \in 1 .. n |-> InterfaceTokens(l[i])]
  OBVIOUS
<1>6. /\ xs \in Seq(Seq(Chars)) /\ Len(xs) = n /\ \A i \in 1 .. n : xs[i] = InterfaceJson(l[i])
      /\ ts \in Seq(Seq(Tokens)) /\ Len(ts) = n /\ \A i \in 1 .. n : ts[i] = InterfaceTokens(l[i])
  BY <1>2, <1>4, <1>5
<1>7. Says(Brackets(xs), Array(ts))
  BY <1>3, <1>6, SaysBrackets
<1> QED BY <1>1, <1>2, <1>5, <1>7

LEMMA SaysWarnings ==
  ASSUME NEW r, TypedReport(r)
  PROVE  Says(Brackets([i \in DOMAIN r.warnings |-> Quoted(r.warnings[i])]),
              Array([i \in DOMAIN r.warnings |-> <<Text(r.warnings[i])>>]))
<1>1. PICK n, l : l = r.warnings /\ n = Len(r.warnings)
  OBVIOUS
<1>2. /\ n \in Nat /\ DOMAIN l = 1 .. n /\ \A i \in 1 .. n : l[i] \in Seq(Letters)
  BY <1>1 DEF TypedReport
<1>3. \A i \in 1 .. n : Says(Quoted(l[i]), <<Text(l[i])>>)
  BY <1>2, SaysQuoted
<1>4. \A i \in 1 .. n : Quoted(l[i]) \in Seq(Chars) /\ <<Text(l[i])>> \in Seq(Tokens)
  BY <1>3, SaysTyped
<1>5. PICK xs, ts : /\ xs = [i \in 1 .. n |-> Quoted(l[i])]
                    /\ ts = [i \in 1 .. n |-> <<Text(l[i])>>]
  OBVIOUS
<1>6. /\ xs \in Seq(Seq(Chars)) /\ Len(xs) = n /\ \A i \in 1 .. n : xs[i] = Quoted(l[i])
      /\ ts \in Seq(Seq(Tokens)) /\ Len(ts) = n /\ \A i \in 1 .. n : ts[i] = <<Text(l[i])>>
  BY <1>2, <1>4, <1>5
<1>7. Says(Brackets(xs), Array(ts))
  BY <1>3, <1>6, SaysBrackets
<1> QED BY <1>1, <1>2, <1>5, <1>7

(* All of it: whatever the texts, a reader of JSON takes from what         *)
(* format_json() writes what the report says (json_escape).                *)
THEOREM JsonReadsBack ==
  ASSUME NEW r, TypedReport(r)
  PROVE  JsonSays(format_json(r), r)
<1>1. PICK v1, v2, v3, v4, v5, v6, v7 :
        /\ v1 = Quoted(r.ssh_ip) /\ v2 = Quoted(r.ssh_banner) /\ v3 = Quoted(r.interface_name)
        /\ v4 = Quoted(r.discovery_stage) /\ v5 = Quoted(r.host_key_status)
        /\ v6 = Brackets([i \in DOMAIN r.interfaces |-> InterfaceJson(r.interfaces[i])])
        /\ v7 = Brackets([i \in DOMAIN r.warnings |-> Quoted(r.warnings[i])])
  OBVIOUS
<1>2. PICK t1, t2, t3, t4, t5, t6, t7 :
        /\ t1 = <<Text(r.ssh_ip)>> /\ t2 = <<Text(r.ssh_banner)>> /\ t3 = <<Text(r.interface_name)>>
        /\ t4 = <<Text(r.discovery_stage)>> /\ t5 = <<Text(r.host_key_status)>>
        /\ t6 = Array([i \in DOMAIN r.interfaces |-> InterfaceTokens(r.interfaces[i])])
        /\ t7 = Array([i \in DOMAIN r.warnings |-> <<Text(r.warnings[i])>>])
  OBVIOUS
<1>3. Says(v1, t1) /\ Says(v2, t2) /\ Says(v3, t3) /\ Says(v4, t4) /\ Says(v5, t5)
  <2>1. /\ r.ssh_ip \in Seq(Letters) /\ r.ssh_banner \in Seq(Letters)
        /\ r.interface_name \in Seq(Letters) /\ r.discovery_stage \in Seq(Letters)
        /\ r.host_key_status \in Seq(Letters)
    BY DEF TypedReport
  <2> QED BY <1>1, <1>2, <2>1, SaysQuoted
<1>4. Says(v6, t6) /\ Says(v7, t7)
  BY <1>1, <1>2, SaysInterfaces, SaysWarnings
<1>5. /\ "ssh_ip" \in Keys /\ "ssh_banner" \in Keys /\ "local_interface" \in Keys
      /\ "discovery_stage" \in Keys /\ "host_key_status" \in Keys
      /\ "interfaces" \in Keys /\ "warnings" \in Keys
  BY DEF Keys
<1>6. PICK x1, x2, x3, x4, x5, x6, x7 :
        /\ x1 = Member("ssh_ip", v1) /\ x2 = Member("ssh_banner", v2)
        /\ x3 = Member("local_interface", v3) /\ x4 = Member("discovery_stage", v4)
        /\ x5 = Member("host_key_status", v5) /\ x6 = Member("interfaces", v6)
        /\ x7 = Member("warnings", v7)
  OBVIOUS
<1>7. ASSUME NEW key \in Keys, NEW v, NEW t, Says(v, t)
      PROVE  Member(key, v) \in Seq(Chars) /\ t \in Seq(Tokens)
  <2>1. Says(Member(key, v), <<Text(<<key>>), Mark(":")>> \o t)
    BY <1>7, SaysMember
  <2> QED BY <1>7, <2>1, SaysTyped
<1>8. /\ x1 \in Seq(Chars) /\ x2 \in Seq(Chars) /\ x3 \in Seq(Chars) /\ x4 \in Seq(Chars)
      /\ x5 \in Seq(Chars) /\ x6 \in Seq(Chars) /\ x7 \in Seq(Chars)
  BY <1>3, <1>4, <1>5, <1>6, <1>7
<1>9. /\ t1 \in Seq(Tokens) /\ t2 \in Seq(Tokens) /\ t3 \in Seq(Tokens) /\ t4 \in Seq(Tokens)
      /\ t5 \in Seq(Tokens) /\ t6 \in Seq(Tokens) /\ t7 \in Seq(Tokens)
  BY <1>3, <1>4, <1>5, <1>7
<1>10. PICK keys, xs, vs, ts :
         /\ keys = <<"ssh_ip", "ssh_banner", "local_interface", "discovery_stage",
                     "host_key_status", "interfaces", "warnings">>
         /\ xs = <<x1, x2, x3, x4, x5, x6, x7>>
         /\ vs = <<v1, v2, v3, v4, v5, v6, v7>>
         /\ ts = <<t1, t2, t3, t4, t5, t6, t7>>
  OBVIOUS
<1>11. /\ keys \in Seq(Keys) /\ Len(keys) = 7
       /\ keys[1] = "ssh_ip" /\ keys[2] = "ssh_banner" /\ keys[3] = "local_interface"
       /\ keys[4] = "discovery_stage" /\ keys[5] = "host_key_status"
       /\ keys[6] = "interfaces" /\ keys[7] = "warnings"
  BY <1>5, <1>10
<1>12. /\ xs \in Seq(Seq(Chars)) /\ Len(xs) = 7
       /\ xs[1] = x1 /\ xs[2] = x2 /\ xs[3] = x3 /\ xs[4] = x4 /\ xs[5] = x5 /\ xs[6] = x6 /\ xs[7] = x7
  BY <1>8, <1>10
<1>13. /\ ts \in Seq(Seq(Tokens)) /\ Len(ts) = 7
       /\ ts[1] = t1 /\ ts[2] = t2 /\ ts[3] = t3 /\ ts[4] = t4 /\ ts[5] = t5 /\ ts[6] = t6 /\ ts[7] = t7
  BY <1>9, <1>10
<1>14. vs[1] = v1 /\ vs[2] = v2 /\ vs[3] = v3 /\ vs[4] = v4 /\ vs[5] = v5 /\ vs[6] = v6 /\ vs[7] = v7
  BY <1>10
<1>15. ASSUME NEW k \in 1 .. Len(keys) PROVE xs[k] = Member(keys[k], vs[k]) /\ Says(vs[k], ts[k])
  <2>1. k = 1 \/ k = 2 \/ k = 3 \/ k = 4 \/ k = 5 \/ k = 6 \/ k = 7
    BY <1>11
  <2> QED BY <1>3, <1>4, <1>6, <1>11, <1>12, <1>13, <1>14, <2>1
<1>16. Says(Braces(xs), Object(keys, ts))
  BY <1>11, <1>12, <1>13, <1>15, SaysBraces
<1>17. format_json(r) = Braces(xs)
  BY <1>1, <1>6, <1>10, Zenon DEF format_json, InterfaceJson
<1>18. JsonSays(format_json(r), r) <=> JsonTokens(format_json(r)) = Object(keys, ts)
  BY <1>2, <1>10, Zenon DEF JsonSays, InterfaceTokens
<1>19. PICK x, said : x = Braces(xs) /\ said = Object(keys, ts)
  OBVIOUS
<1>20. x \in Seq(Chars) /\ said \in Seq(Tokens)
  BY <1>16, <1>19, SaysTyped
<1>21. <<>> \in Seq(Tokens) /\ <<>> \o said = said
  BY <1>20
<1>22. Reads(Reader("between", <<>>, <<>>), x, Reader("between", <<>>, said))
  <2>1. Says(x, said)
    BY <1>16, <1>19
  <2>2. Reads(Reader("between", <<>>, <<>>), x, Reader("between", <<>>, <<>> \o said))
    BY <2>1, <1>21 DEF Says
  <2> QED BY <1>21, <2>2
<1>23. JsonTokens(x) = said
  BY <1>20, <1>22, ReadsTokens
<1> QED BY <1>17, <1>18, <1>19, <1>23

-----------------------------------------------------------------------------
(* The text report: its lines, of which only the warnings start with the   *)
(* word for one.                                                           *)

Phrases == {"Directly_connected_device", "SSH_endpoint:", "IP:", "Banner:", "Via:", "(", ")",
            "Host_key:", "Network_interfaces:"}

TextLines == Seq(Letters \cup Phrases \cup {Blank, "WARNING:"})

Calm(lines) ==
  /\ lines \in Seq(TextLines)
  /\ \A i \in 1 .. Len(lines) : lines[i] = <<>> \/ Head(lines[i]) # "WARNING:"

LEMMA LettersInLines == Seq(Letters) \subseteq TextLines
BY DEF TextLines

LEMMA BlankDiffers == Blank # "WARNING:"
BY Zenon DEF Blank

(* A line that starts with a word. *)
LEMMA Headed ==
  ASSUME NEW word \in Phrases \cup {Blank, "WARNING:"}, NEW t \in TextLines
  PROVE  <<word>> \o t \in TextLines /\ Head(<<word>> \o t) = word /\ <<word>> \o t # <<>>
<1>1. PICK S : S = Letters \cup Phrases \cup {Blank, "WARNING:"}
  OBVIOUS
<1>9. Seq(S) = TextLines
  BY <1>1, Zenon DEF TextLines
<1>2. word \in S /\ t \in Seq(S)
  BY <1>1 DEF TextLines
<1>3. PICK u : u = <<word>>
  OBVIOUS
<1>4. u \in Seq(S) /\ Len(u) = 1 /\ u[1] = word
  BY <1>2, <1>3
<1>5. PICK x : x = u \o t
  OBVIOUS
<1>6. x \in Seq(S) /\ Len(x) = 1 + Len(t) /\ x[1] = word
  <2>1. u \in Seq(S) /\ t \in Seq(S)
    BY <1>2, <1>4
  <2>2. /\ x \in Seq(S) /\ Len(x) = Len(u) + Len(t)
        /\ \A i \in 1 .. Len(u) : x[i] = u[i]
    BY <1>5, <2>1, Joined
  <2> QED BY <1>4, <2>2
<1>7. Len(t) \in Nat
  BY <1>2
<1>8. x # <<>> /\ Head(x) = x[1]
  BY <1>6, <1>7
<1> QED BY <1>3, <1>5, <1>6, <1>8, <1>9

LEMMA CalmJoined ==
  ASSUME NEW a, Calm(a), NEW b, Calm(b)
  PROVE  Calm(a \o b)
<1>1. /\ a \in Seq(TextLines) /\ b \in Seq(TextLines)
      /\ \A i \in 1 .. Len(a) : a[i] = <<>> \/ Head(a[i]) # "WARNING:"
      /\ \A i \in 1 .. Len(b) : b[i] = <<>> \/ Head(b[i]) # "WARNING:"
  BY DEF Calm
<1>2. PICK x : x = a \o b
  OBVIOUS
<1>3. PICK S : S = TextLines
  OBVIOUS
<1>4. /\ x \in Seq(S) /\ Len(x) = Len(a) + Len(b)
      /\ \A i \in 1 .. Len(a) : x[i] = a[i]
      /\ \A i \in 1 .. Len(b) : x[Len(a) + i] = b[i]
  BY <1>1, <1>2, <1>3, Joined
<1>5. Len(a) \in Nat /\ Len(b) \in Nat
  BY <1>1
<1>6. ASSUME NEW i \in 1 .. Len(x) PROVE x[i] = <<>> \/ Head(x[i]) # "WARNING:"
  <2>1. CASE i \in 1 .. Len(a)
    BY <1>1, <1>4, <2>1
  <2>2. CASE i \notin 1 .. Len(a)
    <3>1. PICK j \in 1 .. Len(b) : i = Len(a) + j
      <4>1. i - Len(a) \in 1 .. Len(b) /\ i = Len(a) + (i - Len(a))
        BY <1>4, <1>5, <2>2
      <4> QED BY <4>1
    <3>2. x[i] = b[j]
      BY <1>4, <3>1
    <3> QED BY <1>1, <3>1, <3>2
  <2> QED BY <2>1, <2>2
<1> QED BY <1>2, <1>3, <1>4, <1>6 DEF Calm

LEMMA CalmOne ==
  ASSUME NEW line \in TextLines, line = <<>> \/ Head(line) # "WARNING:"
  PROVE  Calm(<<line>>)
<1>1. PICK u, S : u = <<line>> /\ S = TextLines
  OBVIOUS
<1>2. u \in Seq(S) /\ Len(u) = 1 /\ u[1] = line
  BY <1>1
<1>3. \A i \in 1 .. Len(u) : u[i] = line
  BY <1>2
<1> QED BY <1>1, <1>2, <1>3, Zenon DEF Calm

LEMMA CalmNothing == Calm(<<>>)
<1>1. PICK u, S : u = <<>> /\ S = TextLines
  OBVIOUS
<1>2. u \in Seq(S) /\ \A i \in 1 .. Len(u) : FALSE
  BY <1>1
<1> QED BY <1>1, <1>2, Zenon DEF Calm

LEMMA CalmWord ==
  ASSUME NEW word \in Phrases, NEW t \in TextLines
  PROVE  <<word>> \o t \in TextLines /\ Calm(<<<<word>> \o t>>)
<1>1. word # "WARNING:"
  BY DEF Phrases
<1>2. PICK x : x = <<word>> \o t
  OBVIOUS
<1>3. x \in TextLines /\ Head(x) = word
  BY <1>2, Headed
<1> QED BY <1>1, <1>2, <1>3, CalmOne

LEMMA EmptyLine == <<>> \in TextLines
BY DEF TextLines

(* The lines about the device that answered. *)
LEMMA ViaLine ==
  ASSUME NEW r, TypedReport(r)
  PROVE  Via(r) \in TextLines /\ Calm(<<Via(r)>>)
<1>1. r.interface_name \in Seq(Letters) /\ r.discovery_stage \in Seq(Letters)
  BY DEF TypedReport
<1>2. PICK S : S = Letters \cup Phrases \cup {Blank, "WARNING:"}
  OBVIOUS
<1>3. TextLines = Seq(S)
  BY <1>2, Zenon DEF TextLines
<1>4. PICK o, c, n, d : o = <<"(">> /\ c = <<")">> /\ n = r.interface_name /\ d = r.discovery_stage
  OBVIOUS
<1>5. n \in Seq(S) /\ d \in Seq(S)
  <2>1. Seq(Letters) \subseteq Seq(S)
    BY <1>3, LettersInLines
  <2> QED BY <1>1, <1>4, <2>1
<1>6. o \in Seq(S) /\ c \in Seq(S)
  <2>1. "(" \in S /\ ")" \in S
    BY <1>2 DEF Phrases
  <2> QED BY <1>4, <2>1
<1>7. PICK e : e = IF r.discovery_stage = <<>> THEN <<>> ELSE <<"(">> \o r.discovery_stage \o <<")">>
  OBVIOUS
<1>8. e \in Seq(S)
  <2>1. PICK f : f = o \o d
    OBVIOUS
  <2>2. f \in Seq(S)
    BY <1>5, <1>6, <2>1
  <2>3. PICK g : g = f \o c
    OBVIOUS
  <2>4. g \in Seq(S) /\ <<>> \in Seq(S)
    BY <1>6, <2>2, <2>3
  <2>5. e = <<>> \/ e = g
    BY <1>4, <1>7, <2>1, <2>3
  <2> QED BY <2>4, <2>5
<1>9. PICK t : t = n \o e
  OBVIOUS
<1>10. t \in TextLines
  <2>1. t \in Seq(S)
    BY <1>5, <1>8, <1>9
  <2> QED BY <1>3, <2>1
<1>11. Via(r) = <<"Via:">> \o t
  <2>1. PICK v : v = <<"Via:">>
    OBVIOUS
  <2>2. Via(r) = (v \o n) \o e
    BY <1>4, <1>7, <2>1, Zenon DEF Via
  <2>3. v \in Seq(S)
    <3>1. "Via:" \in S
      BY <1>2 DEF Phrases
    <3> QED BY <2>1, <3>1
  <2>4. (v \o n) \o e = v \o t
    <3>1. v \in Seq(S) /\ n \in Seq(S) /\ e \in Seq(S)
      BY <1>5, <1>8, <2>3
    <3>2. (v \o n) \o e = v \o (n \o e)
      BY <3>1, ConcatAssociative
    <3> QED BY <1>9, <3>2
  <2> QED BY <2>1, <2>2, <2>4
<1>12. "Via:" \in Phrases
  BY DEF Phrases
<1> QED BY <1>10, <1>11, <1>12, CalmWord

LEMMA EndpointLines ==
  ASSUME NEW r, TypedReport(r)
  PROVE  /\ Calm(SshEndpoint(r)) /\ Len(SshEndpoint(r)) >= 5
         /\ SshEndpoint(r)[4] = <<"IP:">> \o r.ssh_ip
         /\ SshEndpoint(r)[5] = <<"Banner:">> \o r.ssh_banner
<1>1. /\ r.ssh_ip \in TextLines /\ r.ssh_banner \in TextLines
      /\ r.host_key_status \in TextLines
  <2>1. r.ssh_ip \in Seq(Letters) /\ r.ssh_banner \in Seq(Letters) /\ r.host_key_status \in Seq(Letters)
    BY DEF TypedReport
  <2> QED BY <2>1, LettersInLines
<1>2. PICK l1, l2, l3, l4, l5 :
        /\ l1 = <<"Directly_connected_device">> /\ l2 = <<>> /\ l3 = <<"SSH_endpoint:">>
        /\ l4 = <<"IP:">> \o r.ssh_ip /\ l5 = <<"Banner:">> \o r.ssh_banner
  OBVIOUS
<1>3. /\ "Directly_connected_device" \in Phrases /\ "SSH_endpoint:" \in Phrases
      /\ "IP:" \in Phrases /\ "Banner:" \in Phrases /\ "Host_key:" \in Phrases
  BY DEF Phrases
<1>4. ASSUME NEW word \in Phrases
      PROVE  <<word>> \in TextLines /\ Head(<<word>>) = word /\ word # "WARNING:"
  <2>1. word \in Letters \cup Phrases \cup {Blank, "WARNING:"}
    OBVIOUS
  <2>2. <<word>> \in TextLines /\ Head(<<word>>) = word
    BY <2>1 DEF TextLines
  <2>3. word # "WARNING:"
    BY DEF Phrases
  <2> QED BY <2>2, <2>3
<1>5. ASSUME NEW word \in Phrases, NEW t \in TextLines
      PROVE  <<word>> \o t \in TextLines /\ Head(<<word>> \o t) = word /\ word # "WARNING:"
  BY <1>4, Headed
<1>6. /\ l1 \in TextLines /\ l2 \in TextLines /\ l3 \in TextLines /\ l4 \in TextLines /\ l5 \in TextLines
      /\ Head(l1) # "WARNING:" /\ l2 = <<>> /\ Head(l3) # "WARNING:"
      /\ Head(l4) # "WARNING:" /\ Head(l5) # "WARNING:"
  <2>1. l1 \in TextLines /\ Head(l1) # "WARNING:"
    BY <1>2, <1>3, <1>4, Zenon
  <2>2. l3 \in TextLines /\ Head(l3) # "WARNING:"
    BY <1>2, <1>3, <1>4, Zenon
  <2>3. l4 \in TextLines /\ Head(l4) # "WARNING:"
    BY <1>1, <1>2, <1>3, <1>5, Zenon
  <2>4. l5 \in TextLines /\ Head(l5) # "WARNING:"
    BY <1>1, <1>2, <1>3, <1>5, Zenon
  <2>5. l2 \in TextLines /\ l2 = <<>>
    BY <1>2, EmptyLine
  <2> QED BY <2>1, <2>2, <2>3, <2>4, <2>5
<1>7. PICK a, b, c, d :
        /\ a = <<l1, l2, l3, l4, l5>>
        /\ b = (IF r.interface_name = <<>> THEN <<>> ELSE <<Via(r)>>)
        /\ c = (IF r.host_key_status = <<>> THEN <<>> ELSE <<<<"Host_key:">> \o r.host_key_status>>)
        /\ d = <<<<>>>>
  OBVIOUS
<1>8. Calm(a) /\ Len(a) = 5 /\ a[4] = l4 /\ a[5] = l5
  <2>1. PICK S : S = TextLines
    OBVIOUS
  <2>2. /\ a \in Seq(S) /\ Len(a) = 5
        /\ a[1] = l1 /\ a[2] = l2 /\ a[3] = l3 /\ a[4] = l4 /\ a[5] = l5
    BY <1>6, <1>7, <2>1
  <2>3. ASSUME NEW i \in 1 .. Len(a) PROVE a[i] = <<>> \/ Head(a[i]) # "WARNING:"
    <3>1. i = 1 \/ i = 2 \/ i = 3 \/ i = 4 \/ i = 5
      BY <2>2
    <3> QED BY <1>6, <2>2, <3>1
  <2> QED BY <2>1, <2>2, <2>3 DEF Calm
<1>9. Calm(b)
  BY <1>7, CalmNothing, ViaLine
<1>10. Calm(c)
  BY <1>1, <1>3, <1>7, CalmNothing, CalmWord
<1>11. Calm(d)
  BY <1>7, EmptyLine, CalmOne
<1>12. PICK ab, abc, all : ab = a \o b /\ abc = ab \o c /\ all = abc \o d
  OBVIOUS
<1>13. SshEndpoint(r) = all
  BY <1>2, <1>7, <1>12, Zenon DEF SshEndpoint
<1>14. Calm(ab) /\ Calm(abc) /\ Calm(all)
  BY <1>8, <1>9, <1>10, <1>11, <1>12, CalmJoined
<1>15. Len(all) >= 5 /\ all[4] = a[4] /\ all[5] = a[5]
  <2>1. PICK S : S = TextLines
    OBVIOUS
  <2>2. a \in Seq(S) /\ b \in Seq(S) /\ c \in Seq(S) /\ d \in Seq(S)
    BY <1>8, <1>9, <1>10, <1>11, <2>1 DEF Calm
  <2>3. ASSUME NEW x \in Seq(S), NEW y \in Seq(S), Len(x) >= 5
        PROVE  /\ x \o y \in Seq(S) /\ Len(x \o y) >= 5
               /\ (x \o y)[4] = x[4] /\ (x \o y)[5] = x[5]
    <3>1. 4 \in 1 .. Len(x) /\ 5 \in 1 .. Len(x) /\ Len(x) \in Nat /\ Len(y) \in Nat
      BY <2>3
    <3> QED BY <2>3, <3>1, Joined
  <2>4. ab \in Seq(S) /\ Len(ab) >= 5 /\ ab[4] = a[4] /\ ab[5] = a[5]
    <3>1. Len(a) >= 5
      BY <1>8
    <3> QED BY <1>12, <2>2, <2>3, <3>1
  <2>5. abc \in Seq(S) /\ Len(abc) >= 5 /\ abc[4] = a[4] /\ abc[5] = a[5]
    BY <1>12, <2>2, <2>3, <2>4
  <2> QED BY <1>12, <2>2, <2>3, <2>5
<1> QED BY <1>2, <1>8, <1>13, <1>14, <1>15

(* The table of interfaces. *)
LEMMA BlanksFacts ==
  ASSUME NEW n \in Nat
  PROVE  /\ Blanks(n) \in TextLines /\ Len(Blanks(n)) = n
         /\ \A i \in 1 .. n : Blanks(n)[i] = Blank
<1>1. PICK S, s : S = Letters \cup Phrases \cup {Blank, "WARNING:"} /\ s = Blanks(n)
  OBVIOUS
<1>2. Blank \in S
  BY <1>1
<1>3. s = [i \in 1 .. n |-> Blank]
  BY <1>1, Zenon DEF Blanks
<1>4. s \in Seq(S) /\ Len(s) = n /\ \A i \in 1 .. n : s[i] = Blank
  BY <1>2, <1>3
<1>5. TextLines = Seq(S)
  BY <1>1, Zenon DEF TextLines
<1> QED BY <1>1, <1>4, <1>5

LEMMA WidthFacts ==
  ASSUME NEW r, TypedReport(r), Len(r.interfaces) # 0
  PROVE  /\ width(r.interfaces) \in Nat
         /\ \A i \in 1 .. Len(r.interfaces) : /\ Len(r.interfaces[i].name) \in Nat
                                              /\ Len(r.interfaces[i].name) <= width(r.interfaces)
<1>1. PICK s, n : s = r.interfaces /\ n = Len(s)
  OBVIOUS
<1>2. /\ n \in Nat /\ DOMAIN s = 1 .. n
      /\ \A i \in 1 .. n : Len(s[i].name) \in Nat
  <2>1. /\ n \in Nat /\ DOMAIN s = 1 .. n
        /\ \A i \in 1 .. n : s[i].name \in Seq(Letters)
    BY <1>1 DEF TypedReport
  <2> QED BY <2>1
<1>3. PICK P : P = {k \in 0 .. n : \E b \in Nat : \A i \in 1 .. k : Len(s[i].name) <= b}
  OBVIOUS
<1>4. 0 \in P
  BY <1>2, <1>3
<1>5. ASSUME NEW k \in 0 .. n - 1, k \in P PROVE k + 1 \in P
  <2>1. PICK b \in Nat : \A i \in 1 .. k : Len(s[i].name) <= b
    BY <1>3, <1>5
  <2>2. k + 1 \in 1 .. n /\ k \in Nat
    BY <1>2
  <2>3. PICK m : m = Len(s[k + 1].name)
    OBVIOUS
  <2>4. m \in Nat
    BY <1>2, <2>2, <2>3
  <2>5. b + m \in Nat /\ b <= b + m /\ m <= b + m
    BY <2>1, <2>4
  <2>6. ASSUME NEW i \in 1 .. k + 1 PROVE Len(s[i].name) <= b + m
    <3>1. CASE i \in 1 .. k
      <4>1. i \in 1 .. n
        BY <1>2, <2>2, <3>1
      <4>2. Len(s[i].name) <= b /\ Len(s[i].name) \in Nat
        BY <1>2, <2>1, <3>1, <4>1
      <4> QED BY <2>1, <2>4, <4>2
    <3>2. CASE i = k + 1
      BY <2>3, <2>5, <3>2
    <3> QED BY <2>2, <3>1, <3>2
  <2> QED BY <1>2, <1>3, <2>2, <2>5, <2>6
<1>6. n \in P
  <2>1. \A k \in 0 .. n : k \in P
    BY <1>2, <1>4, <1>5, UpTo
  <2> QED BY <1>2, <2>1
<1>7. PICK b \in Nat : \A i \in 1 .. n : Len(s[i].name) <= b
  BY <1>3, <1>6
<1>8. PICK M : M = {4} \cup {Len(i.name) : i \in Range(s)}
  OBVIOUS
<1>9. \A x \in M : x = 4 \/ \E i \in 1 .. n : x = Len(s[i].name)
  BY <1>2, <1>8 DEF Range
<1>10. \A i \in 1 .. n : Len(s[i].name) \in M
  BY <1>2, <1>8 DEF Range
<1>11. M \subseteq 0 .. b + 4
  <2>1. ASSUME NEW x \in M PROVE x \in 0 .. b + 4
    <3>1. CASE x = 4
      BY <1>7, <3>1
    <3>2. CASE \E i \in 1 .. n : x = Len(s[i].name)
      <4>1. PICK i \in 1 .. n : x = Len(s[i].name)
        BY <3>2
      <4>2. x \in Nat /\ x <= b
        BY <1>2, <1>7, <4>1
      <4> QED BY <1>7, <4>2
    <3> QED BY <1>9, <3>1, <3>2
  <2> QED BY <2>1
<1>12. M # {} /\ b + 4 \in Nat
  BY <1>7, <1>8
<1>13. Max(M) \in M /\ \A y \in M : Max(M) >= y
  BY <1>11, <1>12, MaxFacts
<1>14. width(s) = Max(M)
  BY <1>8, Zenon DEF width
<1>15. Max(M) \in Nat
  <2>1. Max(M) \in 0 .. b + 4
    BY <1>11, <1>13
  <2> QED BY <1>12, <2>1
<1>16. \A i \in 1 .. n : Len(s[i].name) <= Max(M)
  BY <1>2, <1>10, <1>13, <1>15
<1> QED BY <1>1, <1>2, <1>14, <1>15, <1>16

(* A row: the second column starts two blanks after the widest name. *)
LEMMA RowFacts ==
  ASSUME NEW i, NEW w \in Nat, i.name \in Seq(Letters), i.ipv4 \in Seq(Letters),
         Len(i.name) <= w
  PROVE  /\ Row(i, w) \in TextLines /\ Row(i, w) # <<>> /\ Head(Row(i, w)) = Blank
         /\ Len(Row(i, w)) \in Nat /\ w + 4 <= Len(Row(i, w))
<1>1. PICK S : S = Letters \cup Phrases \cup {Blank, "WARNING:"}
  OBVIOUS
<1>2. TextLines = Seq(S)
  BY <1>1, Zenon DEF TextLines
<1>3. PICK n, g : n = Len(i.name) /\ g = w + 2 - n
  OBVIOUS
<1>4. n \in Nat /\ g \in Nat /\ n + g = w + 2 /\ w + 2 - Len(i.name) = g
  BY <1>3
<1>5. PICK a, b, c, d : a = Blanks(2) /\ b = i.name /\ c = Blanks(g) /\ d = i.ipv4
  OBVIOUS
<1>6. a \in Seq(S) /\ Len(a) = 2 /\ a[1] = Blank /\ c \in Seq(S) /\ Len(c) = g
  <2>1. 2 \in Nat /\ 1 \in 1 .. 2
    OBVIOUS
  <2>2. Blanks(2) \in TextLines /\ Len(Blanks(2)) = 2 /\ \A k \in 1 .. 2 : Blanks(2)[k] = Blank
    BY <2>1, BlanksFacts
  <2>3. Blanks(g) \in TextLines /\ Len(Blanks(g)) = g
    BY <1>4, BlanksFacts
  <2> QED BY <1>2, <1>5, <2>1, <2>2, <2>3
<1>7. b \in Seq(S) /\ d \in Seq(S) /\ Len(b) = n /\ Len(d) \in Nat
  <2>1. Seq(Letters) \subseteq Seq(S)
    BY <1>2, LettersInLines
  <2>2. b \in Seq(S) /\ d \in Seq(S) /\ Len(b) = n
    BY <1>3, <1>5, <2>1
  <2> QED BY <2>2
<1>8. PICK ab, abc, all : ab = a \o b /\ abc = ab \o c /\ all = abc \o d
  OBVIOUS
<1>9. Row(i, w) = all
  BY <1>4, <1>5, <1>8, Zenon DEF Row
<1>10. ASSUME NEW x \in Seq(S), NEW y \in Seq(S), Len(x) # 0
       PROVE  /\ x \o y \in Seq(S) /\ Len(x \o y) = Len(x) + Len(y) /\ (x \o y)[1] = x[1]
              /\ Len(x) \in Nat /\ Len(y) \in Nat
  <2>1. Len(x) \in Nat /\ Len(y) \in Nat /\ 1 \in 1 .. Len(x)
    BY <1>10
  <2> QED BY <2>1, Joined
<1>11. ab \in Seq(S) /\ Len(ab) = 2 + n /\ ab[1] = Blank /\ Len(ab) # 0
  <2>1. Len(a) # 0
    BY <1>6
  <2>2. ab \in Seq(S) /\ Len(ab) = Len(a) + Len(b) /\ ab[1] = a[1]
    BY <1>6, <1>7, <1>8, <1>10, <2>1
  <2> QED BY <1>4, <1>6, <1>7, <2>2
<1>15. abc \in Seq(S) /\ Len(abc) = 2 + n + g /\ abc[1] = Blank /\ Len(abc) # 0
  <2>2. abc \in Seq(S) /\ Len(abc) = Len(ab) + Len(c) /\ abc[1] = ab[1]
    BY <1>6, <1>8, <1>10, <1>11
  <2> QED BY <1>4, <1>6, <1>11, <2>2
<1>12. all \in Seq(S) /\ Len(all) = 2 + n + g + Len(d) /\ all[1] = Blank
  <2>2. all \in Seq(S) /\ Len(all) = Len(abc) + Len(d) /\ all[1] = abc[1]
    BY <1>7, <1>8, <1>10, <1>15
  <2> QED BY <1>4, <1>7, <1>15, <2>2
<1>13. Len(all) \in Nat /\ w + 4 <= Len(all)
  BY <1>4, <1>7, <1>12
<1>14. all # <<>> /\ Head(all) = all[1]
  BY <1>12, <1>13
<1> QED BY <1>2, <1>9, <1>12, <1>13, <1>14

LEMMA TableFacts ==
  ASSUME NEW r, TypedReport(r), Len(r.interfaces) # 0
  PROVE  /\ Calm(Table(r.interfaces)) /\ Len(Table(r.interfaces)) = Len(r.interfaces)
         /\ \A i \in 1 .. Len(r.interfaces) :
              Table(r.interfaces)[i] = Row(r.interfaces[i], width(r.interfaces))
         /\ width(r.interfaces) + 4 <= Len(Table(r.interfaces)[1])
         /\ Len(Table(r.interfaces)[1]) \in Nat
<1>1. PICK s, n, w : s = r.interfaces /\ n = Len(s) /\ w = width(s)
  OBVIOUS
<1>2. /\ n \in Nat /\ n # 0 /\ DOMAIN s = 1 .. n
      /\ \A i \in 1 .. n : s[i].name \in Seq(Letters) /\ s[i].ipv4 \in Seq(Letters)
  BY <1>1 DEF TypedReport
<1>3. w \in Nat /\ \A i \in 1 .. n : Len(s[i].name) <= w
  BY <1>1, WidthFacts
<1>4. ASSUME NEW i \in 1 .. n
      PROVE  /\ Row(s[i], w) \in TextLines /\ Row(s[i], w) # <<>> /\ Head(Row(s[i], w)) = Blank
             /\ Len(Row(s[i], w)) \in Nat /\ w + 4 <= Len(Row(s[i], w))
  <2>1. PICK x : x = s[i]
    OBVIOUS
  <2>2. x.name \in Seq(Letters) /\ x.ipv4 \in Seq(Letters) /\ Len(x.name) <= w
    BY <1>2, <1>3, <2>1
  <2> QED BY <1>3, <2>1, <2>2, RowFacts
<1>5. PICK t : t = Table(s)
  OBVIOUS
<1>6. s # <<>>
  BY <1>1, <1>2
<1>7. t = [i \in 1 .. n |-> Row(s[i], w)]
  BY <1>1, <1>2, <1>5, <1>6, Zenon DEF Table
<1>8. t \in Seq(TextLines) /\ Len(t) = n /\ \A i \in 1 .. n : t[i] = Row(s[i], w)
  <2>1. PICK S : S = TextLines
    OBVIOUS
  <2>2. \A i \in 1 .. n : Row(s[i], w) \in S
    BY <1>4, <2>1
  <2>3. t \in Seq(S) /\ Len(t) = n /\ \A i \in 1 .. n : t[i] = Row(s[i], w)
    BY <1>2, <1>7, <2>2
  <2> QED BY <2>1, <2>3
<1>9. Calm(t)
  <2>1. ASSUME NEW i \in 1 .. Len(t) PROVE Head(t[i]) # "WARNING:"
    BY <1>4, <1>8, BlankDiffers
  <2> QED BY <1>8, <2>1 DEF Calm
<1>10. 1 \in 1 .. n
  BY <1>2
<1> QED BY <1>1, <1>4, <1>5, <1>8, <1>9, <1>10

(* The warnings. *)
LEMMA WarnedFacts ==
  ASSUME NEW v, v \in Seq(Seq(Letters)), v # <<>>
  PROVE  /\ Warned(v) \in Seq(TextLines) /\ Len(Warned(v)) = Len(v) + 1 /\ Warned(v)[1] = <<>>
         /\ \A i \in 1 .. Len(v) : Warned(v)[i + 1] = <<"WARNING:">> \o v[i]
<1>1. PICK n, S : n = Len(v) /\ S = TextLines
  OBVIOUS
<1>2. n \in Nat /\ DOMAIN v = 1 .. n /\ \A i \in 1 .. n : v[i] \in Seq(Letters)
  BY <1>1
<1>3. ASSUME NEW i \in 1 .. n PROVE <<"WARNING:">> \o v[i] \in S
  <2>1. v[i] \in TextLines
    BY <1>2, LettersInLines
  <2>2. "WARNING:" \in Phrases \cup {Blank, "WARNING:"}
    OBVIOUS
  <2> QED BY <1>1, <2>1, <2>2, Headed
<1>4. PICK e, t : e = <<<<>>>> /\ t = [i \in 1 .. n |-> <<"WARNING:">> \o v[i]]
  OBVIOUS
<1>5. t \in Seq(S) /\ Len(t) = n /\ \A i \in 1 .. n : t[i] = <<"WARNING:">> \o v[i]
  BY <1>2, <1>3, <1>4
<1>6. e \in Seq(S) /\ Len(e) = 1 /\ e[1] = <<>>
  BY <1>1, <1>4, EmptyLine
<1>7. PICK x : x = e \o t
  OBVIOUS
<1>8. Warned(v) = x
  BY <1>2, <1>4, <1>7, Zenon DEF Warned
<1>9. /\ x \in Seq(S) /\ Len(x) = Len(e) + Len(t)
      /\ \A i \in 1 .. Len(e) : x[i] = e[i]
      /\ \A i \in 1 .. Len(t) : x[Len(e) + i] = t[i]
  <2>1. e \in Seq(S) /\ t \in Seq(S)
    BY <1>5, <1>6
  <2> QED BY <1>7, <2>1, Joined
<1>10. x[1] = <<>> /\ Len(x) = n + 1
  BY <1>2, <1>5, <1>6, <1>9
<1>11. ASSUME NEW i \in 1 .. n PROVE x[i + 1] = <<"WARNING:">> \o v[i]
  <2>1. x[1 + i] = t[i] /\ 1 + i = i + 1
    BY <1>2, <1>5, <1>6, <1>9
  <2> QED BY <1>5, <2>1
<1> QED BY <1>1, <1>8, <1>9, <1>10, <1>11

(* All lines but the warnings, and where the table is among them. *)
Body(r) ==
  (IF r.ssh_ip = <<>> THEN <<>> ELSE SshEndpoint(r))
    \o <<<<"Network_interfaces:">>>> \o Table(r.interfaces)

LEMMA TextBody ==
  ASSUME NEW r, TypedReport(r), Len(r.interfaces) # 0
  PROVE  /\ Calm(Body(r))
         /\ \E top \in 1 .. Len(Body(r)) :
              /\ Body(r)[top] = <<"Network_interfaces:">>
              /\ top + Len(r.interfaces) = Len(Body(r))
              /\ \A i \in 1 .. Len(r.interfaces) : Body(r)[top + i] = Table(r.interfaces)[i]
         /\ r.ssh_ip # <<>> => \E i, k \in 1 .. Len(Body(r)) :
              Body(r)[i] = <<"IP:">> \o r.ssh_ip /\ Body(r)[k] = <<"Banner:">> \o r.ssh_banner
<1>0. PICK body : body = Body(r)
  OBVIOUS
<1>1. PICK a, h, t, S : /\ a = (IF r.ssh_ip = <<>> THEN <<>> ELSE SshEndpoint(r))
                        /\ h = <<<<"Network_interfaces:">>>> /\ t = Table(r.interfaces)
                        /\ S = TextLines
  OBVIOUS
<1>2. Calm(a) /\ (r.ssh_ip # <<>> => /\ Len(a) >= 5 /\ a[4] = <<"IP:">> \o r.ssh_ip
                                     /\ a[5] = <<"Banner:">> \o r.ssh_banner)
  <2>1. CASE r.ssh_ip = <<>>
    BY <1>1, <2>1, CalmNothing
  <2>2. CASE r.ssh_ip # <<>>
    <3>1. a = SshEndpoint(r)
      BY <1>1, <2>2
    <3> QED BY <3>1, EndpointLines
  <2> QED BY <2>1, <2>2
<1>3. Calm(h)
  <2>1. PICK w : w = <<"Network_interfaces:">>
    OBVIOUS
  <2>2. "Network_interfaces:" \in Phrases
    BY DEF Phrases
  <2>3. w \in TextLines /\ Head(w) = "Network_interfaces:"
    <3>1. "Network_interfaces:" \in Letters \cup Phrases \cup {Blank, "WARNING:"}
      BY <2>2
    <3> QED BY <2>1, <3>1 DEF TextLines
  <2> QED BY <1>1, <2>1, <2>3, CalmOne
<1>4. PICK n : n = Len(r.interfaces)
  OBVIOUS
<1>5. /\ Calm(t) /\ Len(t) = n
  BY <1>1, <1>4, TableFacts
<1>6. PICK ah : ah = a \o h
  OBVIOUS
<1>7. body = ah \o t
  BY <1>0, <1>1, <1>6, Zenon DEF Body
<1>8. Calm(ah) /\ Calm(body)
  BY <1>2, <1>3, <1>5, <1>6, <1>7, CalmJoined
<1>9. /\ a \in Seq(S) /\ h \in Seq(S) /\ t \in Seq(S) /\ ah \in Seq(S)
  BY <1>1, <1>2, <1>3, <1>5, <1>8 DEF Calm
<1>10. Len(h) = 1 /\ h[1] = <<"Network_interfaces:">> /\ Len(a) \in Nat /\ n \in Nat
  BY <1>1, <1>5, <1>9
<1>11. /\ Len(ah) = Len(a) + 1 /\ ah[Len(a) + 1] = h[1]
       /\ \A i \in 1 .. Len(a) : ah[i] = a[i]
  <2>1. /\ Len(ah) = Len(a) + Len(h)
        /\ \A i \in 1 .. Len(a) : ah[i] = a[i]
        /\ \A i \in 1 .. Len(h) : ah[Len(a) + i] = h[i]
    BY <1>6, <1>9, Joined
  <2> QED BY <1>10, <2>1
<1>12. /\ Len(body) = Len(ah) + Len(t)
       /\ \A i \in 1 .. Len(ah) : body[i] = ah[i]
       /\ \A i \in 1 .. Len(t) : body[Len(ah) + i] = t[i]
  <2>1. ah \in Seq(S) /\ t \in Seq(S)
    BY <1>9
  <2> QED BY <1>7, <2>1, Joined
<1>13. PICK top : top = Len(a) + 1
  OBVIOUS
<1>14. /\ top \in 1 .. Len(body) /\ body[top] = <<"Network_interfaces:">>
       /\ top + n = Len(body)
       /\ \A i \in 1 .. n : body[top + i] = t[i]
  <2>1. Len(ah) = Len(a) + 1 /\ Len(body) = Len(a) + 1 + n
    BY <1>5, <1>11, <1>12
  <2>2. top \in 1 .. Len(ah) /\ top \in 1 .. Len(body) /\ top + n = Len(body)
    BY <1>10, <1>13, <2>1
  <2>3. body[top] = h[1]
    BY <1>11, <1>12, <1>13, <2>2
  <2>4. \A i \in 1 .. n : body[top + i] = t[i]
    BY <1>5, <1>12, <1>13, <2>1
  <2> QED BY <1>10, <2>2, <2>3, <2>4
<1>15. ASSUME r.ssh_ip # <<>>
       PROVE  \E i, k \in 1 .. Len(body) :
                body[i] = <<"IP:">> \o r.ssh_ip /\ body[k] = <<"Banner:">> \o r.ssh_banner
  <2>1. Len(a) >= 5 /\ a[4] = <<"IP:">> \o r.ssh_ip /\ a[5] = <<"Banner:">> \o r.ssh_banner
    BY <1>2, <1>15
  <2>2. /\ 4 \in 1 .. Len(body) /\ 5 \in 1 .. Len(body)
        /\ body[4] = a[4] /\ body[5] = a[5]
    <3>1. 4 \in 1 .. Len(a) /\ 5 \in 1 .. Len(a) /\ 4 \in 1 .. Len(ah) /\ 5 \in 1 .. Len(ah)
      BY <1>10, <1>11, <2>1
    <3>2. Len(body) = Len(a) + 1 + n
      BY <1>5, <1>11, <1>12
    <3>3. 4 \in 1 .. Len(body) /\ 5 \in 1 .. Len(body)
      BY <1>10, <2>1, <3>2
    <3> QED BY <1>11, <1>12, <3>1, <3>3
  <2> QED BY <2>1, <2>2, Zenon
<1> QED BY <1>0, <1>1, <1>4, <1>8, <1>14, <1>15

(* The text report reads back: the second column of the table is at one    *)
(* place in every row, and the warnings come last (format_text).           *)
THEOREM TextReadsBack ==
  ASSUME NEW r, TypedReport(r), Len(r.interfaces) # 0, r.warnings \in Seq(Seq(Letters))
  PROVE  TextSays(format_text(r), r)
<1>1. PICK s, n, w, column : s = r.interfaces /\ n = Len(s) /\ w = width(s) /\ column = w + 4
  OBVIOUS
<1>2. /\ n \in Nat /\ n # 0 /\ DOMAIN s = 1 .. n
  BY <1>1 DEF TypedReport
<1>3. w \in Nat /\ \A i \in 1 .. n : Len(s[i].name) \in Nat /\ Len(s[i].name) <= w
  BY <1>1, WidthFacts
<1>4. PICK body, tail, S : body = Body(r) /\ tail = Warned(r.warnings) /\ S = TextLines
  OBVIOUS
<1>5. /\ Calm(body)
      /\ \E top \in 1 .. Len(body) :
           /\ body[top] = <<"Network_interfaces:">> /\ top + n = Len(body)
           /\ \A i \in 1 .. n : body[top + i] = Table(s)[i]
      /\ r.ssh_ip # <<>> => \E i, k \in 1 .. Len(body) :
           body[i] = <<"IP:">> \o r.ssh_ip /\ body[k] = <<"Banner:">> \o r.ssh_banner
  BY <1>1, <1>4, TextBody
<1>6. PICK x : x = body \o tail
  OBVIOUS
<1>7. format_text(r) = x
  BY <1>1, <1>4, <1>6, Zenon DEF format_text, Body
<1>8. PICK m, v : m = Len(r.warnings) /\ v = r.warnings
  OBVIOUS
<1>9. m \in Nat /\ DOMAIN v = 1 .. m /\ v \in Seq(Seq(Letters))
  BY <1>8
<1>10. PICK before : before = Len(x) - m
  OBVIOUS
<1>11. body \in Seq(S) /\ Len(body) \in Nat /\ \A i \in 1 .. Len(body) : body[i] = <<>> \/ Head(body[i]) # "WARNING:"
  BY <1>4, <1>5 DEF Calm
<1>12. /\ x \in Seq(S) /\ Len(x) \in Nat /\ before \in Nat /\ Len(body) <= before /\ before <= Len(x)
       /\ \A i \in 1 .. Len(body) : x[i] = body[i]
       /\ \A i \in 1 .. m : x[before + i] = <<"WARNING:">> \o v[i]
       /\ \A i \in 1 .. before : x[i] = <<>> \/ Head(x[i]) # "WARNING:"
  <2>1. CASE v = <<>>
    <3>1. m = 0 /\ tail = <<>>
      <4>1. tail = <<>>
        BY <1>4, <1>8, <2>1, Zenon DEF Warned
      <4> QED BY <1>8, <2>1, <4>1
    <3>2. x = body
      BY <1>6, <1>11, <3>1
    <3> QED BY <1>10, <1>11, <3>1, <3>2
  <2>2. CASE v # <<>>
    <3>1. /\ tail \in Seq(S) /\ Len(tail) = m + 1 /\ tail[1] = <<>>
          /\ \A i \in 1 .. m : tail[i + 1] = <<"WARNING:">> \o v[i]
      BY <1>4, <1>8, <1>9, <2>2, WarnedFacts
    <3>2. /\ x \in Seq(S) /\ Len(x) = Len(body) + Len(tail)
          /\ \A i \in 1 .. Len(body) : x[i] = body[i]
          /\ \A i \in 1 .. Len(tail) : x[Len(body) + i] = tail[i]
      <4>1. body \in Seq(S) /\ tail \in Seq(S)
        BY <1>11, <3>1
      <4> QED BY <1>6, <4>1, Joined
    <3>3. before = Len(body) + 1 /\ Len(x) = Len(body) + 1 + m
      BY <1>9, <1>10, <1>11, <3>1, <3>2
    <3>4. ASSUME NEW i \in 1 .. m PROVE x[before + i] = <<"WARNING:">> \o v[i]
      <4>1. i + 1 \in 1 .. Len(tail) /\ before + i = Len(body) + (i + 1)
        BY <1>9, <1>11, <3>1, <3>3
      <4> QED BY <3>1, <3>2, <4>1
    <3>5. x[before] = <<>>
      <4>1. 1 \in 1 .. Len(tail)
        BY <1>9, <3>1
      <4> QED BY <3>1, <3>2, <3>3, <4>1
    <3>6. ASSUME NEW i \in 1 .. before PROVE x[i] = <<>> \/ Head(x[i]) # "WARNING:"
      <4>1. i \in 1 .. Len(body) \/ i = before
        BY <1>11, <3>3
      <4>2. ASSUME i \in 1 .. Len(body) PROVE x[i] = <<>> \/ Head(x[i]) # "WARNING:"
        <5>1. x[i] = body[i]
          BY <3>2, <4>2
        <5> QED BY <1>11, <4>2, <5>1
      <4> QED BY <3>5, <4>1, <4>2
    <3>7. before \in Nat /\ Len(x) \in Nat /\ Len(body) <= before /\ before <= Len(x)
      <4>1. PICK l, k : l = Len(body) /\ k = Len(x)
        OBVIOUS
      <4>2. l \in Nat /\ m \in Nat /\ before = l + 1 /\ k = l + 1 + m
        BY <1>9, <1>11, <3>3, <4>1
      <4>3. before \in Nat /\ k \in Nat /\ l <= before /\ before <= k
        BY <4>2
      <4> QED BY <4>1, <4>3
    <3> QED BY <3>2, <3>4, <3>6, <3>7
  <2> QED BY <2>1, <2>2
<1>13. PICK top \in 1 .. Len(body) :
         /\ body[top] = <<"Network_interfaces:">> /\ top + n = Len(body)
         /\ \A i \in 1 .. n : body[top + i] = Table(s)[i]
  BY <1>5
<1>14. /\ \A i \in 1 .. n : Table(s)[i] = Row(s[i], w)
       /\ column <= Len(Table(s)[1]) /\ Len(Table(s)[1]) \in Nat
  BY <1>1, TableFacts
<1>15. DOMAIN x = 1 .. Len(x)
  BY <1>12
<1>16. /\ top \in DOMAIN x /\ x[top] = <<"Network_interfaces:">>
       /\ column \in 0 .. Len(x[top + 1])
       /\ top + n <= before
  <2>1. 1 \in 1 .. n /\ top \in Nat
    BY <1>2, <1>11, <1>13
  <2>2. top + 1 \in 1 .. Len(body)
    BY <1>2, <1>11, <1>13, <2>1
  <2>3. x[top + 1] = Table(s)[1]
    BY <1>12, <1>13, <2>1, <2>2
  <2>4. top \in 1 .. Len(x)
    BY <1>11, <1>12, <1>13
  <2>5. column \in Nat
    BY <1>1, <1>3
  <2> QED BY <1>11, <1>12, <1>13, <1>14, <1>15, <2>3, <2>4, <2>5
<1>17. ASSUME NEW i \in 1 .. n
       PROVE  \E gap \in 2 .. column :
                /\ Len(s[i].name) + 2 + gap = column
                /\ x[top + i] = Blanks(2) \o s[i].name \o Blanks(gap) \o s[i].ipv4
  <2>1. PICK gap : gap = w + 2 - Len(s[i].name)
    OBVIOUS
  <2>2. gap \in 2 .. column /\ Len(s[i].name) + 2 + gap = column
    <3>1. PICK k : k = Len(s[i].name)
      OBVIOUS
    <3>2. k \in Nat /\ k <= w /\ w \in Nat /\ gap = w + 2 - k /\ column = w + 4
      BY <1>1, <1>3, <2>1, <3>1
    <3>3. gap \in 2 .. column /\ k + 2 + gap = column
      BY <3>2
    <3> QED BY <3>1, <3>3
  <2>3. Row(s[i], w) = Blanks(2) \o s[i].name \o Blanks(gap) \o s[i].ipv4
    BY <2>1, Zenon DEF Row
  <2>4. top + i \in 1 .. Len(body)
    BY <1>2, <1>11, <1>13
  <2>5. x[top + i] = Row(s[i], w)
    BY <1>12, <1>13, <1>14, <2>4
  <2> QED BY <2>2, <2>3, <2>5
<1>18. ASSUME r.ssh_ip # <<>>
       PROVE  Contains(x, <<"IP:">> \o r.ssh_ip) /\ Contains(x, <<"Banner:">> \o r.ssh_banner)
  <2>1. PICK i, k \in 1 .. Len(body) :
          body[i] = <<"IP:">> \o r.ssh_ip /\ body[k] = <<"Banner:">> \o r.ssh_banner
    BY <1>5, <1>18
  <2>2. i \in 1 .. Len(x) /\ k \in 1 .. Len(x) /\ x[i] = body[i] /\ x[k] = body[k]
    BY <1>11, <1>12
  <2> QED BY <2>1, <2>2, Zenon DEF Contains
<1>19. /\ \E t \in DOMAIN x : \E c \in 0 .. Len(x[t + 1]) :
            /\ x[t] = <<"Network_interfaces:">>
            /\ \A i \in DOMAIN r.interfaces : \E gap \in 2 .. c :
                 /\ Len(r.interfaces[i].name) + 2 + gap = c
                 /\ x[t + i] = Blanks(2) \o r.interfaces[i].name \o Blanks(gap)
                                \o r.interfaces[i].ipv4
            /\ t + Len(r.interfaces) <= Len(x) - Len(r.warnings)
  <2>1. \A i \in DOMAIN r.interfaces : i \in 1 .. n
    BY <1>1, <1>2
  <2> QED BY <1>1, <1>8, <1>10, <1>16, <1>17, <2>1, Zenon
<1>20. \A i \in DOMAIN r.warnings :
         x[Len(x) - Len(r.warnings) + i] = <<"WARNING:">> \o r.warnings[i]
  BY <1>8, <1>9, <1>10, <1>12
<1>21. \A i \in 1 .. Len(x) - Len(r.warnings) : x[i] = <<>> \/ Head(x[i]) # "WARNING:"
  BY <1>8, <1>10, <1>12
<1>22. TextSays(x, r)
  BY <1>18, <1>19, <1>20, <1>21, Zenon DEF TextSays
<1> QED BY <1>7, <1>22

-----------------------------------------------------------------------------
(* Whatever is emitted reads back as what the device has.                  *)

(* Names and addresses are texts. *)
LEMMA SpelledFacts ==
  ASSUME NEW d \in Devices
  PROVE  \A x \in 1 .. Len(Has(d)) : /\ Spelling(Has(d)[x][1]) \in Seq(Letters)
                                     /\ Spelling(Has(d)[x][2]) \in Seq(Letters)
<1>1. PICK at : Starts(at, Pairs(d), Has(d))
  BY HasFacts
<1>2. "ip" \in Formats
  BY DEF Formats
<1>3. /\ DOMAIN d = 1 .. Len(d)
      /\ \A b \in 1 .. Len(d) : DOMAIN d[b].addresses = 1 .. Len(d[b].addresses)
  BY <1>2, DeviceFacts, IfaceFacts
<1>4. \A b \in DOMAIN d : /\ Spelling(d[b].name) \in Seq(STRING)
                          /\ \A a \in Range(d[b].addresses) : Spelling(a) \in Seq(STRING)
  BY TextAssumption, Zenon
<1>5. Seq(STRING) \subseteq Seq(Letters)
  <2>1. STRING \subseteq Letters
    BY DEF Letters
  <2> QED BY <2>1, MoreElements
<1>6. ASSUME NEW x \in 1 .. Len(Has(d))
      PROVE  /\ Spelling(Has(d)[x][1]) \in Seq(Letters)
             /\ Spelling(Has(d)[x][2]) \in Seq(Letters)
  <2>1. PICK b \in 1 .. Len(d) : \E j \in 1 .. Len(d[b].addresses) :
          x = at[b] + j /\ Has(d)[x] = <<d[b].name, d[b].addresses[j]>>
    BY <1>1, HasElement
  <2>2. PICK j \in 1 .. Len(d[b].addresses) : Has(d)[x] = <<d[b].name, d[b].addresses[j]>>
    BY <2>1
  <2>3. b \in DOMAIN d /\ j \in DOMAIN d[b].addresses
    BY <1>3
  <2>4. d[b].addresses[j] \in Range(d[b].addresses)
    BY <2>3, Zenon DEF Range
  <2>5. Spelling(d[b].name) \in Seq(STRING) /\ Spelling(d[b].addresses[j]) \in Seq(STRING)
    BY <1>4, <2>3, <2>4, Zenon
  <2>6. Has(d)[x][1] = d[b].name /\ Has(d)[x][2] = d[b].addresses[j]
    BY <2>2
  <2>7. Spelling(Has(d)[x][1]) = Spelling(d[b].name)
    BY <2>6, Zenon
  <2>8. Spelling(Has(d)[x][2]) = Spelling(d[b].addresses[j])
    BY <2>6, Zenon
  <2> QED BY <1>5, <2>5, <2>7, <2>8
<1> QED BY <1>6

LEMMA WarningsFacts ==
  ASSUME NEW d \in Devices
  PROVE  Warnings(Has(d)) \in Seq(Seq(Letters))
<1>1. Len(Has(d)) \in Nat
  <2>1. Has(d) \in Seq(AllPairs)
    BY HasFacts
  <2> QED BY <2>1
<1>2. PICK n, t : n = Len(Has(d)) /\ t = ToString(n)
  OBVIOUS
<1>3. t \in Letters
  <2>1. t \in {ToString(k) : k \in Nat}
    BY <1>1, <1>2, Zenon
  <2> QED BY <2>1 DEF Letters
<1>4. "expected_two_network_interfaces_but_found" \in Letters
  BY DEF Letters
<1>5. PICK w : w = <<"expected_two_network_interfaces_but_found", t>>
  OBVIOUS
<1>6. w \in Seq(Letters)
  BY <1>3, <1>4, <1>5
<1>7. <<w>> \in Seq(Seq(Letters)) /\ <<>> \in Seq(Seq(Letters))
  BY <1>6
<1>8. Warnings(Has(d)) = <<>> \/ Warnings(Has(d)) = <<w>>
  BY <1>2, <1>5, Zenon DEF Warnings
<1> QED BY <1>7, <1>8

LEMMA EndpointFacts ==
  ASSUME NEW endpoint \in {MockReport} \cup Endpoints
  PROVE  /\ endpoint.ssh_ip \in Seq(Letters) /\ endpoint.ssh_banner \in Seq(Letters)
         /\ endpoint.interface_name \in Seq(Letters) /\ endpoint.discovery_stage \in Seq(Letters)
         /\ endpoint.host_key_status \in Seq(Letters)
<1>1. Seq(STRING) \subseteq Seq(Letters)
  <2>1. STRING \subseteq Letters
    BY DEF Letters
  <2> QED BY <2>1, MoreElements
<1>2. CASE endpoint = MockReport
  <2>1. "mock" \in Letters
    BY DEF Letters
  <2>2. <<>> \in Seq(Letters) /\ <<"mock">> \in Seq(Letters)
    BY <2>1
  <2> QED BY <1>2, <2>2 DEF MockReport
<1>3. CASE endpoint \in Endpoints
  <2>1. endpoint \in [interface_name : Seq(STRING), ssh_ip : Seq(STRING),
                      ssh_banner : Seq(STRING), host_key_status : Seq(STRING),
                      discovery_stage : Seq(STRING)]
    BY <1>3, TextAssumption
  <2> QED BY <1>1, <2>1
<1> QED BY <1>2, <1>3

(* A report on a device is one the two formats can show. *)
LEMMA DiscoveryReportFacts ==
  ASSUME NEW d \in Devices, NEW endpoint \in {MockReport} \cup Endpoints, NEW r,
         r = DiscoveryReport(endpoint, Interfaces(Has(d)), Warnings(Has(d)))
  PROVE  /\ TypedReport(r) /\ r.warnings \in Seq(Seq(Letters))
         /\ Len(r.interfaces) = Len(Has(d))
         /\ DiscoveryReport(r, Interfaces(Has(d)), Warnings(Has(d))) = r
<1>1. PICK p, n, s, w : p = Has(d) /\ n = Len(p) /\ s = Interfaces(p) /\ w = Warnings(p)
  OBVIOUS
<1>2. n \in Nat /\ DOMAIN p = 1 .. n
  <2>1. p \in Seq(AllPairs)
    BY <1>1, HasFacts
  <2> QED BY <1>1, <2>1
<1>3. s = [i \in 1 .. n |-> [name |-> Spelling(p[i][1]), ipv4 |-> Spelling(p[i][2])]]
  BY <1>1, <1>2, Zenon DEF Interfaces
<1>4. ASSUME NEW i \in 1 .. n PROVE s[i].name \in Seq(Letters) /\ s[i].ipv4 \in Seq(Letters)
  <2>1. Spelling(p[i][1]) \in Seq(Letters) /\ Spelling(p[i][2]) \in Seq(Letters)
    BY <1>1, SpelledFacts
  <2>2. PICK x, y : x = Spelling(p[i][1]) /\ y = Spelling(p[i][2])
    OBVIOUS
  <2>3. s[i] = [name |-> x, ipv4 |-> y]
    BY <1>3, <2>2, Zenon
  <2> QED BY <2>1, <2>2, <2>3
<1>5. Len(s) = n /\ DOMAIN s = 1 .. n
  BY <1>2, <1>3
<1>6. w \in Seq(Seq(Letters))
  BY <1>1, WarningsFacts
<1>7. /\ Len(w) \in Nat /\ DOMAIN w = 1 .. Len(w)
      /\ \A i \in 1 .. Len(w) : w[i] \in Seq(Letters)
  BY <1>6
<1>8. /\ r.ssh_ip = endpoint.ssh_ip /\ r.ssh_banner = endpoint.ssh_banner
      /\ r.interface_name = endpoint.interface_name
      /\ r.discovery_stage = endpoint.discovery_stage
      /\ r.host_key_status = endpoint.host_key_status
      /\ r.interfaces = s /\ r.warnings = w
  BY <1>1 DEF DiscoveryReport
<1>9. TypedReport(r)
  BY <1>2, <1>4, <1>5, <1>7, <1>8, EndpointFacts DEF TypedReport
<1>10. DiscoveryReport(r, s, w) = r
  BY <1>1, <1>8 DEF DiscoveryReport
<1> QED BY <1>1, <1>5, <1>6, <1>8, <1>9, <1>10

(* Text and JSON say what the device has and where it was found: emit(),   *)
(* json_escape(), the padding of the table.                                *)
THEOREM ReportReads ==
  ASSUME FilesAreIfconfig
  PROVE  Spec => []ReportReadsBack
<1>1. ASSUME IInv, exit_code # "none"
      PROVE  LET meant == DiscoveryReport(report, Interfaces(Has(device)), Warnings(Has(device)))
             IN  IF Has(device) = <<>> THEN out = <<>>
                 ELSE IF json THEN JsonSays(out, meant)
                 ELSE TextSays(out, meant)
  <2>1. state.interfaces = Has(device) /\ device \in Devices
    BY <1>1, ParsedFacts DEF IInv, ReportInv, InputInv
  <2>2. PICK endpoint \in {MockReport} \cup Endpoints :
          /\ report = DiscoveryReport(endpoint, Interfaces(Has(device)), Warnings(Has(device)))
          /\ out = IF Has(device) = <<>> THEN <<>>
                   ELSE IF json THEN format_json(report) ELSE format_text(report)
    BY <1>1, <2>1, Zenon DEF IInv, ReportInv
  <2>3. PICK r : r = report
    OBVIOUS
  <2>4. /\ TypedReport(r) /\ r.warnings \in Seq(Seq(Letters))
        /\ Len(r.interfaces) = Len(Has(device))
        /\ DiscoveryReport(r, Interfaces(Has(device)), Warnings(Has(device))) = r
    BY <2>1, <2>2, <2>3, DiscoveryReportFacts
  <2>5. CASE Has(device) = <<>>
    BY <2>2, <2>5
  <2>6. CASE Has(device) # <<>>
    <3>1. Len(r.interfaces) # 0
      <4>1. Has(device) \in Seq(AllPairs)
        BY <2>1, HasFacts
      <4> QED BY <2>4, <2>6, <4>1, LengthZero
    <3>2. JsonSays(format_json(r), r) /\ TextSays(format_text(r), r)
      BY <2>4, <3>1, JsonReadsBack, TextReadsBack
    <3> QED BY <2>2, <2>3, <2>4, <2>6, <3>2, Zenon
  <2> QED BY <2>5, <2>6
<1>2. IInv => ReportReadsBack
  BY <1>1, Zenon DEF ReportReadsBack
<1> QED BY <1>2, Invariance, PTL
=============================================================================
