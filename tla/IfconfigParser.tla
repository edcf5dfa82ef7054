--------------------------- MODULE IfconfigParser ---------------------------
(***************************************************************************)
(* The two parsers of src/parser/ifconfig_parser.cpp, as operators on      *)
(* lines.  A line is a sequence of words, indented or not.  A word is a    *)
(* record [kind, val]:                                                     *)
(*   kind "name"    an interface name or number; val is what remains when  *)
(*                  a trailing ":" and anything after "@" are cut          *)
(*   kind "inet"    the word inet                                          *)
(*   kind "ipv4"    an address, with or without "/" and a prefix length    *)
(*   kind "addr:"   "addr:" and an address, or NoAddress when none follows *)
(*                  or what follows is not IPv4                            *)
(*   kind "number"  starts with a digit, in a line that has a ":"          *)
(*   kind "word"    anything else                                          *)
(***************************************************************************)
EXTENDS Naturals, SequencesExt, FiniteSetsExt

CONSTANT NoAddress

NoName == ""

is_loopback_interface_name(name) == name \in {"lo", "lo0"}

(* The first word that is "inet" or starts with "addr:" decides: the       *)
(* address is the next word, or the rest of this one, or there is none.    *)
extract_inet_address(words) ==
  LET marks == {i \in DOMAIN words : words[i].kind \in {"inet", "addr:"}}
      i     == Min(marks)
  IN  IF marks = {} THEN NoAddress
      ELSE IF words[i].kind = "addr:" THEN words[i].val
      ELSE IF i < Len(words) /\ words[i + 1].kind \in {"ipv4", "addr:"}
        THEN words[i + 1].val
      ELSE NoAddress

(* Mutant: loopback interfaces are kept. *)
append_any(interfaces, name, ipv4) ==
  IF name = NoName \/ ipv4 = NoAddress \/ Contains(interfaces, <<name, ipv4>>)
    THEN interfaces
  ELSE Append(interfaces, <<name, ipv4>>)

append(interfaces, name, ipv4) ==
  IF \/ name = NoName \/ ipv4 = NoAddress
     \/ is_loopback_interface_name(name)
     \/ Contains(interfaces, <<name, ipv4>>)
    THEN interfaces
  ELSE Append(interfaces, <<name, ipv4>>)

(* The state of a parser between two lines. *)
Begin == [current |-> NoName, interfaces |-> <<>>]

(* One turn of the loop of parse_ifconfig_output(): a line that is not     *)
(* indented begins the block of its first word, and is itself searched.    *)
IfconfigLine(p, line) ==
  IF line.words = <<>> THEN p
  ELSE LET current == IF line.indented THEN p.current ELSE line.words[1].val
       IN  [current    |-> current,
            interfaces |-> append(p.interfaces, current,
                                  extract_inet_address(line.words))]

(* Mutant: the line that names an interface does not end the one before. *)
IpAddrLineKeeping(p, line) ==
  IF line.words = <<>> THEN p
  ELSE IF line.words[1].kind = "number" /\ p.current = NoName
    THEN [p EXCEPT !.current = line.words[2].val]
  ELSE [p EXCEPT !.interfaces = append(@, p.current,
                                       extract_inet_address(line.words))]

(* One turn of the loop of parse_ip_addr_output(): a numbered line names   *)
(* the interface in its second word and is not searched.                   *)
IpAddrLine(p, line) ==
  IF line.words = <<>> THEN p
  ELSE IF line.words[1].kind = "number"
    THEN [p EXCEPT !.current = IF Len(line.words) > 1 THEN line.words[2].val
                               ELSE NoName]
  ELSE [p EXCEPT !.interfaces = append(@, p.current,
                                       extract_inet_address(line.words))]

parse_ifconfig_output(lines) == FoldLeft(IfconfigLine, Begin, lines).interfaces

parse_ip_addr_output(lines) == FoldLeft(IpAddrLine, Begin, lines).interfaces

(* How run() and run_mock_mode() of src/main.cpp end with what was parsed. *)
ReportCode(interfaces) ==
  CASE interfaces = <<>>     -> "kParseFailed"
    [] Len(interfaces) = 2   -> "kSuccess"
    [] OTHER                 -> "kUnexpectedInterfaceCount"

-----------------------------------------------------------------------------
(* What the commands print for a device, as in samples/ and the tests.  A  *)
(* device is a sequence of records [name, loopback, addresses, inet6].     *)

Word(kind, val) == [kind |-> kind, val |-> val]

Line(indented, words) == [indented |-> indented, words |-> words]

Other == Word("word", NoName)

(* A header, a line for each address and the rest. *)
Block(header, iface, kind, rest) ==
  <<header>>
    \o [i \in DOMAIN iface.addresses |->
          Line(TRUE, <<Word("inet", "inet"), Word(kind, iface.addresses[i]), Other>>)]
    \o rest

Optional(lines, given) == IF given THEN lines ELSE <<>>

(* net-tools: "eth0: flags=...", "inet A netmask ..." and "inet6 ..." *)
NetTools(iface) ==
  Block(Line(FALSE, <<Word("name", iface.name), Other>>), iface, "ipv4",
        Optional(<<Line(TRUE, <<Other, Other>>)>>, iface.inet6)
          \o <<Line(TRUE, <<Other>>), Line(FALSE, <<>>)>>)

(* BusyBox and older net-tools: "inet addr:A  Bcast:..." and "inet6 addr:  *)
(* ...", where a blank follows "addr:".                                    *)
BusyBox(iface) ==
  Block(Line(FALSE, <<Word("name", iface.name), Other>>), iface, "addr:",
        Optional(<<Line(TRUE, <<Other, Word("addr:", NoAddress), Other>>)>>, iface.inet6)
          \o <<Line(TRUE, <<Other>>), Line(FALSE, <<>>)>>)

(* "2: eth0: <...>" and "inet A/24 brd ..."; -4 leaves out inet6. *)
IpAddr(iface) ==
  Block(Line(FALSE, <<Word("number", "2"), Word("name", iface.name), Other>>),
        iface, "ipv4", <<>>)

Blocks(device, format) ==
  [i \in DOMAIN device |-> IF format = "ip" THEN IpAddr(device[i])
                           ELSE IF format = "busybox" THEN BusyBox(device[i])
                           ELSE NetTools(device[i])]

Printed(device, format) == FlattenSeq(Blocks(device, format))

(* The pairs of interface and address a device has, without loopback. *)
Pairs(device) ==
  [i \in DOMAIN device |->
     IF device[i].loopback THEN <<>>
     ELSE [k \in DOMAIN device[i].addresses |-> <<device[i].name, device[i].addresses[k]>>]]

Has(device) == FlattenSeq(Pairs(device))
=============================================================================
