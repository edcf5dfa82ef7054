----------------------------- MODULE Formatter ------------------------------
(***************************************************************************)
(* The report: json_escape(), format_json() and format_text() of           *)
(* src/output/formatter.cpp, as operators.  A text is a sequence of        *)
(* characters, of which the code tells apart the quote, the backslash,     *)
(* line feed, carriage return, tab and the other control characters.       *)
(* Fixed text is one symbol.  Blanks and line breaks between the elements  *)
(* of JSON are left out.  The text report is a sequence of lines: where    *)
(* they end is given, since format_text() escapes nothing.                 *)
(***************************************************************************)
EXTENDS Naturals, SequencesExt, FiniteSetsExt

CONSTANT Hex   \* function from the other control characters to four digits

Quote     == "\""
Backslash == "\\"
LineFeed  == "\n"
Return    == "\r"
Tab       == "\t"

Keys == {"ssh_ip", "ssh_banner", "local_interface", "discovery_stage",
         "host_key_status", "interfaces", "warnings", "name", "ipv4"}

ASSUME HexAssumption ==
  /\ DOMAIN Hex \cap ({Quote, Backslash, LineFeed, Return, Tab} \cup Keys) = {}
  /\ \A c, d \in DOMAIN Hex : Hex[c] = Hex[d] => c = d

(* Mutant: backslashes are not escaped. *)
EscapedButBackslash(c) ==
  CASE c = Quote    -> <<Backslash, c>>
    [] c = LineFeed -> <<Backslash, "n">>
    [] c = Return   -> <<Backslash, "r">>
    [] c = Tab      -> <<Backslash, "t">>
    [] c \in DOMAIN Hex -> <<Backslash, "u", Hex[c]>>
    [] OTHER -> <<c>>

Escaped(c) ==
  CASE c \in {Quote, Backslash} -> <<Backslash, c>>
    [] c = LineFeed -> <<Backslash, "n">>
    [] c = Return   -> <<Backslash, "r">>
    [] c = Tab      -> <<Backslash, "t">>
    [] c \in DOMAIN Hex -> <<Backslash, "u", Hex[c]>>
    [] OTHER -> <<c>>

json_escape(value) == FlattenSeq([i \in DOMAIN value |-> Escaped(value[i])])

Quoted(value) == <<Quote>> \o json_escape(value) \o <<Quote>>

Member(key, value) == <<Quote, key, Quote, ":">> \o value

(* A comma before every element but the first. *)
Elements(list) ==
  FlattenSeq([i \in DOMAIN list |-> (IF i = 1 THEN <<>> ELSE <<",">>) \o list[i]])

Braces(members)   == <<"{">> \o Elements(members) \o <<"}">>
Brackets(entries) == <<"[">> \o Elements(entries) \o <<"]">>

format_json(report) ==
  LET Interface(i) == Braces(<<Member("name", Quoted(i.name)), Member("ipv4", Quoted(i.ipv4))>>)
  IN  Braces(<<Member("ssh_ip", Quoted(report.ssh_ip)),
               Member("ssh_banner", Quoted(report.ssh_banner)),
               Member("local_interface", Quoted(report.interface_name)),
               Member("discovery_stage", Quoted(report.discovery_stage)),
               Member("host_key_status", Quoted(report.host_key_status)),
               Member("interfaces", Brackets([i \in DOMAIN report.interfaces |->
                                                Interface(report.interfaces[i])])),
               Member("warnings", Brackets([i \in DOMAIN report.warnings |->
                                              Quoted(report.warnings[i])]))>>)

Blank == " "

Blanks(n) == [i \in 1 .. n |-> Blank]

width(interfaces) == Max({4} \cup {Len(i.name) : i \in Range(interfaces)})

(* setw() pads the name. *)
Row(i, w) == Blanks(2) \o i.name \o Blanks(w + 2 - Len(i.name)) \o i.ipv4

Via(report) ==
  <<"Via:">> \o report.interface_name
    \o (IF report.discovery_stage = <<>> THEN <<>> ELSE <<"(">> \o report.discovery_stage \o <<")">>)

SshEndpoint(report) ==
  <<<<"Directly_connected_device">>, <<>>, <<"SSH_endpoint:">>,
    <<"IP:">> \o report.ssh_ip, <<"Banner:">> \o report.ssh_banner>>
    \o (IF report.interface_name = <<>> THEN <<>> ELSE <<Via(report)>>)
    \o (IF report.host_key_status = <<>> THEN <<>>
        ELSE <<<<"Host_key:">> \o report.host_key_status>>)
    \o <<<<>>>>

Table(interfaces) ==
  IF interfaces = <<>> THEN <<<<"(none_found)">>>>
  ELSE [i \in DOMAIN interfaces |-> Row(interfaces[i], width(interfaces))]

Warned(warnings) ==
  IF warnings = <<>> THEN <<>>
  ELSE <<<<>>>> \o [i \in DOMAIN warnings |-> <<"WARNING:">> \o warnings[i]]

format_text(report) ==
  (IF report.ssh_ip = <<>> THEN <<>> ELSE SshEndpoint(report))
    \o <<<<"Network_interfaces:">>>> \o Table(report.interfaces) \o Warned(report.warnings)

-----------------------------------------------------------------------------
(* A reader of JSON, one character at a time.  Its tokens are marks and    *)
(* texts; `text` is what it has read of a text.                            *)

Mark(c)    == <<"mark", <<c>>>>
Text(text) == <<"text", text>>

Control == {LineFeed, Return, Tab} \cup DOMAIN Hex

Reader(mode, text, tokens) == [mode |-> mode, text |-> text, tokens |-> tokens]

Mode(s, m) == Reader(m, s.text, s.tokens)
Keep(s, c) == Reader("plain", Append(s.text, c), s.tokens)

Between(s, c) == IF c = Quote THEN Reader("plain", <<>>, s.tokens)
                 ELSE Reader("between", <<>>, Append(s.tokens, Mark(c)))
Plain(s, c)   == CASE c = Quote         -> Reader("between", <<>>, Append(s.tokens, Text(s.text)))
                   [] c = Backslash     -> Mode(s, "escape")
                   [] c \in Control     -> Mode(s, "error")
                   [] OTHER             -> Keep(s, c)
Escape(s, c)  == CASE c = "u"           -> Mode(s, "digits")
                   [] c = "n"           -> Keep(s, LineFeed)
                   [] c = "r"           -> Keep(s, Return)
                   [] c = "t"           -> Keep(s, Tab)
                   [] c \in {Quote, Backslash} -> Keep(s, c)
                   [] OTHER             -> Mode(s, "error")
Digits(s, d)  == IF d \in Range(Hex) THEN Keep(s, CHOOSE c \in DOMAIN Hex : Hex[c] = d)
                 ELSE Mode(s, "error")

ReadCharacter(s, c) ==
  CASE s.mode = "between" -> Between(s, c)
    [] s.mode = "plain"   -> Plain(s, c)
    [] s.mode = "escape"  -> Escape(s, c)
    [] s.mode = "digits"  -> Digits(s, c)
    [] s.mode = "error"   -> s

ReadAll(out) ==
  LET read[n \in 0 .. Len(out)] == IF n = 0 THEN Reader("between", <<>>, <<>>)
                                   ELSE ReadCharacter(read[n - 1], out[n])
  IN  read[Len(out)]

(* Everything that was read, if all texts have ended and none was wrong. *)
JsonTokens(out) ==
  IF ReadAll(out).mode = "between" THEN ReadAll(out).tokens ELSE <<Mark("error")>>

(* The tokens of an object and of an array of values, each value a         *)
(* sequence of tokens.                                                     *)
Separated(values) ==
  FlattenSeq([i \in DOMAIN values |-> (IF i = 1 THEN <<>> ELSE <<Mark(",")>>) \o values[i]])

Object(keys, values) ==
  <<Mark("{")>>
    \o Separated([i \in DOMAIN keys |-> <<Text(<<keys[i]>>), Mark(":")>> \o values[i]])
    \o <<Mark("}")>>

Array(values) == <<Mark("[")>> \o Separated(values) \o <<Mark("]")>>

(* JSON that says what the report says. *)
JsonSays(out, report) ==
  JsonTokens(out) =
    Object(<<"ssh_ip", "ssh_banner", "local_interface", "discovery_stage",
             "host_key_status", "interfaces", "warnings">>,
           <<<<Text(report.ssh_ip)>>, <<Text(report.ssh_banner)>>,
             <<Text(report.interface_name)>>, <<Text(report.discovery_stage)>>,
             <<Text(report.host_key_status)>>,
             Array([i \in DOMAIN report.interfaces |->
                      Object(<<"name", "ipv4">>,
                             <<<<Text(report.interfaces[i].name)>>,
                               <<Text(report.interfaces[i].ipv4)>>>>)]),
             Array([i \in DOMAIN report.warnings |-> <<Text(report.warnings[i])>>])>>)

(* A table of two columns, the second at the same place in every row and   *)
(* apart from the first by two blanks, and after it the warnings.          *)
TextSays(out, report) ==
  LET before == Len(out) - Len(report.warnings) IN
  /\ \E top \in DOMAIN out : \E column \in 0 .. Len(out[top + 1]) :
       /\ out[top] = <<"Network_interfaces:">>
       /\ \A i \in DOMAIN report.interfaces : \E gap \in 2 .. column :
            /\ Len(report.interfaces[i].name) + 2 + gap = column
            /\ out[top + i] = Blanks(2) \o report.interfaces[i].name \o Blanks(gap)
                                \o report.interfaces[i].ipv4
       /\ top + Len(report.interfaces) <= before
  /\ \A i \in DOMAIN report.warnings : out[before + i] = <<"WARNING:">> \o report.warnings[i]
  /\ \A i \in 1 .. before : out[i] = <<>> \/ Head(out[i]) # "WARNING:"
  /\ report.ssh_ip # <<>> => /\ Contains(out, <<"IP:">> \o report.ssh_ip)
                             /\ Contains(out, <<"Banner:">> \o report.ssh_banner)
=============================================================================
