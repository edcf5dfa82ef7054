--------------------------- MODULE InterfaceReport --------------------------
(***************************************************************************)
(* From captured output to the report and the exit code: the line loops of *)
(* the parsers, on the output of the command they are for (the end of      *)
(* run() in src/main.cpp) or on a file (run_mock_mode()), where the second *)
(* parser is tried if the first finds nothing; then the report is emitted  *)
(* as text or as JSON (Formatter).                                         *)
(***************************************************************************)
EXTENDS IfconfigParser, Formatter

CONSTANTS
  Devices,     \* the devices whose output is parsed
  Cases,       \* the modes, "run" or "mock", and the formats they meet
  Endpoints,   \* what run() has found out about a device before
  Spelling(_)  \* the characters of a name or an address

(* What the devices are like: an interface has a name of its own and an    *)
(* address only once, and exactly those named for it are loopback.         *)
Addresses == UNION {UNION {Range(iface.addresses) : iface \in Range(d)} : d \in Devices}

Ifaces == [name : STRING \ {NoName}, loopback : BOOLEAN, addresses : Seq(Addresses),
           inet6 : BOOLEAN]

ASSUME DeviceAssumption ==
  /\ NoAddress \notin Addresses
  /\ \A d \in Devices :
       /\ d \in Seq(Ifaces)
       /\ \A i, j \in DOMAIN d : d[i].name = d[j].name => i = j
       /\ \A i \in DOMAIN d :
            /\ d[i].loopback <=> is_loopback_interface_name(d[i].name)
            /\ \A k, m \in DOMAIN d[i].addresses :
                 d[i].addresses[k] = d[i].addresses[m] => k = m

(* Texts are sequences of characters, and a character is a string. *)
ASSUME TextAssumption ==
  /\ \A d \in Devices : \A i \in DOMAIN d :
       /\ Spelling(d[i].name) \in Seq(STRING)
       /\ \A a \in Range(d[i].addresses) : Spelling(a) \in Seq(STRING)
  /\ Endpoints \subseteq [interface_name : Seq(STRING), ssh_ip : Seq(STRING),
                          ssh_banner : Seq(STRING), host_key_status : Seq(STRING),
                          discovery_stage : Seq(STRING)]

VARIABLES
  device, format, mode,
  parser,      \* "ifconfig" or "ip"
  next,        \* the line getline() returns next
  state,       \* current and interfaces of the loop
  json,        \* options.json
  out,         \* what emit() has written
  report,      \* the DiscoveryReport
  exit_code

input == <<device, format, mode, json>>
emitted == <<out, report, exit_code>>
vars == <<input, parser, next, state, emitted>>

Output == Printed(device, format)

(* No endpoint: what mock mode starts from. *)
MockReport ==
  [interface_name |-> <<>>, ssh_ip |-> <<>>, ssh_banner |-> <<>>, host_key_status |-> <<>>,
   discovery_stage |-> <<"mock">>]

DiscoveryReport(endpoint, interfaces, warnings) ==
  [interface_name  |-> endpoint.interface_name,
   ssh_ip          |-> endpoint.ssh_ip,
   ssh_banner      |-> endpoint.ssh_banner,
   host_key_status |-> endpoint.host_key_status,
   discovery_stage |-> endpoint.discovery_stage,
   interfaces      |-> interfaces,
   warnings        |-> warnings]

NoReport == DiscoveryReport([MockReport EXCEPT !.discovery_stage = <<>>], <<>>, <<>>)

Init ==
  /\ device \in Devices
  /\ \E case \in Cases : mode = case[1] /\ format = case[2]
  /\ parser = IF mode = "run" /\ format = "ip" THEN "ip" ELSE "ifconfig"
  /\ next = 1
  /\ state = Begin
  /\ json \in BOOLEAN
  /\ out = <<>> /\ report = NoReport /\ exit_code = "none"

ParseLine ==
  /\ exit_code = "none" /\ next <= Len(Output)
  /\ state' = IF parser = "ifconfig" THEN IfconfigLine(state, Output[next])
                                     ELSE IpAddrLine(state, Output[next])
  /\ next' = next + 1
  /\ UNCHANGED <<input, parser, emitted>>

(* run_mock_mode(): parse_ifconfig_output() found nothing. *)
TrySecondParser ==
  /\ exit_code = "none" /\ next > Len(Output)
  /\ mode = "mock" /\ parser = "ifconfig" /\ state.interfaces = <<>>
  /\ parser' = "ip" /\ next' = 1 /\ state' = Begin
  /\ UNCHANGED <<input, emitted>>

Interfaces(pairs) ==
  [i \in DOMAIN pairs |-> [name |-> Spelling(pairs[i][1]), ipv4 |-> Spelling(pairs[i][2])]]

Warnings(pairs) ==
  IF Len(pairs) = 2 THEN <<>>
  ELSE <<<<"expected_two_network_interfaces_but_found", ToString(Len(pairs))>>>>

emit(r) == out' = IF json THEN format_json(r) ELSE format_text(r)

(* Nothing is emitted when no interface was found. *)
Report ==
  /\ exit_code = "none" /\ next > Len(Output)
  /\ mode = "mock" /\ parser = "ifconfig" => state.interfaces # <<>>
  /\ \E endpoint \in IF mode = "mock" THEN {MockReport} ELSE Endpoints :
       report' = DiscoveryReport(endpoint, Interfaces(state.interfaces),
                                 Warnings(state.interfaces))
  /\ exit_code' = ReportCode(state.interfaces)
  /\ IF state.interfaces = <<>> THEN UNCHANGED out ELSE emit(report')
  /\ UNCHANGED <<input, parser, next, state>>

Next == ParseLine \/ TrySecondParser \/ Report

Spec == Init /\ [][Next]_vars /\ WF_vars(Next)

-----------------------------------------------------------------------------
(* Properties                                                              *)

(* The report holds each pair of interface and address the device has, in  *)
(* order, and nothing else: no address of one interface is given to        *)
(* another, no loopback, no IPv6 (parse_ifconfig_output, append).          *)
ReportsTheDevice == exit_code # "none" => state.interfaces = Has(device)

(* What a reader takes from the emitted JSON, or from the lines of text,   *)
(* is what the device has, and of run() where it was found, in JSON        *)
(* whatever the characters of names and banner; a warning goes with every  *)
(* count but two, and nothing is emitted if the device shows no address    *)
(* (emit, json_escape).                                                    *)
ReportReadsBack ==
  exit_code # "none" =>
    LET meant == DiscoveryReport(report, Interfaces(Has(device)), Warnings(Has(device)))
    IN  IF Has(device) = <<>> THEN out = <<>>
        ELSE IF json THEN JsonSays(out, meant)
        ELSE TextSays(out, meant)

(* Output that was cut off between two lines gives a beginning of the full *)
(* report, never a wrong entry: what is parsed stays (the loops append).   *)
CutOutputIsBeginning == IsPrefix(state.interfaces, Has(device))
=============================================================================
