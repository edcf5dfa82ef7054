--------------------------- MODULE DeviceDiscovery --------------------------
(***************************************************************************)
(* The program: main() and run() of src/main.cpp, from the command line to *)
(* the exit code.  It composes the parser of the command line              *)
(* (CommandLine), the discovery stages (DiscoveryStages, which SubnetSweep *)
(* implements with the thread pool), the SSH client (SshClient) and the    *)
(* parsers of its output (IfconfigParser).  The choice of the interface is *)
(* reduced to its outcome (InterfaceDiscovery has the rest); logging and   *)
(* the text of the report (InterfaceReport) are left out.                  *)
(***************************************************************************)
EXTENDS CommandLine, IfconfigParser

CONSTANTS
  HostLists, MaxHosts,            \* see DiscoveryStages
  Outputs, ExitCodes,             \* see SshClient; an output is a sequence of lines
  CommandLines,                   \* lists of arguments
  Environment,                    \* function from names of variables to values
  Candidates,                     \* lists of names of candidate interfaces
  NoTarget

VARIABLES
  argv, parser, \* the arguments, and how far they are parsed
  at_run,       \* where run() is
  target,       \* ssh_config.host
  source,       \* source_command
  exit_code,
  phase, stage, hosts, answer, devices,     \* DiscoveryStages
  at, socket, session, channel, lookup, host_key_status, last_error,
  password_sent, command, remote, elapsed, complete, result    \* SshClient

options == parser.options

IpAddrCommand == "ip -4 addr"

Hosts == UNION {Range(list) : list \in HostLists}
Texts == UNION {Range(list) : list \in CommandLines}

ASSUME RunAssumption ==
  /\ MaxHosts \in Nat
  /\ \A list \in HostLists : list \in Seq(Hosts) /\ Len(list) <= MaxHosts
  /\ \A list \in CommandLines : list \in Seq(Texts)

Discovery == INSTANCE DiscoveryStages

Client == INSTANCE SshClient
            WITH policy <- IF options["--strict-host-key"] THEN "Strict" ELSE "Warn",
                 Commands <- {"ifconfig", IpAddrCommand},
                 command_timeout <- 1, MaxElapsed <- 0

run == <<argv, parser, at_run, target, source, exit_code>>
discovery == <<phase, stage, hosts, answer, devices>>
client == <<at, socket, session, channel, lookup, host_key_status,
            last_error, password_sent, command, remote, elapsed, complete, result>>

vars == <<run, discovery, client>>

ExitCode ==
  [kSuccess |-> 0, kUsageError |-> 2, kNoInterface |-> 3, kMultipleInterfaces |-> 4,
   kNoDevice |-> 5, kMultipleDevices |-> 6, kSshConnectionFailed |-> 7,
   kSshAuthFailed |-> 8, kRemoteCommandFailed |-> 9, kParseFailed |-> 10,
   kUnexpectedInterfaceCount |-> 11]

Init ==
  /\ argv \in CommandLines /\ parser = Unparsed
  /\ at_run = "start"
  /\ target = NoTarget /\ source = Empty /\ exit_code = "none"
  /\ Discovery!Init
  /\ Client!Init

Exit(code) ==
  /\ exit_code' = code
  /\ at_run' = "exited"

-----------------------------------------------------------------------------
(* Before the pool                                                         *)

WinsockFails ==
  /\ at_run = "start"
  /\ Exit("kUsageError")
  /\ UNCHANGED <<argv, parser, target, source, discovery, client>>

(* The options get their defaults, and the loop of parse_options() begins. *)
StartParsing ==
  /\ at_run = "start"
  /\ at_run' = "options"
  /\ UNCHANGED <<argv, parser, target, source, exit_code, discovery, client>>

ParseOption ==
  /\ at_run = "options" /\ parser.i <= Len(argv)
  /\ parser' = Turn(parser, argv)
  /\ IF parser'.exit_code = "none" THEN UNCHANGED <<at_run, exit_code>>
     ELSE Exit(parser'.exit_code)
  /\ UNCHANGED <<argv, target, source, discovery, client>>

Parsed == at_run = "options" /\ parser.i > Len(argv)

mock == options["--mock-ifconfig"] # Empty

(* run_mock_mode(): the file cannot be read, its contents are parsed, or   *)
(* an exception ends it.                                                   *)
MockMode ==
  /\ Parsed /\ mock
  /\ \/ Exit("kUsageError")
     \/ Exit("kNoDevice")
     \/ \E contents \in Outputs :
          LET first == parse_ifconfig_output(contents)
          IN  Exit(ReportCode(IF first # <<>> THEN first
                              ELSE parse_ip_addr_output(contents)))
  /\ UNCHANGED <<argv, parser, target, source, discovery, client>>

(* --ssh-password, else the variable of the environment; empty if neither. *)
password ==
  LET variable == options["--ssh-password-env"]
  IN  CASE options["--ssh-password"] # NotGiven -> options["--ssh-password"]
        [] options["--ssh-password"] = NotGiven /\ variable \in DOMAIN Environment ->
             Environment[variable]
        [] OTHER -> Empty

NoPassword ==
  /\ Parsed /\ ~mock /\ password = Empty
  /\ Exit("kUsageError")
  /\ UNCHANGED <<argv, parser, target, source, discovery, client>>

(* select_interface(): one candidate is left, or run() refuses to guess. *)
SelectInterface ==
  /\ Parsed /\ ~mock /\ password # Empty
  /\ \E list \in Candidates :
       LET left == SelectSeq(list, LAMBDA name : options["--interface"] \in {Empty, name})
       IN  \/ Len(left) = 0 /\ Exit("kNoInterface")
           \/ Len(left) = 1 /\ at_run' = "stages" /\ UNCHANGED exit_code
           \/ Len(left) > 1 /\ Exit("kMultipleInterfaces")
  /\ UNCHANGED <<argv, parser, target, source, discovery, client>>

(* discover_candidate_interfaces() throws; main() catches it. *)
EnumerationThrows ==
  /\ Parsed /\ ~mock /\ password # Empty
  /\ Exit("kNoDevice")
  /\ UNCHANGED <<argv, parser, target, source, discovery, client>>

-----------------------------------------------------------------------------
(* The stages, and the choice of the device                                *)

Discover ==
  /\ at_run = "stages"
  /\ Discovery!Next
  /\ UNCHANGED <<run, client>>

DiscoveryThrows ==
  /\ at_run = "stages" /\ phase = "failed"
  /\ Exit("kNoDevice")
  /\ UNCHANGED <<argv, parser, target, source, discovery, client>>

(* SshClient is constructed for the address and asked to connect. *)
ConnectTo(device) ==
  /\ at_run' = "connect"
  /\ target' = device
  /\ UNCHANGED <<argv, parser, source, exit_code, discovery>>
  /\ Client!Connect

Refuse(code) == Exit(code) /\ UNCHANGED <<argv, parser, target, source, discovery, client>>

NoDevice ==
  /\ at_run = "stages" /\ phase = "settled"
  /\ devices = <<>>
  /\ Refuse("kNoDevice")

(* --select is not consulted when a single device was found. *)
OneDevice ==
  /\ at_run = "stages" /\ phase = "settled"
  /\ Len(devices) = 1
  /\ ConnectTo(devices[1])

select == options["--select"]

(* Mutant: without --select the first device is taken. *)
FirstOfSeveral ==
  /\ at_run = "stages" /\ phase = "settled"
  /\ Len(devices) > 1
  /\ IF select = Empty THEN ConnectTo(devices[1])
     ELSE IF Contains(devices, select) THEN ConnectTo(select)
     ELSE Refuse("kUsageError")

SeveralDevices ==
  /\ at_run = "stages" /\ phase = "settled"
  /\ Len(devices) > 1
  /\ IF select = Empty THEN Refuse("kMultipleDevices")
     ELSE IF Contains(devices, select) THEN ConnectTo(select)
     ELSE Refuse("kUsageError")

-----------------------------------------------------------------------------
(* The SSH session                                                         *)

ClientWorks ==
  /\ UNCHANGED <<run, discovery>>
  /\ Client!ClientStep

(* Mutant: a host key that is refused counts as an authentication failure. *)
CodeOfError(error) ==
  IF error \in {"authentication", "host_key"} THEN "kSshAuthFailed"
  ELSE "kSshConnectionFailed"

(* The word "authentication" in last_error() decides. *)
ConnectCode(error) ==
  IF error = "authentication" THEN "kSshAuthFailed" ELSE "kSshConnectionFailed"

(* Mutant: the destructor frees impl_ and does not disconnect. *)
OnlyDeleted ==
  /\ at' = "idle"
  /\ UNCHANGED <<socket, session, channel, lookup, host_key_status, last_error,
                 password_sent, command, remote, elapsed, complete, result>>

(* ~SshClient(): a return or an exception leaves the scope of client. *)
Destroyed == Client!Disconnect

ConnectFailed ==
  /\ at_run = "connect" /\ at = "idle"
  /\ Exit(ConnectCode(last_error))
  /\ UNCHANGED <<argv, parser, target, source, discovery>>
  /\ Destroyed

RunIfconfig ==
  /\ at_run = "connect" /\ at = "ready"
  /\ at_run' = "ifconfig" /\ source' = "ifconfig"
  /\ UNCHANGED <<argv, parser, target, exit_code, discovery>>
  /\ Client!Execute("ifconfig")

(* ok, exit code 0 and some output *)
Usable == result.ok /\ result.exit_code = 0 /\ result.stdout # <<>>

RunFallback ==
  /\ at_run = "ifconfig" /\ at = "ready" /\ ~Usable
  /\ at_run' = "fallback" /\ source' = IpAddrCommand
  /\ UNCHANGED <<argv, parser, target, exit_code, discovery>>
  /\ Client!Execute(IpAddrCommand)

(* client.disconnect() leaves the destructor nothing to do. *)
BothCommandsFail ==
  /\ at_run = "fallback" /\ at = "ready" /\ ~Usable
  /\ Exit("kRemoteCommandFailed")
  /\ UNCHANGED <<argv, parser, target, source, discovery>>
  /\ Client!Disconnect

(* The output is parsed by the parser of its command, the session closed   *)
(* and the report emitted, unless it is empty.                             *)
ReportInterfaces ==
  /\ at_run \in {"ifconfig", "fallback"} /\ at = "ready" /\ Usable
  /\ Exit(ReportCode(IF source = "ifconfig" THEN parse_ifconfig_output(result.stdout)
                     ELSE parse_ip_addr_output(result.stdout)))
  /\ UNCHANGED <<argv, parser, target, source, discovery>>
  /\ Client!Disconnect

(* main() catches an exception when the client is gone, if there was one:  *)
(* "No device", even if the password has been sent.                        *)
Caught ==
  /\ Exit("kNoDevice")
  /\ UNCHANGED <<argv, parser, target, source, discovery>>
  /\ Destroyed

(* A call of the client has thrown. *)
ClientThrew == at = "threw" /\ Caught

(* Anything else after the discovery throws, a parser or the report, say.  *)
RunThrows ==
  /\ \/ at_run = "stages" /\ phase = "settled"
     \/ at_run \in {"connect", "ifconfig", "fallback"}
  /\ at \in {"idle", "ready"}
  /\ Caught

ClientThrows ==
  /\ UNCHANGED <<run, discovery>>
  /\ Client!Throws

RunStep ==
  \/ WinsockFails \/ StartParsing \/ ParseOption \/ MockMode \/ NoPassword
  \/ SelectInterface
  \/ Discover \/ DiscoveryThrows \/ NoDevice \/ OneDevice \/ SeveralDevices
  \/ ClientWorks \/ ClientThrew \/ ConnectFailed \/ RunIfconfig \/ RunFallback
  \/ BothCommandsFail \/ ReportInterfaces

Exception == EnumerationThrows \/ RunThrows \/ ClientThrows

Over == (at_run = "exited" \/ phase = "aborted") /\ UNCHANGED vars

Next == RunStep \/ Exception \/ Over

Spec == Init /\ [][Next]_vars

(* The thread of run() goes on: every call it makes returns, as            *)
(* DiscoveryEnds of SubnetSweep and CallsReturn of SshClient show.  No     *)
(* exception need happen.                                                  *)
FairSpec == Spec /\ WF_vars(RunStep)

-----------------------------------------------------------------------------
(* Properties                                                              *)

(* However long the command line, the options are what it says by the      *)
(* usage text: a value is never taken for an option, the last word counts, *)
(* and a refusal or the help has its cause (parse_options).                *)
OptionsAsWritten == Faithful(parser, argv)

(* The password goes only to an address that has just answered as an SSH   *)
(* server, when discovery is over and quiet, and, if several answered,     *)
(* only to the one that the last --select names; with --strict-host-key    *)
(* anywhere on the command line, only under a host key that is known; it   *)
(* is never empty (run).                                                   *)
CredentialsOnlyToTheDevice ==
  [][password_sent' /\ ~password_sent
       => /\ phase = "settled" /\ password # Empty
          /\ \A i \in DOMAIN answer : answer[i] # "asked"
          /\ \E i \in DOMAIN hosts : hosts[i] = target /\ answer[i] = "ssh"
          /\ Cardinality({i \in DOMAIN hosts : answer[i] = "ssh"}) > 1
               => target = Said(argv, Len(argv) + 1, "--select")
          /\ Said(argv, Len(argv) + 1, "--strict-host-key") => lookup' = "match"]_vars

(* What an exit code tells of the password: with 0 and 9 to 11 it has left *)
(* the machine, with 2 to 4, 6 and 7 it has not, and with 8 it was to be   *)
(* sent under a host key that passed.  5 does not tell: it is also what    *)
(* main() makes of an exception, at any time (the README's table; mock     *)
(* mode and --help aside).                                                 *)
ExitCodeTellsCredentials ==
  exit_code # "none" /\ ~mock /\ parser.exit_code # "kSuccess" =>
    LET code == ExitCode[exit_code]
    IN  /\ code \in {0} \cup 9 .. 11 => password_sent
        /\ code \in 2 .. 4 \cup {6, 7} => ~password_sent
        /\ code = 8 /\ options["--strict-host-key"] => lookup = "match"

(* "The session is always disconnected and freed" (README.md): whatever    *)
(* the exit code, and whatever threw, no socket, session or channel is     *)
(* left.                                                                   *)
ClosedAtExit == exit_code # "none" => ~socket /\ ~session /\ ~channel

(* run() comes to an end, unless the process is terminated. *)
RunEnds == <>(exit_code # "none" \/ phase = "aborted")
=============================================================================
