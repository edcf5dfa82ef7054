-------------------------- MODULE MCDeviceDiscovery -------------------------
(* Instances of DeviceDiscovery: up to two addresses a stage, outputs with *)
(* two interfaces, with one, with none, and of ip -4 addr, and command     *)
(* lines with each kind of option, right and wrong.                        *)
EXTENDS DeviceDiscovery

Eth(name, address) ==
  [name |-> name, loopback |-> FALSE, addresses |-> <<address>>, inet6 |-> FALSE]

Two == <<Eth("eth0", "10.0.0.1"), Eth("eth1", "10.0.1.1")>>

MCHostLists == {<<>>, <<"a", "b">>}

MCOutputs ==
  {<<>>, <<Line(FALSE, <<Other>>)>>,
   SelectSeq(Printed(Two, "net-tools"), LAMBDA l : l.words # <<>> /\ l.words # <<Other>>),
   Printed(<<Eth("eth0", "10.0.0.1")>>, "ip")}

MCCandidates == {<<>>, <<"Ethernet">>, <<"Ethernet", "Ethernet 2">>}

MCNumerals ==
  "0" :> 0 @@ "-1" :> -1 @@ "1" :> 1 @@ " +7" :> 7 @@ "1024" :> 1024 @@ "1025" :> 1025
    @@ "99999999999999999999" :> 9999 @@ "-99999999999999999999" :> -9999

MCEnvironment == "DEVICE_SSH_PASSWORD" :> "secret" @@ "EMPTY" :> ""

(* Arguments, right and wrong, that end in the help if in nothing else. *)
Few ==
  {<<o>> : o \in Flags \cup {"--threads", "-h", "ifconfig"}}
    \cup {<<"--ssh-password", "--json">>, <<"--select", "--select">>, <<"--ssh-user", "-h">>,
          <<"--threads", "1025">>, <<"--threads", "1024">>, <<"--threads", " +7">>}

Many ==
  Few \cup {<<o>> : o \in Strings \cup Timeouts}
      \cup {<<o, n>> : o \in Timeouts \cup {"--threads"}, n \in DOMAIN MCNumerals \cup {"7ms", ""}}

Short == {first \o second \o <<"--help">> : first \in Many, second \in Few}

(* Arguments that the program goes on with. *)
Long ==
  { <<>>, <<"--select", "b">>, <<"--select", "a", "--strict-host-key", "--select", "b">>,
    <<"--ssh-password", "--strict-host-key">>, <<"--strict-host-key", "--select", "c">>,
    <<"--ssh-password", "">>, <<"--ssh-password-env", "EMPTY">>,
    <<"--ssh-password-env", "UNSET">>, <<"--ssh-password-env", "UNSET", "--ssh-password", "x">>,
    <<"--interface", "Ethernet">>, <<"--mock-ifconfig", "--help">>,
    <<"--timeout", "99999999999999999999">> }

MCCommandLines == Short \cup Long
=============================================================================
