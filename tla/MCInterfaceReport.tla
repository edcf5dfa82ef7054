------------------------- MODULE MCInterfaceReport --------------------------
(* Instances of InterfaceReport. *)
EXTENDS InterfaceReport

CONSTANTS a, b

Iface(name, loopback, addresses, inet6) ==
  [name |-> name, loopback |-> loopback, addresses |-> addresses, inet6 |-> inet6]

Lo == Iface("lo", TRUE, <<a>>, TRUE)

(* eth0 and enp3s0 with no address, one, the same or another, or two;        *)
(* loopback first, between or absent.                                      *)
Ether == [name : {"eth0", "enp3s0"}, loopback : {FALSE},
          addresses : {<<>>, <<a>>, <<b>>, <<b, a>>}, inet6 : BOOLEAN]

MCDevices ==
  {<<x>> : x \in Ether}
    \cup {s \in {<<x, y>> : x, y \in Ether} : s[1].name # s[2].name}
    \cup {s \in {<<Lo, x, y>> : x, y \in Ether} : s[2].name # s[3].name}
    \cup {s \in {<<x, Lo, y>> : x, y \in Ether} : s[1].name # s[3].name}

(* A backslash at the end of the banner, control characters and quotes in  *)
(* the name the user gave the adapter.                                     *)
MCHex == "BEL" :> "0007" @@ "ESC" :> "001b"

Endpoint(name, banner) ==
  [interface_name |-> name, ssh_ip |-> <<"1", "0", ".", "1">>, ssh_banner |-> banner,
   host_key_status |-> <<"match">>, discovery_stage |-> <<"layer2">>]

MCEndpoints ==
  {Endpoint(<<"E">>, <<"SSH-2.0-", "x">>),
   Endpoint(<<"\"", "E", "\"", "\t", "\r", "\n">>, <<"SSH-2.0-", "u", "\\">>),
   Endpoint(<<"BEL", "ESC", "\\", "n">>, <<"SSH-2.0-", "\"", ",", "}", "\\", "\\">>)}

MCSpelling(x) ==
  CASE x = "eth0"   -> <<"e", "t", "h", "0">>
    [] x = "enp3s0" -> <<"e", "n", "p", "3", "s", "0">>
    [] x = a        -> <<"1", "0", ".", "1">>
    [] x = b        -> <<"7">>
    [] OTHER        -> <<x>>

(* Each command has its parser in run(); a file holds ifconfig output. *)
MCCases == {"run"} \X {"net-tools", "busybox", "ip"} \cup {"mock"} \X {"net-tools", "busybox"}

(* A file that holds the output of ip -4 addr. *)
MCMockIp == {<<"mock", "ip">>}

MCPlain == {<<Lo, Iface("eth0", FALSE, <<a>>, FALSE), Iface("enp3s0", FALSE, <<b>>, FALSE)>>}
=============================================================================
