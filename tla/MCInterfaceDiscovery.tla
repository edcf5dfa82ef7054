------------------------ MODULE MCInterfaceDiscovery ------------------------
(* Instances of InterfaceDiscovery, with addresses of four numbers of two  *)
(* bits.                                                                   *)
EXTENDS InterfaceDiscovery

Unicast(a, prefix) == [family |-> "AF_INET", address |-> a, OnLinkPrefixLength |-> prefix]

Adapter(index, name, description, type, status, unicast) ==
  [IfIndex |-> index, FriendlyName |-> name, AdapterName |-> "{guid}",
   Description |-> description, IfType |-> type, OperStatus |-> status,
   unicast |-> unicast]

Loopback ==
  Adapter(1, "Loopback Pseudo-Interface 1", "", "IF_TYPE_SOFTWARE_LOOPBACK",
          "IfOperStatusUp", <<Unicast(127, 2)>>)

Ethernet(unicast) ==
  Adapter(2, "Ethernet", "Controller", "IF_TYPE_ETHERNET_CSMACD", "IfOperStatusUp", unicast)

Unplugged ==
  Adapter(2, "Ethernet", "Controller", "IF_TYPE_ETHERNET_CSMACD", "IfOperStatusDown",
          <<Unicast(20, 5)>>)

WiFi == Adapter(3, "Wi-Fi", "Controller", "IF_TYPE_IEEE80211", "IfOperStatusUp", <<Unicast(170, 6)>>)

Switch ==
  Adapter(4, "Ethernet 5", "Hyper-V Virtual Ethernet Adapter", "IF_TYPE_ETHERNET_CSMACD",
          "IfOperStatusUp", <<Unicast(200, 5)>>)

Nameless ==
  Adapter(5, "", "Controller", "IF_TYPE_ETHERNET_CSMACD", "IfOperStatusUp", <<Unicast(65, 7)>>)

(* A link that does not change, with every prefix length and addresses at  *)
(* the ends and in the middle of the address space.                        *)
Still ==
  {{<<Loopback, Ethernet(<<Unicast(a, p)>>)>>} :
     a \in 1 .. 9 \cup 126 .. 130 \cup 247 .. 255, p \in 0 .. Width}

(* Adapters that come up, get their addresses, and go; the list grows to   *)
(* five sizes beyond the buffer.                                           *)
Moving ==
  { {<<Loopback, Unplugged>>, <<Loopback, Ethernet(<<>>)>>,
     <<Loopback, Ethernet(<<Unicast(0, 5), Unicast(20, 5)>>)>>,
     <<Loopback, Ethernet(<<Unicast(20, 5), Unicast(99, 6)>>), WiFi>>,
     <<Loopback, Ethernet(<<Unicast(20, 5)>>), WiFi, Switch>>,
     <<Loopback, Ethernet(<<Unicast(20, 5)>>), WiFi, Switch, Nameless>>},
    {<<Loopback, Switch, Ethernet(<<Unicast(20, 255)>>)>>,
     <<Loopback, Nameless>>, <<Switch, Loopback, Nameless, Unplugged>>} }

MCHistories == Still \cup Moving

MCMarkedNames == {"Loopback Pseudo-Interface 1", "Hyper-V Virtual Ethernet Adapter"}

(* The instance meets the assumption of the theorem SelectionIsDocumented. *)
ASSUME InstanceIsOrdinary == OrdinaryAdapters
=============================================================================
