-------------------------- MODULE InterfaceDiscovery ------------------------
(***************************************************************************)
(* How the program finds the link and what it sweeps: the enumeration of   *)
(* the adapters and the selection rules of                                 *)
(* src/network/interface_discovery.cpp, select_interface() of src/main.cpp *)
(* and then, on the interface that was selected, the enumeration of its    *)
(* subnet (SubnetHosts).                                                   *)
(*                                                                         *)
(* The machine is a list of adapters that changes at any moment.  An       *)
(* adapter is a record of the fields of IP_ADAPTER_ADDRESSES that the code *)
(* reads; unicast is its list of addresses.  Names are opaque, and those   *)
(* in which one of kVirtualMarkers occurs are given.  Dotted text is the   *)
(* sequence of its four numbers.                                           *)
(***************************************************************************)
EXTENDS SubnetHosts

CONSTANTS
  Histories,     \* sets of lists of adapters: what one machine goes through
  MarkedNames,   \* the names that contain a marker of a virtual adapter
  Hints,         \* values of --interface, Empty if not given
  InitialSize    \* of the buffer, in units of an adapter or an address

Empty == ""

Unicasts == [family : STRING, address : Addresses, OnLinkPrefixLength : Nat]

(* An AdapterName is a GUID, in which no marker occurs. *)
Adapters ==
  [IfIndex : Nat, FriendlyName : STRING, AdapterName : STRING \ MarkedNames,
   Description : STRING, IfType : STRING, OperStatus : STRING,
   unicast : Seq(Unicasts)]

ASSUME MachineAssumption ==
  /\ Width % 4 = 0
  /\ InitialSize \in Nat
  /\ Empty \notin MarkedNames
  /\ \A lists \in Histories : lists \subseteq Seq(Adapters)

VARIABLES
  history, machine,   \* the lists this machine may show, and the present one
  hint,
  size, needed,       \* of the buffer; what the attempts so far asked for
  taken,              \* the list in the buffer
  error,              \* what() of the exception: overflows, or a failure
  exit_code

world == <<history, machine>>
selection == <<hint, size, needed, taken, error, exit_code>>

Attempts == 4

-----------------------------------------------------------------------------
(* Text and numbers                                                        *)

Octet == 2^(Width \div 4)

to_dotted(a) ==
  [k \in 1 .. 4 |-> (a \div 2^((4 - k) * (Width \div 4))) % Octet]

(* inet_pton(), for text that to_dotted() or netmask_from_prefix() made. *)
parse_ipv4(text) ==
  ((text[1] * Octet + text[2]) * Octet + text[3]) * Octet + text[4]

NoText == <<>>

(* Mutant: a shift by the width of the type, which x86 takes for none. *)
netmask_by_shift(prefix) ==
  IF prefix > Width THEN NoText
  ELSE to_dotted(2^Width - 2^((Width - prefix) % Width))

(* No mask for a prefix length out of range; shifting by all bits is       *)
(* undefined and avoided.                                                  *)
netmask_from_prefix(prefix) ==
  IF prefix > Width THEN NoText
  ELSE to_dotted(IF prefix = 0 THEN 0 ELSE 2^Width - 2^(Width - prefix))

is_virtual_interface_name(name) == name \in MarkedNames

-----------------------------------------------------------------------------
(* enumerate_interfaces() and filter_candidate_interfaces()                *)

(* The addresses of an adapter that are IPv4 and not 0.0.0.0.  The first   *)
(* of them, if any, ends the loop.                                         *)
UsableAddresses(adapter) ==
  {k \in DOMAIN adapter.unicast :
     /\ adapter.unicast[k].family = "AF_INET"
     /\ to_dotted(adapter.unicast[k].address) # to_dotted(0)}

snapshot(adapter) ==
  LET usable  == UsableAddresses(adapter)
      first   == adapter.unicast[Min(usable)]
      ipv4    == IF usable = {} THEN NoText ELSE to_dotted(first.address)
      netmask == IF usable = {} THEN NoText
                 ELSE netmask_from_prefix(first.OnLinkPrefixLength)
  IN  [name        |-> IF adapter.FriendlyName # Empty THEN adapter.FriendlyName
                       ELSE adapter.AdapterName,
       description |-> adapter.Description,
       if_index    |-> adapter.IfIndex,
       is_loopback |-> adapter.IfType = "IF_TYPE_SOFTWARE_LOOPBACK",
       is_up       |-> adapter.OperStatus = "IfOperStatusUp",
       ipv4        |-> ipv4,
       netmask     |-> netmask,
       has_ipv4    |-> netmask # NoText]

is_candidate(s) ==
  /\ ~s.is_loopback /\ s.is_up /\ s.has_ipv4
  /\ ~is_virtual_interface_name(s.name)
  /\ ~is_virtual_interface_name(s.description)

(* The fields of NetworkInterface that are used later. *)
Interface(s) ==
  [name |-> s.name, if_index |-> s.if_index,
   address |-> parse_ipv4(s.ipv4), mask |-> parse_ipv4(s.netmask)]

(* The positions of the adapters that are kept. *)
filter_candidate_interfaces(list) ==
  {i \in DOMAIN list : is_candidate(snapshot(list[i]))}

NoInterface == [name |-> Empty, if_index |-> 0, address |-> 0, mask |-> 0]

-----------------------------------------------------------------------------
LinkInit ==
  /\ history \in Histories /\ machine \in history
  /\ hint \in Hints
  /\ size = InitialSize /\ needed = <<>> /\ taken = <<>>
  /\ error = "none" /\ exit_code = "none"
  /\ iface = NoInterface /\ at = "query" /\ address = 0 /\ hosts = <<>>

(* An adapter is plugged in, gets an address, goes down, ... *)
MachineChanges ==
  /\ machine' \in history \ {machine}
  /\ UNCHANGED <<history, selection, vars>>

Exit(code) == at' = "exited" /\ exit_code' = code

(* An exception, which main() catches. *)
Throws(what) == error' = what /\ Exit("kNoDevice")

(* What GetAdaptersAddresses() has to write: the adapters, and for each its *)
(* addresses.                                                              *)
Bytes(list) ==
  Cardinality(UNION {{i} \X (0 .. Len(list[i].unicast)) : i \in DOMAIN list})

Query ==
  /\ at = "query"
  /\ Bytes(machine) <= size
  /\ taken' = machine
  /\ at' = "select"
  /\ UNCHANGED <<world, hint, size, needed, error, exit_code, iface, address,
                 hosts>>

(* ERROR_BUFFER_OVERFLOW: the size that would have done is the next one. *)
Overflows ==
  /\ at = "query"
  /\ Bytes(machine) > size
  /\ size' = Bytes(machine)
  /\ needed' = Append(needed, Bytes(machine))
  /\ UNCHANGED <<world, hint, taken, iface, address, hosts>>

(* Mutant: the last attempt is not made. *)
GivesUpEarly ==
  /\ Overflows
  /\ IF Len(needed) + 2 < Attempts THEN UNCHANGED <<at, error, exit_code>>
                                   ELSE Throws("overflow")

(* The next attempt, or an exception after the last. *)
QueryOverflows ==
  /\ Overflows
  /\ IF Len(needed) + 1 < Attempts THEN UNCHANGED <<at, error, exit_code>>
                                   ELSE Throws("overflow")

(* Any other error is an exception at once. *)
QueryFails ==
  /\ at = "query"
  /\ Throws("failure")
  /\ UNCHANGED <<world, hint, size, needed, taken, iface, address, hosts>>

(* The candidates, those of another name than the hint erased. *)
Candidates ==
  {i \in filter_candidate_interfaces(taken) : hint \in {Empty, snapshot(taken[i]).name}}

(* None, the one to use, or too many. *)
SelectInterface ==
  /\ at = "select"
  /\ \/ Candidates = {} /\ Exit("kNoInterface") /\ UNCHANGED iface
     \/ \E i, j \in Candidates :
          i # j /\ Exit("kMultipleInterfaces") /\ UNCHANGED iface
     \/ \E i \in Candidates :
          /\ Candidates = {i}
          /\ at' = "start" /\ iface' = Interface(snapshot(taken[i]))
          /\ UNCHANGED exit_code
  /\ UNCHANGED <<world, hint, size, needed, taken, error, address, hosts>>

EnumerateHosts ==
  /\ Start \/ LinkTurn \/ SubnetTurn
  /\ UNCHANGED <<world, selection>>

ProgramStep ==
  Query \/ QueryOverflows \/ QueryFails \/ SelectInterface \/ EnumerateHosts

LinkNext ==
  \/ ProgramStep
  \/ MachineChanges
  \/ at \in {"done", "exited"} /\ UNCHANGED <<world, selection, vars>>

LinkSpec ==
  /\ LinkInit /\ [][LinkNext]_<<world, selection, vars>>
  /\ WF_<<world, selection, vars>>(ProgramStep)

-----------------------------------------------------------------------------
(* Properties                                                              *)

(* What README.md says of a candidate: not a loopback, up, with an IPv4    *)
(* address, and neither name nor description of a virtual adapter.         *)
Documented(adapter) ==
  /\ adapter.IfType # "IF_TYPE_SOFTWARE_LOOPBACK"
  /\ adapter.OperStatus = "IfOperStatusUp"
  /\ \E u \in Range(adapter.unicast) :
       u.address # 0 /\ u.OnLinkPrefixLength \in 0 .. Width
  /\ {adapter.FriendlyName, adapter.AdapterName, adapter.Description}
       \cap MarkedNames = {}

(* What the documented rules take for granted: adapters are told apart by  *)
(* their IfIndex, have IPv4 addresses only, all with a legal prefix length *)
(* or none, and nobody asks for an adapter by its GUID.                    *)
OrdinaryAdapters ==
  \A lists \in Histories : \A list \in lists :
    /\ \A i, j \in DOMAIN list : list[i].IfIndex = list[j].IfIndex => i = j
    /\ \A i \in DOMAIN list :
         /\ list[i].AdapterName \notin Hints
         /\ \A k, m \in DOMAIN list[i].unicast :
              /\ list[i].unicast[k].family = "AF_INET"
              /\ list[i].unicast[k].OnLinkPrefixLength <= Width =>
                   list[i].unicast[m].OnLinkPrefixLength <= Width

(* However the machine changes meanwhile, the decision is that of one      *)
(* moment: none, one or several adapters satisfied the documented rules    *)
(* and the hint, and the selected interface is that one adapter, with an   *)
(* address it has and the mask that belongs to this address (README.md,    *)
(* "Local adapter selection").                                             *)
SelectsTheLink ==
  LET left == {a \in Range(taken) :
                 Documented(a) /\ hint \in {Empty, a.FriendlyName}}
  IN  /\ exit_code = "kNoInterface" => left = {}
      /\ exit_code = "kMultipleInterfaces" => Cardinality(left) > 1
      /\ at \in {"start", "link", "subnet", "done"} =>
           \E a \in left :
             /\ left = {a} /\ iface.if_index = a.IfIndex
             /\ \E u \in Range(a.unicast) :
                  /\ u.address = iface.address
                  /\ u.OnLinkPrefixLength = prefix_length(iface.mask)

(* Giving up is not premature: the program ends for want of a buffer only  *)
(* after four attempts, each of which found that the machine had grown     *)
(* beyond all it had asked for before, and four such attempts are the end. *)
(* Nothing but this or another error of the call makes it end without a    *)
(* device here (query_adapter_addresses).                                  *)
GivesUpOnlyWhileGrowing ==
  /\ error = "overflow" <=> Len(needed) = Attempts
  /\ exit_code = "kNoDevice" <=> error # "none"
  /\ \A i \in DOMAIN needed :
       /\ needed[i] > InitialSize
       /\ \A j \in 1 .. i - 1 : needed[i] > needed[j]

(* "Discovery is restricted to the single directly connected interface; no *)
(* arbitrary networks are scanned and stage A refuses subnets larger than  *)
(* /22" (README.md): whatever is swept is in the subnet of an address of a *)
(* documented adapter, and at no moment is it more than such a subnet has. *)
OnlyTheLinkIsSwept ==
  /\ Len(hosts) <= 2^(Width - min_prefix)
  /\ \A host \in Range(hosts) : \E a \in Range(taken) :
       /\ Documented(a)
       /\ \E u \in Range(a.unicast) :
            LET HostPart == 2^(Width - u.OnLinkPrefixLength)
            IN  /\ u.OnLinkPrefixLength >= min_prefix
                /\ host \div HostPart = u.address \div HostPart

(* Finding the link and its hosts ends, though the machine may change for  *)
(* ever.                                                                   *)
SelectionEnds == <>(at \in {"done", "exited"})
=============================================================================
