----------------------------- MODULE SubnetHosts ----------------------------
(***************************************************************************)
(* The address arithmetic of stage A: enumerate_subnet_hosts() of          *)
(* src/scanner/subnet_sweep.cpp with NetworkInterface::prefix_length(),    *)
(* network() and broadcast() of src/network/interface_discovery.{hpp,cpp}. *)
(* Addresses are unsigned integers of Width bits (32 in the program) that  *)
(* wrap around.                                                            *)
(***************************************************************************)
EXTENDS Naturals, SequencesExt, FiniteSetsExt

CONSTANTS
  Width,        \* bits of an address
  min_prefix    \* kMinimumScanPrefix

ASSUME WidthAssumption ==
  /\ Width \in Nat /\ Width >= 2
  /\ min_prefix \in 0 .. Width

Addresses == 0 .. 2^Width - 1

VARIABLES
  iface,       \* the fields address and mask of the interface
  at,          \* "start", "link", "subnet" or "done"
  address,     \* the loop variable, one of Addresses
  hosts        \* the result, a sequence of Addresses

vars == <<iface, at, address, hosts>>

Masks == {2^Width - 2^(Width - n) : n \in 0 .. Width}

(* The number of ones before the first zero. *)
prefix_length(mask) ==
  Max({n \in 0 .. Width : mask \div 2^(Width - n) = 2^n - 1})

HostBits(i) == 2^(Width - prefix_length(i.mask))

network(i) == i.address - (i.address % HostBits(i))

broadcast(i) == network(i) + HostBits(i) - 1

(* Two hosts on a /31, one on a /32, else all but network and broadcast. *)
usable_host_count(i) ==
  LET prefix == prefix_length(i.mask)
  IN  IF prefix >= Width - 1 THEN Width + 1 - prefix ELSE 2^(Width - prefix) - 2

Init ==
  /\ iface \in [address : Addresses, mask : Masks]
  /\ at = "start"
  /\ address = 0
  /\ hosts = <<>>

Plus(a, n) == (a + n) % 2^Width

(* Mutant: a subnet of any size is swept. *)
Swept(prefix) == TRUE

(* The early return: nothing larger than min_prefix, and no empty mask. *)
Allowed(prefix) == prefix >= min_prefix /\ iface.mask # 0

Start ==
  /\ at = "start"
  /\ LET prefix == prefix_length(iface.mask)
     IN  \/ /\ ~Allowed(prefix)
            /\ at' = "done" /\ UNCHANGED address
         \/ /\ Allowed(prefix) /\ prefix >= Width - 1
            /\ at' = "link" /\ address' = network(iface)
         \/ /\ Allowed(prefix) /\ prefix < Width - 1
            /\ at' = "subnet" /\ address' = Plus(network(iface), 1)
  /\ UNCHANGED <<iface, hosts>>

(* The addresses that are not the PC's own are kept. *)
Keep == hosts' = IF address = iface.address THEN hosts ELSE Append(hosts, address)

(* A /32 link has one address, a /31 link two. *)
LinkCount == IF prefix_length(iface.mask) = Width THEN 1 ELSE 2

(* A turn of the loop over the addresses of a link. *)
LinkTurn ==
  /\ at = "link"
  /\ Keep
  /\ at' = IF Plus(address, 1) = Plus(network(iface), LinkCount) THEN "done" ELSE at
  /\ address' = Plus(address, 1)
  /\ UNCHANGED iface

(* Mutant: the loop runs to the broadcast address. *)
UpToBroadcast(a) == a <= broadcast(iface)

(* address < broadcast *)
InLoop(a) == a < broadcast(iface)

(* Mutant: the loop continues without the increment at the PC's address. *)
TurnWithoutIncrement ==
  /\ at = "subnet"
  /\ IF InLoop(address)
       THEN /\ Keep /\ UNCHANGED at
            /\ address' = IF address = iface.address THEN address ELSE Plus(address, 1)
       ELSE at' = "done" /\ UNCHANGED <<hosts, address>>
  /\ UNCHANGED iface

SubnetTurn ==
  /\ at = "subnet"
  /\ IF InLoop(address)
       THEN Keep /\ address' = Plus(address, 1) /\ UNCHANGED at
       ELSE at' = "done" /\ UNCHANGED <<hosts, address>>
  /\ UNCHANGED iface

Next == Start \/ LinkTurn \/ SubnetTurn \/ (at = "done" /\ UNCHANGED vars)

Spec == Init /\ [][Next]_vars

-----------------------------------------------------------------------------
(* Properties                                                              *)

(* "Returns every host address of the interface's directly connected       *)
(* subnet, excluding the network address, the broadcast address and the    *)
(* PC's own address" (subnet_sweep.hpp), in ascending order and once, also *)
(* at the ends of the address space; a link of one or two addresses has no *)
(* network and broadcast address to leave out.  Of a subnet that is too    *)
(* large it returns none.  With the PC, these are usable_host_count().     *)
EveryHostOnce ==
  at = "done" =>
    LET prefix == prefix_length(iface.mask)
        subnet == {a \in Addresses : a \div 2^(Width - prefix) = iface.address \div 2^(Width - prefix)}
        ends   == IF prefix >= Width - 1 THEN {} ELSE {network(iface), broadcast(iface)}
    IN  IF prefix >= min_prefix /\ prefix > 0
          THEN /\ Range(hosts) = subnet \ (ends \cup {iface.address})
               /\ \A i, j \in DOMAIN hosts : i < j => hosts[i] < hosts[j]
               /\ Len(hosts) + Cardinality({iface.address} \ ends) = usable_host_count(iface)
          ELSE hosts = <<>>
=============================================================================
