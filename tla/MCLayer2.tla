------------------------------ MODULE MCLayer2 ------------------------------
(* Instances of Layer2 with two stations. *)
EXTENDS Layer2

Row(index, ip, mac, reachable) ==
  [if_index |-> index, ip |-> ip, mac |-> mac, reachable |-> reachable]

(* A cache that is empty, resolves one station or both (one of them again  *)
(* with another hardware address), or holds what has to be left out.       *)
MCTables ==
  { <<>>,
    <<Row(1, "h1", "m1", TRUE)>>,
    <<Row(1, "h2", "m2", TRUE), Row(1, "h1", "m3", TRUE), Row(1, "h2", "m4", TRUE)>>,
    <<Row(2, "h1", "m1", TRUE), Row(1, "h1", "", TRUE), Row(1, "h2", "m2", FALSE)>>,
    <<Row(1, "own", "m0", TRUE), Row(1, "multicast", "m9", TRUE), Row(1, "directed", "ff", TRUE)>> }

Packet(version, header, length, source) ==
  [version |-> version, header |-> header, length |-> length, source |-> source]

MCPackets ==
  {Packet(4, 5, 5, s) : s \in {"h1", "h2", "own", "any"}}
    \cup {Packet(6, 5, 5, "h1"), Packet(4, 4, 5, "h1"), Packet(4, 15, 14, "h2"),
          Packet(4, 5, 4, "h2"), Packet(4, 15, 15, "h2")}
=============================================================================
