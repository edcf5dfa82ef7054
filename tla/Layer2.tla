------------------------------- MODULE Layer2 -------------------------------
(***************************************************************************)
(* Layer-2 discovery of src/network/arp_discovery.cpp, on one interface:   *)
(* the neighbour cache is read, the traffic of the link is captured for a  *)
(* window of time, and the cache, which goes on changing, is read again.   *)
(* Addresses are the hosts of the link and one of each special kind; a     *)
(* hardware address is a name, Empty when it is not known or zero.         *)
(***************************************************************************)
EXTENDS Naturals, SequencesExt, FiniteSetsExt

CONSTANTS
  Hosts,               \* addresses of stations, in the subnet or not
  Tables,              \* contents of the neighbour cache, sequences of rows
  Packets,             \* what may be captured
  if_index,            \* of the interface
  listen_window,
  kCapturePollSlice

ASSUME WindowAssumption ==
  /\ listen_window \in Nat \ {0}
  /\ kCapturePollSlice \in Nat \ {0}

VARIABLES
  at,
  clock, deadline, poll_until,
  socket_open,
  observations,         \* sequence of [ip, mac]
  permission_denied,
  error,
  last_table            \* the rows the second reading saw

vars == <<at, clock, deadline, poll_until, socket_open, observations,
          permission_denied, error, last_table>>

(* The empty string: no address, no hardware address, no error. *)
Empty == ""

(* "own" is iface.ipv4, "directed" the broadcast address of the subnet,    *)
(* "limited" 255.255.255.255 and "any" 0.0.0.0.                            *)
Addresses == Hosts \cup {"own", "directed", "limited", "any", "multicast", Empty}

Rows == UNION {Range(table) : table \in Tables}

Macs == {row.mac : row \in Rows} \cup {Empty}

ASSUME LinkAssumption ==
  /\ \A table \in Tables : table \in Seq(Rows)
  /\ \A row \in Rows : row.ip \in Addresses
  /\ \A packet \in Packets : packet.source \in Addresses

TypeOK ==
  /\ at \in {"first_read", "open", "capture", "second_read", "done"}
  /\ {clock, deadline, poll_until} \subseteq Nat
  /\ socket_open \in BOOLEAN /\ (socket_open <=> at = "capture")
  /\ observations \in Seq([ip : Addresses, mac : Macs])
  /\ permission_denied \in BOOLEAN
  /\ error \in {Empty, "no_capture", "no_station"}
  /\ last_table \in Tables \cup {<<>>}

Init ==
  /\ at = "first_read"
  /\ clock = 0 /\ deadline = 0 /\ poll_until = 0
  /\ socket_open = FALSE
  /\ observations = <<>>
  /\ permission_denied = FALSE
  /\ error = Empty
  /\ last_table = <<>>

-----------------------------------------------------------------------------
is_uninteresting_address(ip) == ip \in {Empty, "any", "limited", "multicast"}

(* Mutant: a later sighting replaces the hardware address. *)
add_observation_replacing(list, o) ==
  LET known == {i \in DOMAIN list : list[i].ip = o.ip}
  IN  IF is_uninteresting_address(o.ip) THEN list
      ELSE IF known = {} THEN Append(list, o)
      ELSE [list EXCEPT ![Min(known)].mac = o.mac]

(* Mutant: addresses already seen are added again. *)
add_observation_twice(list, o) ==
  IF is_uninteresting_address(o.ip) THEN list ELSE Append(list, o)

(* Mutant: only the first sighting counts. *)
add_observation_first(list, o) ==
  IF is_uninteresting_address(o.ip) \/ (\E i \in DOMAIN list : list[i].ip = o.ip)
    THEN list ELSE Append(list, o)

(* One observation for an address; a missing hardware address is filled    *)
(* in, a known one is kept.                                                *)
add_observation(list, o) ==
  LET known == {i \in DOMAIN list : list[i].ip = o.ip}
  IN  IF is_uninteresting_address(o.ip) THEN list
      ELSE IF known = {} THEN Append(list, o)
      ELSE IF list[Min(known)].mac = Empty THEN [list EXCEPT ![Min(known)].mac = o.mac]
      ELSE list

(* A loop that adds what it sees to the list, for the kept positions only. *)
AddAll(list, seen, kept) ==
  LET added[k \in 0 .. Len(seen)] ==
        IF k = 0 THEN list
        ELSE IF k \in kept
          THEN add_observation(added[k - 1], [ip |-> seen[k].ip, mac |-> seen[k].mac])
        ELSE added[k - 1]
  IN  added[Len(seen)]

(* The rows of the interface that are reachable and resolved. *)
select_neighbour_entries(entries) ==
  AddAll(<<>>, entries, {k \in DOMAIN entries : /\ entries[k].if_index = if_index
                                                /\ entries[k].reachable
                                                /\ entries[k].mac # Empty})

(* read_neighbour_cache(), whose table is empty when GetIpNetTable2()      *)
(* fails, merged into the observations without the PC's own address.       *)
MergeCache(list, table) ==
  LET seen == select_neighbour_entries(table)
  IN  AddAll(list, seen, {k \in DOMAIN seen : seen[k].ip # "own"})

(* A header that is too short, of another version, or longer than what was *)
(* captured has no source address.  Lengths count units of four bytes, as  *)
(* the header length field does, so the minimum of 20 bytes is 5.          *)
parse_ipv4_source_address(packet) ==
  IF \/ packet.length < 5
     \/ packet.version # 4
     \/ packet.header < 5 \/ packet.header > packet.length
    THEN Empty ELSE packet.source

-----------------------------------------------------------------------------
FirstRead ==
  /\ at = "first_read"
  /\ \E table \in Tables : observations' = MergeCache(<<>>, table)
  /\ at' = "open"
  /\ UNCHANGED <<clock, deadline, poll_until, socket_open, permission_denied,
                 error, last_table>>

(* Winsock, the raw socket, bind() or SIO_RCVALL fails; the guard closes   *)
(* the socket.  Windows refuses the socket or the mode with WSAEACCES.     *)
CaptureRefused ==
  /\ at = "open"
  /\ permission_denied' \in BOOLEAN
  /\ error' = "no_capture"
  /\ at' = "second_read"
  /\ UNCHANGED <<clock, deadline, poll_until, socket_open, observations, last_table>>

(* Mutant: the loop polls for a whole slice whatever time remains. *)
SliceUntil(until) == clock + kCapturePollSlice

(* std::min(remaining, kCapturePollSlice) *)
PollUntil(until) == clock + Min({until - clock, kCapturePollSlice})

CaptureOpened ==
  /\ at = "open"
  /\ at' = "capture" /\ socket_open' = TRUE
  /\ deadline' = clock + listen_window
  /\ poll_until' = PollUntil(clock + listen_window)
  /\ UNCHANGED <<clock, observations, permission_denied, error, last_table>>

(* The top of the loop. *)
LoopTop ==
  IF clock >= deadline
    THEN at' = "second_read" /\ socket_open' = FALSE /\ UNCHANGED poll_until
    ELSE poll_until' = PollUntil(deadline) /\ UNCHANGED <<at, socket_open>>

(* recv() returns a packet, whose source is observed unless it is the PC;  *)
(* one that is larger than the buffer (WSAEMSGSIZE) is passed over.        *)
CapturePacket ==
  /\ at = "capture"
  /\ \/ UNCHANGED observations
     \/ \E packet \in Packets :
          LET source == parse_ipv4_source_address(packet)
          IN  observations' = IF source \in {Empty, "own"} THEN observations
                              ELSE add_observation(observations, [ip |-> source, mac |-> Empty])
  /\ LoopTop
  /\ UNCHANGED <<clock, deadline, permission_denied, error, last_table>>

(* Mutant: the loop waits for a packet however long it takes. *)
WaitsForPacket ==
  /\ at = "capture" /\ clock >= poll_until
  /\ UNCHANGED vars

(* The poll times out and the loop goes on. *)
NothingCaptured ==
  /\ at = "capture" /\ clock >= poll_until
  /\ LoopTop
  /\ UNCHANGED <<clock, deadline, observations, permission_denied, error, last_table>>

(* WSAPoll() or recv() fails: the loop ends early, without an error text. *)
CaptureBreaks ==
  /\ at = "capture"
  /\ at' = "second_read" /\ socket_open' = FALSE
  /\ UNCHANGED <<clock, deadline, poll_until, observations, permission_denied,
                 error, last_table>>

(* Mutant: the error of the capture is not kept. *)
FinalErrorOnly(list, text) == IF list # <<>> THEN Empty ELSE "no_station"

(* An error is kept, or made up, only if nothing was observed. *)
FinalError(list, text) ==
  IF list # <<>> THEN Empty ELSE IF text = Empty THEN "no_station" ELSE text

(* The second reading and the end of discover_link_layer_hosts(). *)
SecondRead ==
  /\ at = "second_read"
  /\ \E table \in Tables :
       /\ last_table' = table
       /\ observations' = MergeCache(observations, table)
  /\ error' = FinalError(observations', error)
  /\ at' = "done"
  /\ UNCHANGED <<clock, deadline, poll_until, socket_open, permission_denied>>

Tick ==
  /\ at = "capture" /\ clock < poll_until
  /\ clock' = clock + 1
  /\ UNCHANGED <<at, deadline, poll_until, socket_open, observations,
                 permission_denied, error, last_table>>

Next ==
  \/ FirstRead \/ CaptureRefused \/ CaptureOpened \/ CapturePacket
  \/ NothingCaptured \/ CaptureBreaks \/ SecondRead \/ Tick
  \/ at = "done" /\ UNCHANGED vars

Spec == Init /\ [][Next]_vars

(* The thread runs and time passes, however many packets come; nothing has *)
(* to be captured.                                                         *)
FairSpec ==
  /\ Spec
  /\ WF_vars(FirstRead) /\ WF_vars(CaptureRefused \/ CaptureOpened)
  /\ WF_vars(NothingCaptured) /\ WF_vars(Tick) /\ WF_vars(SecondRead)

-----------------------------------------------------------------------------
(* Properties                                                              *)

(* Stage B probes an address once: whatever the cache and the traffic      *)
(* show, and in whatever order, no station is observed twice, nor the PC   *)
(* itself (add_observation).                                               *)
OneObservationPerStation ==
  /\ \A i, j \in DOMAIN observations : observations[i].ip = observations[j].ip => i = j
  /\ \A i \in DOMAIN observations : observations[i].ip # "own"

(* Observations are only added or completed: the order of first sight is   *)
(* kept, and a known hardware address is never replaced.                   *)
ObservationsOnlyGrow ==
  [][/\ Len(observations') >= Len(observations)
     /\ \A i \in DOMAIN observations :
          /\ observations'[i].ip = observations[i].ip
          /\ observations[i].mac # Empty => observations'[i].mac = observations[i].mac]_vars

(* "a second cache read fills in the missing hardware addresses": at the   *)
(* end each station that the cache knows is observed with its address.     *)
ResolvedAtTheEnd ==
  at = "done" =>
    \A o \in Range(select_neighbour_entries(last_table)) :
      o.ip # "own" => \E seen \in Range(observations) : seen.ip = o.ip /\ seen.mac # Empty

(* Listening takes the window and no longer, on a busy link too. *)
ListensInWindow == at = "capture" => clock <= deadline /\ poll_until <= deadline

(* The window ends, whether the link is silent or never silent. *)
DiscoveryEnds == <>(at = "done")

(* "Without it the tool reports the reason explicitly instead of claiming  *)
(* that no device exists" (README.md): when nothing was observed because   *)
(* Windows refused the capture, the error says so.                         *)
RefusalReported ==
  at = "done" /\ permission_denied /\ observations = <<>> => error = "no_capture"
=============================================================================
