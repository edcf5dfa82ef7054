--------------------------- MODULE DiscoveryStages --------------------------
(***************************************************************************)
(* What the two discovery stages of run() in src/main.cpp promise, without *)
(* the thread pool that does the work: a stage chooses its addresses, asks *)
(* each of them, and ends when all have answered; the devices are those    *)
(* that answered as SSH servers, in the order of the addresses.  Stage B   *)
(* follows only a stage A without devices.  An exception ends discovery,   *)
(* and no probe outlives it.                                               *)
(***************************************************************************)
EXTENDS Naturals, Sequences

CONSTANTS
  HostLists,   \* the lists of addresses a stage may choose, as sequences
  MaxHosts     \* bound: the length of the longest list

VARIABLES
  phase,      \* how far discovery is
  stage,      \* "subnet-scan" (A) or "layer2" (B)
  hosts,      \* the addresses of this stage
  answer,     \* what is known of each position of hosts
  devices     \* the result

vars == <<phase, stage, hosts, answer, devices>>

Stages == {"subnet-scan", "layer2"}

Index == 1 .. MaxHosts

Unasked == [i \in Index |-> "unasked"]

(* The addresses at the positions that pass the test, in their order. *)
Select(list, Test(_)) ==
  LET chosen[n \in 0 .. Len(list)] ==
        IF n = 0 THEN <<>>
        ELSE IF Test(n) THEN Append(chosen[n - 1], list[n])
        ELSE chosen[n - 1]
  IN  chosen[Len(list)]

Init ==
  /\ phase = "choosing"
  /\ stage = "subnet-scan"
  /\ hosts = <<>>
  /\ answer = Unasked
  /\ devices = <<>>

Choose(list) ==
  /\ phase = "choosing"
  /\ phase' = "probing"
  /\ hosts' = list
  /\ UNCHANGED <<stage, answer, devices>>

Ask(i) ==
  /\ phase = "probing"
  /\ i \in DOMAIN hosts /\ answer[i] = "unasked"
  /\ answer' = [answer EXCEPT ![i] = "asked"]
  /\ UNCHANGED <<phase, stage, hosts, devices>>

(* A probe ends; one that threw an exception found nothing. *)
Answer(i, verdict) ==
  /\ phase \in {"probing", "failing"}
  /\ answer[i] = "asked"
  /\ answer' = [answer EXCEPT ![i] = verdict]
  /\ UNCHANGED <<phase, stage, hosts, devices>>

Conclude ==
  /\ phase = "probing"
  /\ \A i \in DOMAIN hosts : answer[i] \in {"ssh", "nothing"}
  /\ devices' = Select(hosts, LAMBDA i : answer[i] = "ssh")
  /\ IF devices' = <<>> /\ stage = "subnet-scan"
       THEN phase' = "choosing" /\ stage' = "layer2" /\ answer' = Unasked
       ELSE phase' = "closing" /\ UNCHANGED <<stage, answer>>
  /\ UNCHANGED hosts

(* The pool is shut down: discovery is over. *)
Settle ==
  /\ phase = "closing"
  /\ phase' = "settled"
  /\ UNCHANGED <<stage, hosts, answer, devices>>

(* An exception leaves the stage; probes may still be under way. *)
Fail ==
  /\ phase \in {"choosing", "probing"}
  /\ phase' = "failing"
  /\ UNCHANGED <<stage, hosts, answer, devices>>

(* The exception leaves run(), or the pool never came into being. *)
Failed ==
  /\ phase = "failing" \/ (phase = "choosing" /\ stage = "subnet-scan")
  /\ \A i \in Index : answer[i] # "asked"
  /\ phase' = "failed"
  /\ UNCHANGED <<stage, hosts, answer, devices>>

(* std::terminate(), in the constructor of the pool. *)
Abort ==
  /\ phase = "choosing" /\ stage = "subnet-scan"
  /\ phase' = "aborted"
  /\ UNCHANGED <<stage, hosts, answer, devices>>

Next ==
  \/ \E list \in HostLists : Choose(list)
  \/ \E i \in Index : Ask(i) \/ \E verdict \in {"ssh", "nothing"} : Answer(i, verdict)
  \/ Conclude \/ Settle \/ Fail \/ Failed \/ Abort

Spec == Init /\ [][Next]_vars
=============================================================================
