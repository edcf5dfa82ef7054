----------------------------- MODULE SubnetSweep ----------------------------
(***************************************************************************)
(* The discovery stages as they run on the thread pool: sweep_for_ssh() of *)
(* src/scanner/subnet_sweep.cpp, called by stage_a_subnet_scan() and, when *)
(* that finds nothing, by stage_b_layer2(), then pool.shutdown(), all from *)
(* run() of src/main.cpp.  The main thread is the only caller of the pool. *)
(* A task is the position of an address in a stage; what a probe does      *)
(* inside is module SshProbe, here it ends with a verdict or an exception. *)
(***************************************************************************)
EXTENDS ThreadPool

CONSTANTS
  Main,        \* the main thread
  HostLists,   \* the lists of addresses a stage may have to probe
  MaxHosts     \* bound: the length of the longest list

Stages == {"subnet-scan", "layer2"}

Index == 1 .. MaxHosts

Hosts == UNION {{list[i] : i \in DOMAIN list} : list \in HostLists}

ASSUME SweepAssumption ==
  /\ Callers = {Main}
  /\ Tasks = Stages \X Index
  /\ MaxHosts \in Nat
  /\ \A list \in HostLists : list \in Seq(Hosts) /\ Len(list) <= MaxHosts

VARIABLES
  main,        \* where the main thread is in run()
  stage,
  addresses,   \* argument of sweep_for_ssh()
  submitted,   \* futures.size()
  collected,   \* how many futures the second loop has been through
  is_ssh,      \* the result a finished probe stored in its future
  found,
  devices

sweep == <<main, stage, addresses, submitted, collected, is_ssh, found, devices>>

SweepTypeOK ==
  /\ TypeOK
  /\ main \in {"choose", "sweep", "shutdown", "unwind", "settled", "threw"}
  /\ stage \in Stages
  /\ addresses \in HostLists \cup {<<>>}
  /\ submitted \in 0 .. Len(addresses)
  /\ collected \in 0 .. submitted
  /\ is_ssh \in [Tasks -> BOOLEAN]
  /\ Len(found) <= collected
  /\ Len(devices) <= Len(addresses)

SweepInit ==
  /\ Init
  /\ main = "choose"
  /\ stage = "subnet-scan"
  /\ addresses = <<>>
  /\ submitted = 0 /\ collected = 0
  /\ is_ssh = [t \in Tasks |-> FALSE]
  /\ found = <<>> /\ devices = <<>>

-----------------------------------------------------------------------------
(* run() has its pool, and the stage its addresses: those of the subnet,   *)
(* or the ones observed on the link.  The list may be empty.               *)
ChooseHosts ==
  /\ main = "choose" /\ ctor = "constructed"
  /\ main' = "sweep"
  /\ addresses' \in HostLists
  /\ UNCHANGED <<stage, submitted, collected, is_ssh, found, devices, vars>>

(* The constructor of the pool threw, so nothing is left to unwind. *)
NoThreads ==
  /\ main = "choose" /\ ctor = "threw"
  /\ main' = "threw"
  /\ UNCHANGED <<stage, addresses, submitted, collected, is_ssh, found,
                 devices, vars>>

(* One turn of the first loop, up to the notification in submit(). *)
SubmitProbe ==
  /\ main = "sweep" /\ submitted < Len(addresses)
  /\ Submit(Main, <<stage, submitted + 1>>)
  /\ submitted' = submitted + 1
  /\ UNCHANGED <<main, stage, addresses, collected, is_ssh, found, devices>>

(* Mutant: the second loop asks wait_for(0) and skips what is not ready. *)
CollectReady ==
  LET t == <<stage, collected + 1>>
  IN  /\ main = "sweep" /\ caller[Main] = "idle"
      /\ submitted = Len(addresses) /\ collected < submitted
      /\ collected' = collected + 1
      /\ found' = IF future[t] = "value" /\ is_ssh[t]
                    THEN Append(found, addresses[collected + 1]) ELSE found
      /\ UNCHANGED <<main, stage, addresses, submitted, is_ssh, devices, vars>>

(* One turn of the second loop: future.get() waits for the probe, and its  *)
(* exception counts as "no SSH server here".                               *)
CollectResult ==
  LET t == <<stage, collected + 1>>
  IN  /\ main = "sweep" /\ caller[Main] = "idle"
      /\ submitted = Len(addresses) /\ collected < submitted
      /\ future[t] \in Outcome
      /\ collected' = collected + 1
      /\ found' = IF future[t] = "value" /\ is_ssh[t]
                    THEN Append(found, addresses[collected + 1]) ELSE found
      /\ UNCHANGED <<main, stage, addresses, submitted, is_ssh, devices, vars>>

(* sweep_for_ssh() returns; without devices stage A is followed by B. *)
StageReturns ==
  /\ main = "sweep" /\ caller[Main] = "idle"
  /\ submitted = Len(addresses) /\ collected = submitted
  /\ devices' = found
  /\ IF found = <<>> /\ stage = "subnet-scan"
       THEN /\ main' = "choose" /\ stage' = "layer2"
            /\ submitted' = 0 /\ collected' = 0
       ELSE main' = "shutdown" /\ UNCHANGED <<stage, submitted, collected>>
  /\ UNCHANGED <<addresses, is_ssh, found, vars>>

(* An exception (memory, layer-2 discovery) unwinds the stage and run(). *)
StageThrows ==
  /\ main \in {"choose", "sweep"} /\ ctor = "constructed"
  /\ caller[Main] = "idle"
  /\ main' = "unwind"
  /\ UNCHANGED <<stage, addresses, submitted, collected, is_ssh, found,
                 devices, vars>>

(* pool.shutdown(), or ~ThreadPool() when run() is unwound. *)
ShutdownPool ==
  /\ main \in {"shutdown", "unwind"}
  /\ Shutdown(Main)
  /\ UNCHANGED sweep

PoolNotifies ==
  /\ NotifyOne(Main) \/ NotifyAll(Main)
  /\ UNCHANGED sweep

(* Mutant: the workers are detached, nobody waits for them. *)
PoolDetached ==
  /\ caller[Main] = "joining"
  /\ caller' = [caller EXCEPT ![Main] = "idle"]
  /\ joined' = TRUE /\ returned' = {Main}
  /\ main' = IF main = "shutdown" THEN "settled" ELSE "threw"
  /\ UNCHANGED <<ctor, spawned, tasks_, stopping_, pc, current, future, stage,
                 addresses, submitted, collected, is_ssh, found, devices>>

PoolJoined ==
  /\ Join(Main)
  /\ main' = IF main = "shutdown" THEN "settled" ELSE "threw"
  /\ UNCHANGED <<stage, addresses, submitted, collected, is_ssh, found, devices>>

-----------------------------------------------------------------------------
(* A worker executes probe_ssh(). *)
RunProbe(w) ==
  /\ \/ /\ RunTask(w, "value")
        /\ \E verdict \in BOOLEAN :
             is_ssh' = [is_ssh EXCEPT ![current[w]] = verdict]
     \/ RunTask(w, "exception") /\ UNCHANGED is_ssh
  /\ UNCHANGED <<main, stage, addresses, submitted, collected, found, devices>>

MainStep ==
  \/ ChooseHosts \/ NoThreads \/ SubmitProbe \/ CollectResult \/ StageReturns
  \/ ShutdownPool \/ PoolNotifies \/ PoolJoined

Worker(w) ==
  \/ (WaitForWork(w) \/ TakeTask(w) \/ ExitLoop(w)) /\ UNCHANGED sweep
  \/ RunProbe(w)

(* A process that was terminated, or has its devices, goes no further. *)
Over == ctor = "terminated" \/ main \in {"settled", "threw"}

SweepNext ==
  \/ /\ ~NoPool
     /\ \/ (Spawn \/ SpawnFails) /\ UNCHANGED sweep
        \/ \E w \in Workers : Worker(w) \/ (SpuriousWake(w) /\ UNCHANGED sweep)
  \/ MainStep
  \/ StageThrows
  \/ Over /\ UNCHANGED <<sweep, vars>>

SweepSpec == SweepInit /\ [][SweepNext]_<<sweep, vars>>

(* As for the pool; besides, the main thread never stops on its own. *)
SweepFairness ==
  /\ \A w \in Workers : WF_<<sweep, vars>>(~NoPool /\ Worker(w))
  /\ WF_<<sweep, vars>>((Spawn \/ SpawnFails) /\ UNCHANGED sweep)
  /\ WF_<<sweep, vars>>(MainStep)

FairSweepSpec == SweepSpec /\ SweepFairness

-----------------------------------------------------------------------------
(* Properties                                                              *)

(* When run() goes on to authenticate, and when it is unwound, no probe is *)
(* queued or under way (the shutdown() and ~ThreadPool() of main.cpp).     *)
QuietWhenOver == main \in {"settled", "threw"} /\ ctor = "constructed" => Drained

(* Discovery ends, with the process if it has to. *)
DiscoveryEnds == <>Over

(* "catch (const std::exception& error)" in main(): whatever goes wrong in *)
(* run(), a pool that cannot start its threads included, ends with one of  *)
(* the program's exit codes.                                               *)
ExceptionsReachMain == ctor # "terminated"

AnswerOf(t) ==
  CASE future[t] = "pending"              -> "asked"
    [] future[t] = "value" /\ is_ssh[t]   -> "ssh"
    [] future[t] = "value" /\ ~is_ssh[t]  -> "nothing"
    [] future[t] = "exception"            -> "nothing"
    [] OTHER                              -> "unasked"

PhaseOf ==
  CASE main = "choose" /\ ctor = "terminated" -> "aborted"
    [] main = "choose" /\ ctor # "terminated" -> "choosing"
    [] main = "sweep"    -> "probing"
    [] main = "shutdown" -> "closing"
    [] main = "unwind"   -> "failing"
    [] main = "settled"  -> "settled"
    [] main = "threw"    -> "failed"

Abstract == INSTANCE DiscoveryStages
              WITH phase  <- PhaseOf,
                   hosts  <- addresses,
                   answer <- [i \in Index |-> AnswerOf(<<stage, i>>)]

(* The order in which the workers finish cannot be seen in the result: the *)
(* stages on the pool implement the stages without one (DiscoveryStages).  *)
ImplementsStages == Abstract!Spec
=============================================================================
