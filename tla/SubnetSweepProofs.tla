-------------------------- MODULE SubnetSweepProofs -------------------------
(***************************************************************************)
(* Proofs about the thread pool, for every number of workers, callers and  *)
(* tasks, and about the discovery stages on it, for all lists of addresses.*)
(*                                                                         *)
(* The pool's inductive invariant adds to its safety properties what they  *)
(* rest on: how far the constructor got, which workers hold a task, and    *)
(* that a shutdown() in progress has set stopping_.  Every step of the     *)
(* stages is a step of the pool or leaves it alone, so it holds there too; *)
(* to it the invariant of the stages adds how far the main thread is,      *)
(* which futures it may have handed out, and what `found` has to be.       *)
(***************************************************************************)
EXTENDS SubnetSweep, DataFacts

-----------------------------------------------------------------------------
(* The pool.                                                               *)

(* The threads of workers_ are the first spawned ones, and nobody can use  *)
(* the pool before its constructor has returned (ThreadPool::ThreadPool).  *)
CtorInv ==
  /\ \A w \in Workers : pc[w] = "unspawned" <=> w > spawned
  /\ ctor = "constructed" => spawned = count
  /\ ctor = "constructing" => spawned < count
  /\ ctor # "constructed" => /\ tasks_ = <<>>
                             /\ ~stopping_
                             /\ \A c \in Callers : caller[c] = "idle"

(* A worker holds a task exactly while it executes one (worker_loop). *)
BusyInv == \A w \in Workers : pc[w] = "running" <=> current[w] # NoTask

(* Whoever notifies all or joins has set stopping_, and the join waits for *)
(* every worker (shutdown).                                                *)
ShutdownInv ==
  /\ \A c \in Callers : caller[c] \in {"notify_all", "joining"} => stopping_
  /\ joined => \A w \in Workers : pc[w] = "exited"

(* The inductive invariant of the pool. *)
IInv ==
  /\ TypeOK
  /\ CtorInv
  /\ BusyInv
  /\ EveryTaskInOnePlace
  /\ DrainBeforeExit
  /\ NoLostWakeup
  /\ ShutdownInv

-----------------------------------------------------------------------------
(* Facts about the pool's size and its queue                               *)

(* There is at least one worker, whatever worker_count is. *)
LEMMA CountFacts == count \in Nat /\ count >= 1 /\ 1 \in Workers
BY PoolAssumption DEF count, Workers

(* What TakeTask and Submit do to the positions of the queue: the head     *)
(* leaves and the others move up by one; a new task comes last.            *)
LEMMA QueueFacts ==
  ASSUME NEW S, NEW q \in Seq(S)
  PROVE  /\ DOMAIN q = 1 .. Len(q)
         /\ Len(q) \in Nat
         /\ \A i \in DOMAIN q : q[i] \in S
         /\ q # <<>> => /\ Len(q) > 0
                        /\ Head(q) = q[1]
                        /\ Head(q) \in S
                        /\ Tail(q) \in Seq(S)
                        /\ DOMAIN Tail(q) = 1 .. Len(q) - 1
                        /\ \A i \in 1 .. Len(q) - 1 : Tail(q)[i] = q[i + 1]
         /\ \A e \in S : /\ Append(q, e) \in Seq(S)
                         /\ Append(q, e) # <<>>
                         /\ DOMAIN Append(q, e) = 1 .. Len(q) + 1
                         /\ \A i \in 1 .. Len(q) : Append(q, e)[i] = q[i]
                         /\ Append(q, e)[Len(q) + 1] = e
<1>1. Len(q) \in Nat /\ DOMAIN q = 1 .. Len(q) /\ \A i \in DOMAIN q : q[i] \in S
  OBVIOUS
<1>2. ASSUME q # <<>>
      PROVE /\ Len(q) > 0
            /\ Head(q) = q[1]
            /\ Head(q) \in S
            /\ Tail(q) \in Seq(S)
            /\ DOMAIN Tail(q) = 1 .. Len(q) - 1
            /\ \A i \in 1 .. Len(q) - 1 : Tail(q)[i] = q[i + 1]
  BY <1>1, <1>2
<1>3. ASSUME NEW e \in S
      PROVE /\ Append(q, e) \in Seq(S)
            /\ Append(q, e) # <<>>
            /\ DOMAIN Append(q, e) = 1 .. Len(q) + 1
            /\ \A i \in 1 .. Len(q) : Append(q, e)[i] = q[i]
            /\ Append(q, e)[Len(q) + 1] = e
  BY <1>1
<1> QED BY <1>1, <1>2, <1>3

(* The pool starts in the invariant. *)
LEMMA InitInv == Init => IInv
<1> SUFFICES ASSUME Init PROVE IInv OBVIOUS
<1> USE CountFacts DEF Init
<1>1. TypeOK
  <2>1. joined \in BOOLEAN /\ stopping_ \in BOOLEAN
    BY Zenon
  <2>2. tasks_ \in Seq(Tasks)
    OBVIOUS
  <2> QED
    BY <2>1, <2>2 DEF TypeOK, CtorState, WorkerState, CallerState, FutureState
<1>2. CtorInv
  BY DEF CtorInv, Workers
<1>3. BusyInv /\ DrainBeforeExit /\ NoLostWakeup /\ ShutdownInv
  BY DEF BusyInv, DrainBeforeExit, NoLostWakeup, ShutdownInv
<1>4. EveryTaskInOnePlace
  BY PoolAssumption DEF EveryTaskInOnePlace, Queued, Running
<1> QED BY <1>1, <1>2, <1>3, <1>4 DEF IInv
-----------------------------------------------------------------------------
(* Every action preserves the invariant                                    *)

(* Starting a thread, or failing to start one, leaves the queue alone. *)
LEMMA CtorStepInv == IInv /\ (Spawn \/ SpawnFails) => IInv'
<1> SUFFICES ASSUME IInv, Spawn \/ SpawnFails PROVE IInv' OBVIOUS
<1> USE CountFacts
<1>1. CASE Spawn
  <2> USE <1>1 DEF IInv, Spawn
  <2>1. spawned + 1 \in Workers /\ spawned \in Nat
    BY DEF TypeOK, CtorInv, Workers
  <2>2. pc' = [pc EXCEPT ![spawned + 1] = "check"] /\ pc \in [Workers -> WorkerState]
    BY DEF TypeOK
  <2>3. TypeOK'
    <3>1. ctor' \in CtorState /\ spawned' \in 0 .. count /\ pc' \in [Workers -> WorkerState]
      BY <2>1, <2>2 DEF TypeOK, CtorState, WorkerState, Workers
    <3> QED BY <3>1 DEF TypeOK
  <2>4. CtorInv'
    BY <2>1, <2>2 DEF CtorInv, Workers
  <2>5. tasks_ = <<>> /\ ~stopping_ /\ pc[spawned + 1] = "unspawned"
    BY <2>1 DEF CtorInv
  <2>6. BusyInv'
    BY <2>1, <2>2, <2>5 DEF BusyInv
  <2>7. EveryTaskInOnePlace'
    BY DEF EveryTaskInOnePlace, Queued, Running
  <2>8. DrainBeforeExit' /\ NoLostWakeup' /\ ShutdownInv'
    BY <2>1, <2>2, <2>5 DEF DrainBeforeExit, NoLostWakeup, ShutdownInv
  <2> QED BY <2>3, <2>4, <2>6, <2>7, <2>8
<1>2. CASE SpawnFails
  <2> USE <1>2 DEF IInv, SpawnFails
  <2>1. TypeOK'
    BY DEF TypeOK, CtorState
  <2>2. CtorInv' /\ BusyInv'
    BY DEF CtorInv, BusyInv
  <2>3. EveryTaskInOnePlace'
    BY DEF EveryTaskInOnePlace, Queued, Running
  <2>4. DrainBeforeExit' /\ NoLostWakeup' /\ ShutdownInv'
    BY DEF DrainBeforeExit, NoLostWakeup, Asleep, ShutdownInv
  <2> QED BY <2>1, <2>2, <2>3, <2>4
<1> QED BY <1>1, <1>2

(* Blocking in cv_.wait, waking up and leaving the loop move one worker. *)
LEMMA WaitStepInv ==
  ASSUME NEW w \in Workers, IInv, WaitForWork(w) \/ SpuriousWake(w) \/ ExitLoop(w)
  PROVE  IInv'
<1> USE DEF IInv
<1> DEFINE moved == UNCHANGED <<ctor, spawned, joined, tasks_, stopping_,
                                current, future, caller, returned>>
<1>1. moved
  BY DEF WaitForWork, SpuriousWake, ExitLoop
<1>2. PICK l \in {"waiting", "check", "exited"} : pc' = [pc EXCEPT ![w] = l]
  BY DEF WaitForWork, SpuriousWake, ExitLoop
<1>3. pc[w] \in {"check", "waiting"}
  BY DEF WaitForWork, SpuriousWake, ExitLoop
<1>4. TypeOK'
  <2>1. pc' \in [Workers -> WorkerState]
    BY <1>2 DEF TypeOK, WorkerState
  <2> QED BY <1>1, <2>1 DEF TypeOK
<1>5. CtorInv' /\ BusyInv'
  BY <1>1, <1>2, <1>3 DEF TypeOK, CtorInv, BusyInv
<1>6. EveryTaskInOnePlace'
  BY <1>1 DEF EveryTaskInOnePlace, Queued, Running
<1>7. CASE WaitForWork(w)
  <2>1. DrainBeforeExit' /\ NoLostWakeup' /\ ShutdownInv'
    BY <1>7 DEF TypeOK, WaitForWork, DrainBeforeExit, NoLostWakeup, ShutdownInv
  <2> QED BY <1>4, <1>5, <1>6, <2>1
<1>8. CASE SpuriousWake(w)
  <2>1. DrainBeforeExit' /\ NoLostWakeup' /\ ShutdownInv'
    BY <1>8 DEF TypeOK, SpuriousWake, DrainBeforeExit, NoLostWakeup, Asleep, ShutdownInv
  <2> QED BY <1>4, <1>5, <1>6, <2>1
<1>9. CASE ExitLoop(w)
  <2>1. DrainBeforeExit' /\ NoLostWakeup' /\ ShutdownInv'
    BY <1>9 DEF TypeOK, ExitLoop, DrainBeforeExit, NoLostWakeup, ShutdownInv
  <2> QED BY <1>4, <1>5, <1>6, <2>1
<1> QED BY <1>7, <1>8, <1>9

(* Taking a task moves it from the head of the queue to one worker. *)
LEMMA TakeTaskInv == ASSUME NEW w \in Workers, IInv, TakeTask(w) PROVE IInv'
<1> USE DEF IInv, TakeTask
<1> DEFINE t == Head(tasks_)
<1>1. /\ t \in Tasks /\ t = tasks_[1] /\ t # NoTask
      /\ Len(tasks_) \in Nat /\ Len(tasks_) > 0 /\ DOMAIN tasks_ = 1 .. Len(tasks_)
      /\ tasks_' \in Seq(Tasks)
      /\ DOMAIN tasks_' = 1 .. Len(tasks_) - 1
      /\ \A i \in 1 .. Len(tasks_) - 1 : tasks_'[i] = tasks_[i + 1]
  BY QueueFacts, PoolAssumption DEF TypeOK
<1>2. TypeOK'
  BY <1>1 DEF TypeOK, WorkerState
<1>3. CtorInv'
  BY DEF TypeOK, CtorInv
<1>4. BusyInv'
  BY <1>1 DEF TypeOK, BusyInv
<1>5. \A u \in Workers : current'[u] = IF u = w THEN t ELSE current[u]
  BY DEF TypeOK
<1>6. current[w] = NoTask
  BY DEF BusyInv
<1>7. EveryTaskInOnePlace'
  <2>1. Queued(t) /\ ~Running(t)
    BY <1>1 DEF EveryTaskInOnePlace, Queued
  <2>2. \A s \in Tasks : Queued(s)' <=> Queued(s) /\ s # t
    <3> SUFFICES ASSUME NEW s \in Tasks PROVE Queued(s)' <=> Queued(s) /\ s # t OBVIOUS
    <3>1. ASSUME Queued(s)' PROVE Queued(s) /\ s # t
      <4>1. PICK i \in 1 .. Len(tasks_) - 1 : tasks_[i + 1] = s
        BY <1>1, <3>1 DEF Queued
      <4> QED BY <1>1, <4>1 DEF Queued, EveryTaskInOnePlace
    <3>2. ASSUME Queued(s), s # t PROVE Queued(s)'
      <4>1. PICK i \in 1 .. Len(tasks_) : tasks_[i] = s /\ i # 1
        BY <1>1, <3>2 DEF Queued
      <4>2. i - 1 \in 1 .. Len(tasks_) - 1 /\ tasks_'[i - 1] = s
        BY <1>1, <4>1
      <4> QED BY <1>1, <4>2 DEF Queued
    <3> QED BY <3>1, <3>2
  <2>3. \A s \in Tasks : Running(s)' <=> Running(s) \/ s = t
    BY <1>5, <1>6, PoolAssumption DEF Running
  <2>4. \A i, j \in DOMAIN tasks_' : tasks_'[i] = tasks_'[j] => i = j
    BY <1>1 DEF EveryTaskInOnePlace
  <2>5. \A u, v \in Workers :
          current'[u] = current'[v] => u = v \/ current'[u] = NoTask
    BY <1>5, <2>1 DEF EveryTaskInOnePlace, Running
  <2>6. \A s \in Tasks : future'[s] = future[s]
    OBVIOUS
  <2> QED
    BY <2>1, <2>2, <2>3, <2>4, <2>5, <2>6 DEF EveryTaskInOnePlace
<1>8. DrainBeforeExit' /\ NoLostWakeup' /\ ShutdownInv'
  BY DEF TypeOK, DrainBeforeExit, NoLostWakeup, Asleep, ShutdownInv
<1> QED BY <1>2, <1>3, <1>4, <1>7, <1>8

(* The end of a task makes its future ready, and it was nowhere else. *)
LEMMA RunTaskInv ==
  ASSUME NEW w \in Workers, NEW outcome \in Outcome, IInv, RunTask(w, outcome)
  PROVE  IInv'
<1> USE DEF IInv, RunTask
<1> DEFINE t == current[w]
<1>1. t \in Tasks /\ t # NoTask /\ outcome \in FutureState /\ outcome # "pending"
  BY DEF TypeOK, BusyInv, FutureState, Outcome
<1>2. TypeOK'
  BY <1>1 DEF TypeOK, WorkerState
<1>3. CtorInv' /\ BusyInv'
  BY <1>1 DEF TypeOK, CtorInv, BusyInv
<1>4. EveryTaskInOnePlace'
  <2>1. \A u \in Workers : current'[u] = IF u = w THEN NoTask ELSE current[u]
    BY DEF TypeOK
  <2>2. \A s \in Tasks : Running(s)' <=> Running(s) /\ s # t
    BY <2>1, <1>1, PoolAssumption DEF Running, EveryTaskInOnePlace
  <2>3. \A s \in Tasks : Queued(s)' <=> Queued(s)
    BY DEF Queued
  <2>4. ~Queued(t)
    BY <1>1 DEF EveryTaskInOnePlace, Running
  <2>5. \A s \in Tasks : future'[s] = IF s = t THEN outcome ELSE future[s]
    BY <1>1 DEF TypeOK
  <2>6. \A s \in Tasks : (future'[s] = "pending") <=> (Queued(s)' \/ Running(s)')
    BY <1>1, <2>2, <2>3, <2>4, <2>5 DEF EveryTaskInOnePlace
  <2>7. \A s \in Tasks : ~(Queued(s)' /\ Running(s)')
    BY <2>2, <2>3 DEF EveryTaskInOnePlace
  <2>8. \A u, v \in Workers :
          current'[u] = current'[v] => u = v \/ current'[u] = NoTask
    BY <2>1 DEF EveryTaskInOnePlace
  <2> QED BY <2>6, <2>7, <2>8 DEF EveryTaskInOnePlace
<1>5. DrainBeforeExit' /\ NoLostWakeup' /\ ShutdownInv'
  BY DEF TypeOK, DrainBeforeExit, NoLostWakeup, Asleep, ShutdownInv
<1> QED BY <1>2, <1>3, <1>4, <1>5
(* submit() puts a new task last in the queue; no worker has left yet. *)
LEMMA SubmitInv ==
  ASSUME NEW c \in Callers, NEW t \in Tasks, IInv, Submit(c, t)
  PROVE  IInv'
<1> USE DEF IInv, Submit
<1>1. /\ Len(tasks_) \in Nat /\ DOMAIN tasks_ = 1 .. Len(tasks_)
      /\ tasks_' \in Seq(Tasks) /\ tasks_' # <<>>
      /\ DOMAIN tasks_' = 1 .. Len(tasks_) + 1
      /\ \A i \in 1 .. Len(tasks_) : tasks_'[i] = tasks_[i]
      /\ tasks_'[Len(tasks_) + 1] = t
  BY QueueFacts DEF TypeOK
<1>2. TypeOK'
  BY <1>1 DEF TypeOK, CallerState, FutureState
<1>3. CtorInv' /\ BusyInv'
  BY DEF CtorInv, BusyInv
<1>4. EveryTaskInOnePlace'
  <2>1. ~Queued(t) /\ ~Running(t)
    BY DEF EveryTaskInOnePlace
  <2>2. \A s \in Tasks : Queued(s)' <=> Queued(s) \/ s = t
    <3> SUFFICES ASSUME NEW s \in Tasks PROVE Queued(s)' <=> Queued(s) \/ s = t OBVIOUS
    <3>1. ASSUME Queued(s)' PROVE Queued(s) \/ s = t
      <4>1. PICK i \in 1 .. Len(tasks_) + 1 : tasks_'[i] = s
        BY <1>1, <3>1 DEF Queued
      <4> QED BY <1>1, <4>1 DEF Queued
    <3>2. ASSUME Queued(s) PROVE Queued(s)'
      BY <1>1, <3>2 DEF Queued
    <3>3. ASSUME s = t PROVE Queued(s)'
      BY <1>1, <3>3 DEF Queued
    <3> QED BY <3>1, <3>2, <3>3
  <2>3. \A s \in Tasks : Running(s)' <=> Running(s)
    BY DEF Running
  <2>4. \A i, j \in DOMAIN tasks_' : tasks_'[i] = tasks_'[j] => i = j
    BY <1>1, <2>1 DEF EveryTaskInOnePlace, Queued
  <2>5. \A s \in Tasks : future'[s] = IF s = t THEN "pending" ELSE future[s]
    BY DEF TypeOK
  <2>6. \A s \in Tasks : (future'[s] = "pending") <=> (Queued(s)' \/ Running(s)')
    BY <2>2, <2>3, <2>5 DEF EveryTaskInOnePlace
  <2>7. \A s \in Tasks : ~(Queued(s)' /\ Running(s)')
    BY <2>1, <2>2, <2>3 DEF EveryTaskInOnePlace
  <2> QED BY <2>4, <2>6, <2>7 DEF EveryTaskInOnePlace
<1>5. caller'[c] = "notify_one"
  BY DEF TypeOK
<1>6. DrainBeforeExit' /\ NoLostWakeup' /\ ShutdownInv'
  BY <1>5 DEF TypeOK, DrainBeforeExit, NoLostWakeup, ShutdownInv
<1> QED BY <1>2, <1>3, <1>4, <1>6

(* A refused task enters neither the queue nor a worker. *)
LEMMA SubmitRefusedInv ==
  ASSUME NEW c \in Callers, NEW t \in Tasks, IInv, SubmitRefused(c, t)
  PROVE  IInv'
<1> USE DEF IInv, SubmitRefused
<1>1. TypeOK'
  BY DEF TypeOK, FutureState
<1>2. CtorInv' /\ BusyInv'
  BY DEF CtorInv, BusyInv
<1>3. EveryTaskInOnePlace'
  BY DEF TypeOK, EveryTaskInOnePlace, Queued, Running
<1>4. DrainBeforeExit' /\ NoLostWakeup' /\ ShutdownInv'
  BY DEF DrainBeforeExit, NoLostWakeup, Asleep, ShutdownInv
<1> QED BY <1>1, <1>2, <1>3, <1>4

(* A notification that wakes nobody is given up safely: the workers that   *)
(* are not waiting have looked, or will look, at the queue.                *)
LEMMA NobodyWaiting ==
  IInv /\ ctor = "constructed" /\ (\A w \in Workers : pc[w] # "waiting")
    => tasks_ = <<>> \/ \E w \in Workers : ~Asleep(w)
<1> SUFFICES ASSUME IInv, ctor = "constructed",
                    \A w \in Workers : pc[w] # "waiting",
                    \A w \in Workers : Asleep(w)
             PROVE  tasks_ = <<>>
  OBVIOUS
<1>1. pc[1] # "unspawned"
  BY CountFacts DEF IInv, CtorInv, Workers
<1>2. pc[1] = "exited"
  BY <1>1, CountFacts DEF Asleep
<1> QED BY <1>2, CountFacts DEF IInv, DrainBeforeExit

(* cv_.notify_one() *)
LEMMA NotifyOneInv == ASSUME NEW c \in Callers, IInv, NotifyOne(c) PROVE IInv'
<1> USE DEF IInv, NotifyOne
<1>1. ctor = "constructed"
  BY DEF CtorInv
<1>2. \A d \in Callers : caller'[d] = IF d = c THEN "idle" ELSE caller[d]
  BY DEF TypeOK
<1>3. EveryTaskInOnePlace'
  BY DEF EveryTaskInOnePlace, Queued, Running
<1>4. CASE \E w \in Workers : pc[w] = "waiting" /\ pc' = [pc EXCEPT ![w] = "check"]
  <2>1. PICK w \in Workers : pc[w] = "waiting" /\ pc' = [pc EXCEPT ![w] = "check"]
    BY <1>4
  <2>2. TypeOK'
    BY <2>1 DEF TypeOK, WorkerState, CallerState
  <2>3. CtorInv' /\ BusyInv'
    BY <1>1, <2>1 DEF TypeOK, CtorInv, BusyInv
  <2>4. DrainBeforeExit' /\ ShutdownInv'
    BY <1>2, <2>1 DEF TypeOK, DrainBeforeExit, ShutdownInv
  <2>5. NoLostWakeup'
    BY <1>2, <2>1 DEF TypeOK, NoLostWakeup, Asleep
  <2> QED BY <1>3, <2>2, <2>3, <2>4, <2>5
<1>5. CASE (\A w \in Workers : pc[w] # "waiting") /\ pc' = pc
  <2>1. TypeOK'
    BY <1>5 DEF TypeOK, CallerState
  <2>2. CtorInv' /\ BusyInv'
    BY <1>1, <1>5 DEF CtorInv, BusyInv
  <2>3. DrainBeforeExit' /\ ShutdownInv'
    BY <1>2, <1>5 DEF DrainBeforeExit, ShutdownInv
  <2>4. NoLostWakeup'
    BY <1>1, <1>5, NobodyWaiting DEF NoLostWakeup, Asleep
  <2> QED BY <1>3, <2>1, <2>2, <2>3, <2>4
<1> QED BY <1>4, <1>5

(* shutdown() up to its unlock, and its early return *)
LEMMA ShutdownStepInv ==
  ASSUME NEW c \in Callers, IInv, Shutdown(c) \/ ShutdownAgain(c)
  PROVE  IInv'
<1> USE DEF IInv
<1>1. EveryTaskInOnePlace'
  BY DEF Shutdown, ShutdownAgain, EveryTaskInOnePlace, Queued, Running
<1>2. CASE Shutdown(c)
  <2> USE <1>2 DEF Shutdown
  <2>1. TypeOK'
    <3>1. stopping_' \in BOOLEAN /\ caller' \in [Callers -> CallerState]
      BY DEF TypeOK, CallerState
    <3> QED BY <3>1 DEF TypeOK
  <2>2. caller'[c] = "notify_all"
    BY DEF TypeOK
  <2>3. CtorInv' /\ BusyInv' /\ DrainBeforeExit' /\ NoLostWakeup' /\ ShutdownInv'
    BY <2>2 DEF CtorInv, BusyInv, DrainBeforeExit, NoLostWakeup, Asleep, ShutdownInv
  <2> QED BY <1>1, <2>1, <2>3
<1>3. CASE ShutdownAgain(c)
  <2> USE <1>3 DEF ShutdownAgain
  <2>1. TypeOK'
    BY DEF TypeOK
  <2>2. CtorInv' /\ BusyInv' /\ DrainBeforeExit' /\ NoLostWakeup' /\ ShutdownInv'
    BY DEF CtorInv, BusyInv, DrainBeforeExit, NoLostWakeup, Asleep, ShutdownInv
  <2> QED BY <1>1, <2>1, <2>2
<1> QED BY <1>2, <1>3

(* cv_.notify_all() leaves no worker waiting. *)
LEMMA NotifyAllInv == ASSUME NEW c \in Callers, IInv, NotifyAll(c) PROVE IInv'
<1> USE DEF IInv, NotifyAll
<1>1. ctor = "constructed" /\ stopping_
  BY DEF CtorInv, ShutdownInv
<1>2. \A d \in Callers : caller'[d] = IF d = c THEN "joining" ELSE caller[d]
  BY DEF TypeOK
<1>3. \A w \in Workers : pc'[w] = IF pc[w] = "waiting" THEN "check" ELSE pc[w]
  OBVIOUS
<1>4. TypeOK'
  <2>1. pc' \in [Workers -> WorkerState] /\ caller' \in [Callers -> CallerState]
    BY DEF TypeOK, WorkerState, CallerState
  <2> QED BY <2>1 DEF TypeOK
<1>5. CtorInv' /\ BusyInv'
  BY <1>1, <1>3 DEF CtorInv, BusyInv
<1>6. EveryTaskInOnePlace'
  BY DEF EveryTaskInOnePlace, Queued, Running
<1>7. DrainBeforeExit' /\ ShutdownInv'
  BY <1>1, <1>2, <1>3 DEF DrainBeforeExit, ShutdownInv
<1>8. NoLostWakeup'
  <2>1. \A w \in Workers : pc'[w] # "waiting"
    BY <1>3
  <2>2. tasks_ # <<>> => \E w \in Workers : ~Asleep(w)'
    <3>1. CASE \E w \in Workers : pc[w] = "waiting"
      BY <1>3, <3>1 DEF Asleep
    <3>2. CASE \A w \in Workers : pc[w] # "waiting"
      BY <1>1, <1>3, <3>2, NobodyWaiting DEF Asleep
    <3> QED BY <3>1, <3>2
  <2> QED BY <2>1, <2>2 DEF NoLostWakeup
<1> QED BY <1>4, <1>5, <1>6, <1>7, <1>8

(* The loop of join() ends when every worker has left. *)
LEMMA JoinInv == ASSUME NEW c \in Callers, IInv, Join(c) PROVE IInv'
<1> USE DEF IInv, Join
<1>1. ctor = "constructed" /\ tasks_ = <<>>
  BY CountFacts DEF CtorInv, DrainBeforeExit
<1>2. TypeOK'
  <2>1. joined' \in BOOLEAN /\ caller' \in [Callers -> CallerState]
    BY DEF TypeOK, CallerState
  <2> QED BY <2>1 DEF TypeOK
<1>3. CtorInv' /\ BusyInv'
  BY <1>1 DEF CtorInv, BusyInv
<1>4. EveryTaskInOnePlace'
  BY DEF EveryTaskInOnePlace, Queued, Running
<1>5. DrainBeforeExit' /\ NoLostWakeup'
  BY <1>1 DEF DrainBeforeExit, NoLostWakeup
<1>6. ShutdownInv'
  BY DEF TypeOK, ShutdownInv
<1> QED BY <1>2, <1>3, <1>4, <1>5, <1>6

(* One step of the pool, or a step that is not the pool's, keeps IInv. *)
LEMMA NextInv == IInv /\ [Next]_vars => IInv'
<1> SUFFICES ASSUME IInv, [Next]_vars PROVE IInv' OBVIOUS
<1>1. CASE PoolStep
  BY <1>1, CtorStepInv, WaitStepInv, TakeTaskInv, RunTaskInv, SubmitInv,
     SubmitRefusedInv, NotifyOneInv, ShutdownStepInv, NotifyAllInv, JoinInv
     DEF PoolStep, WorkerStep, CallerStep
<1>2. CASE UNCHANGED vars
  BY <1>2 DEF vars, IInv, TypeOK, CtorInv, BusyInv, EveryTaskInOnePlace, Queued,
              Running, DrainBeforeExit, NoLostWakeup, Asleep, ShutdownInv
<1> QED BY <1>1, <1>2 DEF Next

(* The pool never leaves its inductive invariant. *)
THEOREM Invariance == Spec => []IInv
BY InitInv, NextInv, PTL DEF Spec

(* Every reachable state of ThreadPool has the declared types. *)
THEOREM TypeCorrect == Spec => []TypeOK
<1>1. IInv => TypeOK
  BY DEF IInv
<1> QED BY <1>1, Invariance, PTL

(* No accepted task is lost, and none is executed twice. *)
THEOREM NoTaskLost == Spec => []EveryTaskInOnePlace
<1>1. IInv => EveryTaskInOnePlace
  BY DEF IInv
<1> QED BY <1>1, Invariance, PTL

(* A worker leaves worker_loop() only when no work can be left or follow. *)
THEOREM ExitsDrained == Spec => []DrainBeforeExit
<1>1. IInv => DrainBeforeExit
  BY DEF IInv
<1> QED BY <1>1, Invariance, PTL

(* The notifications of submit() and shutdown() come late enough and are   *)
(* never lost, although they are sent without the mutex.                   *)
THEOREM WakeupsReachWorkers == Spec => []NoLostWakeup
<1>1. IInv => NoLostWakeup
  BY DEF IInv
<1> QED BY <1>1, Invariance, PTL

(* When every worker has left, nothing is queued, running or pending. *)
LEMMA AllLeftDrained == IInv /\ (\A w \in Workers : pc[w] = "exited") => Drained
<1>1. SUFFICES ASSUME IInv, \A w \in Workers : pc[w] = "exited" PROVE Drained
  OBVIOUS
<1>2. tasks_ = <<>>
  BY <1>1, CountFacts DEF IInv, DrainBeforeExit
<1>3. \A w \in Workers : current[w] = NoTask
  BY <1>1 DEF IInv, BusyInv
<1>4. \A t \in Tasks : ~Queued(t) /\ ~Running(t)
  BY <1>2, <1>3, PoolAssumption DEF Queued, Running
<1> QED BY <1>1, <1>2, <1>4 DEF IInv, EveryTaskInOnePlace, Drained

(* After the join of shutdown() nothing is queued, running or pending. *)
THEOREM JoinDrains == Spec => []JoinedMeansDrained
<1>1. IInv => JoinedMeansDrained
  BY AllLeftDrained DEF IInv, ShutdownInv, JoinedMeansDrained
<1> QED BY <1>1, Invariance, PTL

(* Every step of the pool is a step of its contract, or changes nothing    *)
(* that a user of the pool can observe.                                    *)
LEMMA ContractStep == IInv /\ IInv' /\ [Next]_vars => [Contract!Next]_(Contract!vars)
<1> SUFFICES ASSUME IInv, IInv', [Next]_vars,
                    ~ UNCHANGED <<future, stopping_, joined>>
             PROVE  Contract!Next
  BY DEF Contract!vars
<1>1. PoolStep
  BY DEF Next, vars
<1>2. ASSUME NEW w \in Workers, NEW outcome \in Outcome, RunTask(w, outcome)
      PROVE  Contract!Next
  <2>1. current[w] \in Tasks /\ Running(current[w])
    BY <1>2 DEF IInv, TypeOK, BusyInv, RunTask, Running
  <2>2. future[current[w]] = "pending"
    BY <2>1 DEF IInv, EveryTaskInOnePlace
  <2>3. Contract!Complete(current[w])
    BY <1>2, <2>2 DEF RunTask, Contract!Complete, Outcome
  <2> QED BY <2>1, <2>3 DEF Contract!Next
<1>3. ASSUME NEW c \in Callers, NEW t \in Tasks, Submit(c, t) \/ SubmitRefused(c, t)
      PROVE  Contract!Next
  BY <1>3 DEF Submit, SubmitRefused, Contract!Next, Contract!Accept, Contract!Refuse
<1>4. ASSUME NEW c \in Callers, Shutdown(c)
      PROVE  Contract!Next
  BY <1>4 DEF Shutdown, Contract!Next, Contract!Close
<1>5. ASSUME NEW c \in Callers, Join(c)
      PROVE  Contract!Next
  <2>1. joined' /\ stopping_ /\ UNCHANGED <<future, stopping_>>
    BY <1>5 DEF Join, IInv, ShutdownInv
  <2>2. ~joined
    BY <1>5, <2>1 DEF Join, IInv, TypeOK
  <2>3. \A t \in Tasks : future[t] # "pending"
    BY <1>5, AllLeftDrained DEF Join, Drained
  <2> QED BY <1>5, <2>1, <2>2, <2>3 DEF Join, Contract!Next, Contract!Drain
<1> QED
  BY <1>1, <1>2, <1>3, <1>4, <1>5
     DEF PoolStep, WorkerStep, CallerStep, Spawn, SpawnFails, WaitForWork,
         SpuriousWake, TakeTask, ExitLoop, NotifyOne, NotifyAll, ShutdownAgain

(* The pool implements PoolContract: its threads, its queue and its        *)
(* condition variable cannot be told from a set of tasks that each end     *)
(* once before the pool is drained.                                        *)
THEOREM PoolImplementsContract == Spec => ImplementsContract
<1>1. Init => Contract!Init
  BY DEF Init, Contract!Init
<1> QED
  BY <1>1, Invariance, ContractStep, PTL DEF Spec, ImplementsContract, Contract!Spec

-----------------------------------------------------------------------------
(* The stages on the pool.                                                 *)

MainPlaces == {"choose", "sweep", "shutdown", "unwind", "settled", "threw"}

(* The types of the main thread's variables, and the sizes of its lists. *)
MainTyped ==
  /\ main \in MainPlaces
  /\ stage \in Stages
  /\ addresses \in HostLists \cup {<<>>}
  /\ submitted \in 0 .. Len(addresses)
  /\ collected \in 0 .. submitted
  /\ is_ssh \in [Tasks -> BOOLEAN]
  /\ found \in Seq(Hosts) /\ Len(found) <= collected
  /\ devices \in Seq(Hosts) /\ Len(devices) <= Len(addresses)

(* Where the main thread is, against its pool: without a pool it has done  *)
(* nothing, it is over only when the pool was joined or never was, and it  *)
(* leaves a stage with all results or by an exception (run).               *)
PlaceInv ==
  /\ ctor # "constructed" => /\ main \in {"choose", "threw"}
                             /\ stage = "subnet-scan"
                             /\ \A t \in Tasks : future[t] = "none"
  /\ ctor = "constructing" => main = "choose"
  /\ main = "choose" => submitted = 0 /\ collected = 0 /\ devices = <<>>
  /\ main \in {"shutdown", "settled"} => collected = submitted /\ submitted = Len(addresses)
  /\ caller[Main] \in {"notify_all", "joining"} => main \in {"shutdown", "unwind"}
  /\ main \in {"settled", "threw"} /\ ctor = "constructed" => joined

(* The futures of a stage are handed out in order; those collected are     *)
(* ready, the other stage has none under way (sweep_for_ssh).              *)
FutureInv ==
  /\ \A i \in Index : i > submitted => future[<<stage, i>>] = "none"
  /\ \A i \in Index : i <= collected => future[<<stage, i>>] \in Outcome
  /\ stage = "subnet-scan" => \A i \in Index : future[<<"layer2", i>>] = "none"
  /\ stage = "layer2" => \A i \in Index : future[<<"subnet-scan", i>>] # "pending"

(* The loop of sweep_for_ssh() up to its n-th turn, as a function. *)
Collecting(f, n, list, s) ==
  f = [k \in 0 .. n |-> IF k = 0 THEN <<>>
                        ELSE IF AnswerOf(<<s, k>>) = "ssh" THEN Append(f[k - 1], list[k])
                        ELSE f[k - 1]]

(* `found` holds the addresses that answered as SSH servers among those    *)
(* collected, in their order, whichever worker was first.                  *)
FoundInv == \E f : Collecting(f, collected, addresses, stage) /\ found = f[collected]

(* The inductive invariant of the stages. *)
SweepInv ==
  /\ IInv
  /\ MainTyped
  /\ PlaceInv
  /\ FutureInv
  /\ FoundInv

-----------------------------------------------------------------------------
(* The stages use the pool as its specification allows                     *)

(* The positions of a list of addresses are tasks of the pool. *)
LEMMA TaskFacts ==
  /\ MaxHosts \in Nat
  /\ \A s \in Stages, i \in Index : <<s, i>> \in Tasks
  /\ \A t \in Tasks : \E s \in Stages, i \in Index : t = <<s, i>>
BY SweepAssumption DEF Stages, Index

(* The lengths of the lists and the counters of the two loops. *)
LEMMA SizeFacts ==
  ASSUME MainTyped
  PROVE  /\ Len(addresses) \in Nat /\ Len(addresses) <= MaxHosts
         /\ addresses \in Seq(Hosts)
         /\ submitted \in Nat /\ submitted <= Len(addresses)
         /\ collected \in Nat /\ collected <= submitted
<1>1. addresses \in Seq(Hosts) /\ Len(addresses) <= MaxHosts /\ MaxHosts \in Nat
  <2>1. CASE addresses \in HostLists
    BY <2>1, SweepAssumption
  <2>2. CASE addresses = <<>>
    BY <2>2, SweepAssumption
  <2> QED BY <2>1, <2>2 DEF MainTyped
<1>2. Len(addresses) \in Nat
  BY <1>1
<1>3. submitted \in Nat /\ submitted <= Len(addresses)
  BY <1>2 DEF MainTyped
<1> QED BY <1>1, <1>2, <1>3 DEF MainTyped

(* The main thread is a caller of the pool, and the only one. *)
LEMMA MainCalls == Main \in Callers /\ \A c \in Callers : c = Main
BY SweepAssumption

(* Every step of the stages is a step of the pool or leaves it alone. *)
LEMMA PoolStepping ==
  ASSUME IInv, MainTyped, [SweepNext]_<<sweep, vars>>
  PROVE  [Next]_vars
<1> USE MainCalls
<1>1. CASE UNCHANGED <<sweep, vars>>
  BY <1>1
<1>2. ASSUME ~NoPool, (Spawn \/ SpawnFails) /\ UNCHANGED sweep PROVE Next
  BY <1>2 DEF Next, PoolStep
<1>3. ASSUME ~NoPool, NEW w \in Workers,
             Worker(w) \/ (SpuriousWake(w) /\ UNCHANGED sweep)
      PROVE  Next
  <2>1. WorkerStep(w) \/ SpuriousWake(w)
    BY <1>3 DEF Worker, RunProbe, WorkerStep, Outcome
  <2> QED BY <1>3, <2>1 DEF Next, PoolStep
<1>4. CASE ChooseHosts \/ NoThreads \/ CollectResult \/ StageReturns \/ StageThrows
  BY <1>4 DEF ChooseHosts, NoThreads, CollectResult, StageReturns, StageThrows
<1>5. ASSUME SubmitProbe PROVE Next
  <2>1. <<stage, submitted + 1>> \in Tasks
    BY <1>5, TaskFacts, SizeFacts DEF SubmitProbe, MainTyped, Index
  <2>2. Submit(Main, <<stage, submitted + 1>>) /\ ~NoPool
    BY <1>5 DEF SubmitProbe, Submit, NoPool
  <2> QED BY <2>1, <2>2 DEF Next, PoolStep
<1>6. ASSUME ShutdownPool PROVE Next
  BY <1>6 DEF ShutdownPool, Shutdown, NoPool, Next, PoolStep
<1>7. ASSUME PoolNotifies \/ PoolJoined PROVE Next
  <2>1. CallerStep(Main) /\ caller[Main] # "idle"
    BY <1>7 DEF PoolNotifies, PoolJoined, CallerStep, NotifyOne, NotifyAll, Join
  <2>2. ~NoPool
    BY <2>1 DEF IInv, CtorInv, NoPool
  <2> QED BY <2>1, <2>2 DEF Next, PoolStep
<1> QED
  BY <1>1, <1>2, <1>3, <1>4, <1>5, <1>6, <1>7 DEF SweepNext, MainStep

(* The future of the task a worker executes is pending, so the stage that  *)
(* submitted it is the current one and has not collected it.               *)
LEMMA RunningFacts ==
  ASSUME SweepInv, NEW w \in Workers, pc[w] = "running"
  PROVE  \E i \in Index : /\ current[w] = <<stage, i>>
                          /\ future[<<stage, i>>] = "pending"
                          /\ i > collected /\ i <= submitted
<1>1. current[w] \in Tasks /\ future[current[w]] = "pending"
  <2>1. current[w] \in Tasks /\ Running(current[w])
    BY DEF SweepInv, IInv, TypeOK, BusyInv, Running
  <2> QED BY <2>1 DEF SweepInv, IInv, EveryTaskInOnePlace
<1>2. PICK s \in Stages, i \in Index : current[w] = <<s, i>>
  BY <1>1, TaskFacts
<1>3. s = stage
  BY <1>1, <1>2 DEF SweepInv, MainTyped, FutureInv, Stages
<1>4. ~(i <= collected) /\ ~(i > submitted)
  BY <1>1, <1>2, <1>3 DEF SweepInv, FutureInv, Outcome
<1>5. collected \in Nat /\ submitted \in Nat /\ i \in Nat
  BY SizeFacts DEF SweepInv, Index
<1> QED BY <1>1, <1>2, <1>3, <1>4, <1>5

(* The stages start in the invariant. *)
LEMMA SweepInitInv == SweepInit => SweepInv
<1> SUFFICES ASSUME SweepInit PROVE SweepInv OBVIOUS
<1>1. IInv
  BY InitInv DEF SweepInit
<1>2. MainTyped
  <2>1. is_ssh \in [Tasks -> BOOLEAN]
    BY Zenon DEF SweepInit
  <2>2. submitted \in 0 .. Len(addresses) /\ collected \in 0 .. submitted
    BY DEF SweepInit
  <2>3. found \in Seq(Hosts) /\ Len(found) <= collected /\ devices \in Seq(Hosts)
        /\ Len(devices) <= Len(addresses)
    BY DEF SweepInit
  <2> QED BY <2>1, <2>2, <2>3 DEF SweepInit, MainTyped, MainPlaces, Stages
<1>3. PlaceInv
  BY MainCalls DEF SweepInit, Init, PlaceInv
<1>4. FutureInv
  BY TaskFacts DEF SweepInit, Init, FutureInv, Stages, Index
<1>5. FoundInv
  <2>1. Collecting([k \in {0} |-> <<>>], 0, addresses, stage)
    BY DEF Collecting
  <2> QED BY <2>1 DEF SweepInit, FoundInv
<1> QED BY <1>1, <1>2, <1>3, <1>4, <1>5 DEF SweepInv

(* The types of the main thread's variables survive every step. *)
LEMMA MainTypedStep ==
  ASSUME SweepInv, [SweepNext]_<<sweep, vars>>
  PROVE  MainTyped'
<1> USE DEF SweepInv
<1>1. CASE UNCHANGED sweep
  BY <1>1 DEF sweep, MainTyped
<1>2. CASE ChooseHosts
  <2>1. addresses' \in HostLists /\ Len(addresses') \in Nat
    BY <1>2, SweepAssumption DEF ChooseHosts
  <2>2. submitted' = 0 /\ collected' = 0 /\ devices' = <<>> /\ Len(devices') = 0
    BY <1>2 DEF ChooseHosts, PlaceInv
  <2>3. /\ main' \in MainPlaces /\ stage' = stage /\ is_ssh' = is_ssh
        /\ found' = found /\ collected' = collected
    BY <1>2 DEF ChooseHosts, MainPlaces
  <2> QED BY <2>1, <2>2, <2>3 DEF MainTyped
<1>3. CASE NoThreads \/ StageThrows
  BY <1>3 DEF NoThreads, StageThrows, MainTyped, MainPlaces
<1>4. CASE SubmitProbe
  <2>1. submitted' \in 0 .. Len(addresses) /\ collected \in 0 .. submitted'
    BY <1>4, SizeFacts DEF SubmitProbe
  <2> QED BY <1>4, <2>1 DEF SubmitProbe, MainTyped
<1>5. CASE CollectResult
  <2>1. collected' \in 0 .. submitted /\ collected' = collected + 1
    BY <1>5, SizeFacts DEF CollectResult
  <2>2. addresses[collected + 1] \in Hosts
    BY <1>5, SizeFacts DEF CollectResult
  <2>3. Append(found, addresses[collected + 1]) \in Seq(Hosts)
        /\ Len(Append(found, addresses[collected + 1])) = Len(found) + 1
    BY <2>2 DEF MainTyped
  <2>4. found' \in Seq(Hosts) /\ Len(found') <= collected'
    BY <1>5, <2>1, <2>3, SizeFacts DEF CollectResult, MainTyped
  <2> QED BY <1>5, <2>1, <2>4 DEF CollectResult, MainTyped
<1>6. CASE StageReturns
  <2>1. main' \in MainPlaces /\ stage' \in Stages
    BY <1>6 DEF StageReturns, MainTyped, MainPlaces, Stages
  <2>2. /\ submitted' \in 0 .. Len(addresses) /\ collected' \in 0 .. submitted'
        /\ Len(found) <= collected'
    BY <1>6, SizeFacts DEF StageReturns, MainTyped
  <2>3. Len(found) <= Len(addresses)
    BY SizeFacts DEF MainTyped
  <2> QED BY <1>6, <2>1, <2>2, <2>3 DEF StageReturns, MainTyped
<1>7. CASE PoolJoined
  BY <1>7 DEF PoolJoined, MainTyped, MainPlaces
<1>8. ASSUME NEW w \in Workers, RunProbe(w) PROVE MainTyped'
  <2>1. UNCHANGED <<main, stage, addresses, submitted, collected, found, devices>>
    BY <1>8 DEF RunProbe
  <2>2. is_ssh' \in [Tasks -> BOOLEAN]
    BY <1>8 DEF RunProbe, MainTyped
  <2> QED BY <2>1, <2>2 DEF MainTyped
<1> QED
  BY <1>1, <1>2, <1>3, <1>4, <1>5, <1>6, <1>7, <1>8
     DEF SweepNext, MainStep, Worker, ShutdownPool, PoolNotifies

(* Where the main thread is, against its pool, after every step. *)
LEMMA PlaceStep ==
  ASSUME SweepInv, [SweepNext]_<<sweep, vars>>
  PROVE  PlaceInv'
<1> USE MainCalls DEF SweepInv
<1>1. CASE UNCHANGED <<sweep, ctor, caller, joined, future>>
  BY <1>1 DEF sweep, PlaceInv
<1>2. ASSUME Spawn \/ SpawnFails, UNCHANGED sweep PROVE PlaceInv'
  <2>1. ctor = "constructing" /\ UNCHANGED <<future, caller, joined>>
    BY <1>2 DEF Spawn, SpawnFails
  <2>2. main = "choose" /\ caller[Main] = "idle" /\ stage = "subnet-scan"
        /\ \A t \in Tasks : future[t] = "none"
    BY <2>1 DEF PlaceInv, IInv, CtorInv
  <2> QED BY <1>2, <2>1, <2>2 DEF sweep, PlaceInv
<1>3. CASE ChooseHosts \/ NoThreads \/ CollectResult
  BY <1>3 DEF ChooseHosts, NoThreads, CollectResult, PlaceInv, vars, IInv, CtorInv
<1>4. CASE SubmitProbe
  BY <1>4 DEF SubmitProbe, Submit, PlaceInv, IInv, TypeOK
<1>5. CASE StageReturns
  <2>1. ctor = "constructed" /\ UNCHANGED vars
    BY <1>5 DEF StageReturns, PlaceInv
  <2> QED BY <1>5, <2>1 DEF StageReturns, PlaceInv, vars
<1>6. CASE StageThrows
  BY <1>6 DEF StageThrows, PlaceInv, vars
<1>7. CASE ShutdownPool
  BY <1>7 DEF ShutdownPool, Shutdown, sweep, PlaceInv, IInv, TypeOK
<1>8. CASE PoolNotifies
  <2>1. caller'[Main] \in {"notify_all", "joining"} => caller[Main] = "notify_all"
    BY <1>8 DEF PoolNotifies, NotifyOne, NotifyAll, IInv, TypeOK
  <2>2. UNCHANGED <<ctor, joined, future, sweep>>
    BY <1>8 DEF PoolNotifies, NotifyOne, NotifyAll
  <2> QED BY <2>1, <2>2 DEF sweep, PlaceInv
<1>9. CASE PoolJoined
  <2>1. ctor = "constructed" /\ main \in {"shutdown", "unwind"}
    BY <1>9 DEF PoolJoined, Join, PlaceInv, IInv, CtorInv
  <2>2. joined' /\ caller'[Main] = "idle" /\ ctor' = ctor
    BY <1>9 DEF PoolJoined, Join, IInv, TypeOK
  <2> QED BY <1>9, <2>1, <2>2 DEF PoolJoined, PlaceInv
<1>10. ASSUME NEW w \in Workers, RunProbe(w) PROVE PlaceInv'
  <2>1. pc[w] = "running" /\ UNCHANGED <<ctor, caller, joined>>
    BY <1>10 DEF RunProbe, RunTask
  <2>2. ctor = "constructed"
    <3>1. PICK i \in Index : <<stage, i>> \in Tasks /\ future[<<stage, i>>] = "pending"
      BY <2>1, RunningFacts, TaskFacts DEF MainTyped
    <3> QED BY <3>1 DEF PlaceInv
  <2> QED BY <1>10, <2>1, <2>2 DEF RunProbe, PlaceInv
<1> QED
  BY <1>1, <1>2, <1>3, <1>4, <1>5, <1>6, <1>7, <1>8, <1>9, <1>10
     DEF SweepNext, MainStep, Worker, WaitForWork, TakeTask, ExitLoop, SpuriousWake,
         vars

(* The futures of the two stages after every step. *)
LEMMA FutureStep ==
  ASSUME SweepInv, [SweepNext]_<<sweep, vars>>
  PROVE  FutureInv'
<1> USE TaskFacts DEF SweepInv
<1>1. CASE UNCHANGED <<stage, submitted, collected, future>>
  BY <1>1 DEF FutureInv
<1>2. CASE SubmitProbe
  <2> DEFINE t == <<stage, submitted + 1>>
  <2>1. t \in Tasks /\ submitted \in Nat /\ collected \in Nat /\ collected <= submitted
    BY <1>2, SizeFacts DEF SubmitProbe, MainTyped, Index
  <2>2. future' = [future EXCEPT ![t] = "pending"] /\ future \in [Tasks -> FutureState]
    BY <1>2 DEF SubmitProbe, Submit, IInv, TypeOK
  <2>3. stage' = stage /\ stage \in Stages /\ submitted' = submitted + 1 /\ collected' = collected
    BY <1>2 DEF SubmitProbe, MainTyped
  <2>4. \A s \in Stages, i \in Index : 
          future'[<<s, i>>] = IF s = stage /\ i = submitted + 1 THEN "pending" ELSE future[<<s, i>>]
    BY <2>1, <2>2
  <2> QED BY <2>1, <2>3, <2>4 DEF FutureInv, Stages, Index
<1>3. CASE CollectResult
  BY <1>3, SizeFacts DEF CollectResult, FutureInv, vars, Index
<1>4. CASE StageReturns
  BY <1>4, SizeFacts DEF StageReturns, FutureInv, vars, Index, Outcome
<1>5. ASSUME NEW w \in Workers, RunProbe(w) PROVE FutureInv'
  <2>1. PICK i \in Index : /\ current[w] = <<stage, i>>
                           /\ i > collected /\ i <= submitted
    BY <1>5, RunningFacts DEF RunProbe, RunTask
  <2>2. PICK outcome \in Outcome : future' = [future EXCEPT ![<<stage, i>>] = outcome]
    BY <1>5, <2>1 DEF RunProbe, RunTask, Outcome
  <2>3. \A s \in Stages, j \in Index : 
          future'[<<s, j>>] = IF s = stage /\ j = i THEN outcome ELSE future[<<s, j>>]
    BY <2>2 DEF IInv, TypeOK
  <2>4. UNCHANGED <<stage, submitted, collected>> /\ stage \in Stages
    BY <1>5 DEF RunProbe, MainTyped
  <2> QED BY <2>1, <2>3, <2>4, SizeFacts DEF FutureInv, Stages, Index, Outcome
<1> QED
  BY <1>1, <1>2, <1>3, <1>4, <1>5
     DEF SweepNext, MainStep, Worker, WaitForWork, TakeTask, ExitLoop, SpuriousWake,
         vars, sweep, Spawn, SpawnFails, ChooseHosts, NoThreads, StageThrows,
         ShutdownPool, Shutdown, PoolNotifies, NotifyOne, NotifyAll, PoolJoined, Join

(* What was found depends only on the results already collected. *)
LEMMA FoundKept ==
  ASSUME FoundInv, collected \in Nat, UNCHANGED <<stage, collected, found>>,
         \A k \in 1 .. collected : /\ addresses'[k] = addresses[k]
                                   /\ AnswerOf(<<stage, k>>)' = AnswerOf(<<stage, k>>)
  PROVE  FoundInv'
<1>1. PICK f : Collecting(f, collected, addresses, stage) /\ found = f[collected]
  BY DEF FoundInv
<1>2. \A k \in 1 .. collected : (AnswerOf(<<stage, k>>) = "ssh")' <=> AnswerOf(<<stage, k>>) = "ssh"
  OBVIOUS
<1> DEFINE new == [k \in 0 .. collected |-> IF k = 0 THEN <<>>
                        ELSE IF AnswerOf(<<stage, k>>)' = "ssh" THEN Append(f[k - 1], addresses'[k])
                        ELSE f[k - 1]]
<1>3. f = new
  <2>1. \A k \in 0 .. collected : k # 0 => k \in 1 .. collected
    OBVIOUS
  <2> QED BY <1>1, <2>1 DEF Collecting
<1>4. Collecting(f, collected, addresses, stage)'
  BY <1>3 DEF Collecting
<1> QED BY <1>1, <1>4 DEF FoundInv

(* A turn of the second loop extends what was found by its own result. *)
LEMMA FoundGrows == ASSUME SweepInv, CollectResult PROVE FoundInv'
<1> DEFINE n == collected + 1
<1>1. collected \in Nat /\ collected' = n
  BY SizeFacts DEF SweepInv, CollectResult
<1>2. PICK f : Collecting(f, collected, addresses, stage) /\ found = f[collected]
  BY DEF SweepInv, FoundInv
<1>3. AnswerOf(<<stage, n>>) = "ssh" <=> future[<<stage, n>>] = "value" /\ is_ssh[<<stage, n>>]
  BY DEF AnswerOf
<1>4. found' = IF AnswerOf(<<stage, n>>) = "ssh" THEN Append(found, addresses[n]) ELSE found
  BY <1>3 DEF CollectResult
<1>5. UNCHANGED <<stage, addresses, future, is_ssh>>
  BY DEF CollectResult, vars
<1>6. \A t : AnswerOf(t)' = AnswerOf(t)
  BY <1>5 DEF AnswerOf
<1> DEFINE g == [k \in 0 .. n |-> IF k = n THEN found' ELSE f[k]]
<1>7. Collecting(g, n, addresses, stage)
  <2>1. \A k \in 0 .. n : g[k] = IF k = n THEN found' ELSE f[k]
    OBVIOUS
  <2>2. \A k \in 0 .. collected : 
          f[k] = IF k = 0 THEN <<>>
                 ELSE IF AnswerOf(<<stage, k>>) = "ssh" THEN Append(f[k - 1], addresses[k])
                 ELSE f[k - 1]
    BY <1>2, Zenon DEF Collecting
  <2>3. \A k \in 0 .. n :
          g[k] = IF k = 0 THEN <<>>
                 ELSE IF AnswerOf(<<stage, k>>) = "ssh" THEN Append(g[k - 1], addresses[k])
                 ELSE g[k - 1]
    <3> TAKE k \in 0 .. n
    <3>1. CASE k = n
      BY <3>1, <2>1, <1>1, <1>2, <1>4
    <3>2. CASE k # n
      BY <3>2, <2>1, <2>2, <1>1
    <3> QED BY <3>1, <3>2
  <2> QED BY <2>3 DEF Collecting
<1>8. found' = g[n]
  BY <1>1
<1>9. PICK h : Collecting(h, n, addresses, stage) /\ found' = h[n]
  BY <1>7, <1>8
<1>10. Collecting(h, collected, addresses, stage)'
  BY <1>1, <1>5, <1>6, <1>9 DEF Collecting
<1> QED BY <1>1, <1>9, <1>10 DEF FoundInv

(* `found` after every step: what was collected is never decided again. *)
LEMMA FoundStep ==
  ASSUME SweepInv, [SweepNext]_<<sweep, vars>>
  PROVE  FoundInv'
<1> USE SizeFacts DEF SweepInv
<1>1. CASE UNCHANGED <<stage, addresses, collected, found, future, is_ssh>>
  BY <1>1, FoundKept DEF AnswerOf
<1>2. CASE CollectResult
  BY <1>2, FoundGrows
<1>3. ASSUME collected' = 0, found' = <<>> PROVE FoundInv'
  <2>1. Collecting([k \in {0} |-> <<>>], collected, addresses, stage)'
    BY <1>3 DEF Collecting
  <2> QED BY <1>3, <2>1 DEF FoundInv
<1>4. CASE ChooseHosts
  BY <1>4, FoundKept DEF ChooseHosts, PlaceInv, vars, AnswerOf
<1>5. CASE StageReturns
  BY <1>5, <1>1, <1>3 DEF StageReturns, vars
<1>6. CASE SubmitProbe
  <2>1. \A k \in 1 .. collected : future'[<<stage, k>>] = future[<<stage, k>>]
    BY <1>6 DEF SubmitProbe, Submit, IInv, TypeOK
  <2>2. \A k \in 1 .. collected : AnswerOf(<<stage, k>>)' = AnswerOf(<<stage, k>>)
    BY <1>6, <2>1 DEF SubmitProbe, AnswerOf
  <2> QED BY <1>6, <2>2, FoundKept DEF SubmitProbe
<1>7. ASSUME NEW w \in Workers, RunProbe(w) PROVE FoundInv'
  <2>1. PICK i \in Index : current[w] = <<stage, i>> /\ i > collected
    BY <1>7, RunningFacts DEF RunProbe, RunTask
  <2>2. \A k \in 1 .. collected : /\ future'[<<stage, k>>] = future[<<stage, k>>]
                                  /\ is_ssh'[<<stage, k>>] = is_ssh[<<stage, k>>]
    <3>1. \A k \in 1 .. collected : <<stage, k>> \in Tasks /\ <<stage, k>> # current[w]
      BY <2>1, TaskFacts DEF Index, MainTyped
    <3>2. \A t \in Tasks : t # current[w] => future'[t] = future[t]
      BY <1>7 DEF RunProbe, RunTask, IInv, TypeOK
    <3>3. \A t \in Tasks : t # current[w] => is_ssh'[t] = is_ssh[t]
      BY <1>7 DEF RunProbe, MainTyped
    <3> QED BY <3>1, <3>2, <3>3
  <2>3. \A k \in 1 .. collected : AnswerOf(<<stage, k>>)' = AnswerOf(<<stage, k>>)
    BY <1>7, <2>2 DEF RunProbe, AnswerOf
  <2> QED BY <1>7, <2>3, FoundKept DEF RunProbe
<1> QED
  BY <1>1, <1>2, <1>4, <1>5, <1>6, <1>7
     DEF SweepNext, MainStep, Worker, WaitForWork, TakeTask, ExitLoop, SpuriousWake,
         vars, sweep, Spawn, SpawnFails, NoThreads, StageThrows,
         ShutdownPool, Shutdown, PoolNotifies, NotifyOne, NotifyAll, PoolJoined, Join

(* Every step of the stages preserves the invariant. *)
LEMMA SweepNextInv == SweepInv /\ [SweepNext]_<<sweep, vars>> => SweepInv'
BY PoolStepping, NextInv, MainTypedStep, PlaceStep, FutureStep, FoundStep
   DEF SweepInv

(* The invariant of the stages holds in every reachable state. *)
THEOREM SweepInvariance == SweepSpec => []SweepInv
BY SweepInitInv, SweepNextInv, PTL DEF SweepSpec

(* Every reachable state of SubnetSweep has the declared types; the loops  *)
(* of sweep_for_ssh() never read past a list or find more than they asked. *)
THEOREM SweepTypeCorrect == SweepSpec => []SweepTypeOK
<1>1. SweepInv => SweepTypeOK
  BY DEF SweepInv, IInv, MainTyped, MainPlaces, SweepTypeOK
<1> QED BY <1>1, SweepInvariance, PTL

(* When run() goes on to authenticate, or was unwound, no probe is queued  *)
(* or under way.                                                           *)
THEOREM QuietAtEnd == SweepSpec => []QuietWhenOver
<1>1. SweepInv => QuietWhenOver
  BY AllLeftDrained DEF SweepInv, PlaceInv, IInv, ShutdownInv, QuietWhenOver
<1> QED BY <1>1, SweepInvariance, PTL

-----------------------------------------------------------------------------
(* The stages on the pool implement the stages without one                 *)

(* The abstract phase, for every place of the main thread. *)
LEMMA PhaseFacts ==
  /\ main = "choose" /\ ctor = "terminated" => PhaseOf = "aborted"
  /\ main = "choose" /\ ctor # "terminated" => PhaseOf = "choosing"
  /\ main = "sweep"    => PhaseOf = "probing"
  /\ main = "shutdown" => PhaseOf = "closing"
  /\ main = "unwind"   => PhaseOf = "failing"
  /\ main = "settled"  => PhaseOf = "settled"
  /\ main = "threw"    => PhaseOf = "failed"
BY Zenon DEF PhaseOf

(* The same, of the state after a step. *)
LEMMA NextPhaseFacts ==
  /\ main' = "choose" /\ ctor' = "terminated" => PhaseOf' = "aborted"
  /\ main' = "choose" /\ ctor' # "terminated" => PhaseOf' = "choosing"
  /\ main' = "sweep"    => PhaseOf' = "probing"
  /\ main' = "shutdown" => PhaseOf' = "closing"
  /\ main' = "unwind"   => PhaseOf' = "failing"
  /\ main' = "settled"  => PhaseOf' = "settled"
  /\ main' = "threw"    => PhaseOf' = "failed"
BY Zenon DEF PhaseOf

(* What a future says, as the answer of an address. *)
LEMMA AnswerFacts ==
  ASSUME NEW t
  PROVE  /\ future[t] = "none" => AnswerOf(t) = "unasked"
         /\ future[t] = "pending" => AnswerOf(t) = "asked"
         /\ future[t] = "value" /\ is_ssh[t] => AnswerOf(t) = "ssh"
         /\ future[t] = "value" /\ ~is_ssh[t] => AnswerOf(t) = "nothing"
         /\ future[t] = "exception" => AnswerOf(t) = "nothing"
         /\ future[t] # "pending" => AnswerOf(t) # "asked"
BY Zenon DEF AnswerOf

(* The same, of the state after a step. *)
LEMMA NextAnswerFacts ==
  ASSUME NEW t
  PROVE  /\ future'[t] = "none" => AnswerOf(t)' = "unasked"
         /\ future'[t] = "pending" => AnswerOf(t)' = "asked"
         /\ future'[t] = "value" /\ is_ssh'[t] => AnswerOf(t)' = "ssh"
         /\ future'[t] = "value" /\ ~is_ssh'[t] => AnswerOf(t)' = "nothing"
         /\ future'[t] = "exception" => AnswerOf(t)' = "nothing"
BY Zenon DEF AnswerOf

(* The answers of the current stage, as DiscoveryStages sees them. *)
Answers == [i \in Index |-> AnswerOf(<<stage, i>>)]

(* Once all results are collected, `found` is what DiscoveryStages selects *)
(* from the answers: both loops compute the same sequence.                 *)
LEMMA FoundIsSelected ==
  ASSUME SweepInv, collected = Len(addresses),
         \A k \in 1 .. collected : Answers[k] = AnswerOf(<<stage, k>>)
  PROVE  found = Abstract!Select(addresses, LAMBDA i : Answers[i] = "ssh")
<1> DEFINE Step(c) == [n \in 0 .. Len(addresses) |->
                         IF n = 0 THEN <<>>
                         ELSE IF Answers[n] = "ssh" THEN Append(c[n - 1], addresses[n])
                         ELSE c[n - 1]]
           chosen == CHOOSE c : c = Step(c)
<1>1. Abstract!Select(addresses, LAMBDA i : Answers[i] = "ssh") = chosen[Len(addresses)]
  BY Zenon DEF Abstract!Select
<1>2. PICK f : Collecting(f, collected, addresses, stage) /\ found = f[collected]
  BY DEF SweepInv, FoundInv
<1>3. collected \in Nat
  BY SizeFacts DEF SweepInv
<1>4. f = Step(f)
  <2>1. \A k \in 0 .. collected : k # 0 => k \in 1 .. collected
    BY <1>3
  <2> QED BY <1>2, <2>1 DEF Collecting
<1>5. \E c : c = Step(c)
  BY <1>4, Zenon
<1>6. chosen = Step(chosen)
  <2> HIDE DEF Step
  <2> QED BY <1>5, Zenon
<1> HIDE DEF chosen
<1>7. \A n \in 0 .. collected : chosen[n] = f[n]
  <2> DEFINE Bad == {n \in 0 .. collected : chosen[n] # f[n]}
  <2>1. SUFFICES ASSUME Bad # {} PROVE FALSE
    OBVIOUS
  <2>2. PICK x \in Bad : \A y \in Bad : x <= y
    <3>1. Bad \subseteq Nat
      BY <1>3
    <3> HIDE DEF Bad
    <3> QED BY <2>1, <3>1, LeastNat, Zenon
  <2>3. x \in Nat /\ x <= collected /\ x \in 0 .. Len(addresses) /\ chosen[x] # f[x]
    BY <1>3, <2>2
  <2>4. /\ chosen[x] = IF x = 0 THEN <<>>
                       ELSE IF Answers[x] = "ssh" THEN Append(chosen[x - 1], addresses[x])
                       ELSE chosen[x - 1]
        /\ f[x] = IF x = 0 THEN <<>>
                  ELSE IF Answers[x] = "ssh" THEN Append(f[x - 1], addresses[x])
                  ELSE f[x - 1]
    BY <1>4, <1>6, <2>3, Zenon
  <2>5. x # 0 => x - 1 \in 0 .. collected /\ ~(x - 1 \in Bad)
    BY <2>2, <2>3
  <2>6. x # 0 => chosen[x - 1] = f[x - 1]
    BY <2>5
  <2> QED BY <2>3, <2>4, <2>6
<1>8. chosen[Len(addresses)] = f[collected]
  BY <1>3, <1>7
<1> QED BY <1>1, <1>2, <1>8

(* The end of sweep_for_ssh() is the abstract stage's conclusion. *)
LEMMA ReturnsConcludes ==
  ASSUME SweepInv, StageReturns
  PROVE  Abstract!Conclude
<1> USE DEF SweepInv
<1>1. /\ main = "sweep" /\ collected = Len(addresses) /\ collected \in Nat
      /\ collected <= MaxHosts
      /\ UNCHANGED <<addresses, is_ssh, future, ctor>> /\ devices' = found
  BY SizeFacts DEF StageReturns, vars
<1>2. PhaseOf = "probing" /\ MaxHosts \in Nat /\ ctor = "constructed"
  BY <1>1, PhaseFacts, TaskFacts DEF PlaceInv
<1>3. \A i \in DOMAIN addresses : i \in Index /\ AnswerOf(<<stage, i>>) \in {"ssh", "nothing"}
  <2> TAKE i \in DOMAIN addresses
  <2>1. i \in Index /\ i <= collected
    BY <1>1, <1>2, SizeFacts DEF Index
  <2>2. future[<<stage, i>>] \in Outcome
    BY <2>1 DEF FutureInv
  <2> QED BY <2>1, <2>2, AnswerFacts DEF Outcome
<1>4. \A i \in DOMAIN addresses : Answers[i] \in {"ssh", "nothing"}
  BY <1>3 DEF Answers
<1>5. devices' = Abstract!Select(addresses, LAMBDA i : Answers[i] = "ssh")
  <2>1. \A k \in 1 .. collected : Answers[k] = AnswerOf(<<stage, k>>)
    BY <1>1, <1>2 DEF Answers, Index
  <2>2. found = Abstract!Select(addresses, LAMBDA i : Answers[i] = "ssh")
    BY <1>1, <2>1, FoundIsSelected, Zenon
  <2> QED BY <1>1, <2>2, Zenon
<1>6. IF devices' = <<>> /\ stage = "subnet-scan"
        THEN PhaseOf' = "choosing" /\ stage' = "layer2" /\ Answers' = Abstract!Unasked
        ELSE PhaseOf' = "closing" /\ UNCHANGED <<stage, Answers>>
  <2>1. CASE devices' = <<>> /\ stage = "subnet-scan"
    <3>1. main' = "choose" /\ stage' = "layer2" /\ ctor' # "terminated"
      BY <1>1, <1>2, <2>1 DEF StageReturns
    <3>2. \A i \in Index : AnswerOf(<<stage, i>>)' = "unasked"
      BY <1>1, <2>1, <3>1, NextAnswerFacts DEF FutureInv
    <3>3. Answers' = Abstract!Unasked
      BY <3>2 DEF Answers, Abstract!Unasked, Index, Abstract!Index
    <3> QED BY <2>1, <3>1, <3>3, NextPhaseFacts
  <2>2. CASE ~(devices' = <<>> /\ stage = "subnet-scan")
    <3>1. main' = "shutdown" /\ stage' = stage
      BY <1>1, <2>2 DEF StageReturns
    <3>2. Answers' = Answers
      BY <1>1, <3>1 DEF Answers, AnswerOf
    <3> QED BY <2>2, <3>1, <3>2, NextPhaseFacts
  <2> QED BY <2>1, <2>2
<1> QED
  BY <1>1, <1>2, <1>4, <1>5, <1>6, Zenon DEF Abstract!Conclude, Answers

(* Nothing that the stages promise changes while the pool is at work, the  *)
(* results are collected, or the pool shuts down.                          *)
LEMMA StagesStutter ==
  ASSUME UNCHANGED <<stage, addresses, devices, future, is_ssh>>, PhaseOf' = PhaseOf
  PROVE  UNCHANGED Abstract!vars
<1>1. Answers' = Answers
  BY DEF Answers, AnswerOf
<1> QED BY <1>1, Zenon DEF Abstract!vars, Answers

(* submit() asks the next address. *)
LEMMA SubmitAsks ==
  ASSUME SweepInv, SubmitProbe
  PROVE  \E i \in Index : Abstract!Ask(i)
<1> USE DEF SweepInv
<1>0. PICK i : i = submitted + 1
  OBVIOUS
<1>1. /\ i \in Index /\ i \in DOMAIN addresses /\ stage \in Stages
      /\ main = "sweep"
      /\ UNCHANGED <<main, stage, addresses, devices, is_ssh>>
  BY <1>0, TaskFacts, SizeFacts DEF SubmitProbe, MainTyped, Index
<1>2. /\ future[<<stage, i>>] = "none"
      /\ future' = [future EXCEPT ![<<stage, i>>] = "pending"]
      /\ future \in [Tasks -> FutureState]
  BY <1>0 DEF SubmitProbe, Submit, IInv, TypeOK
<1>3. \A j \in Index : future'[<<stage, j>>] = IF j = i THEN "pending" ELSE future[<<stage, j>>]
  BY <1>1, <1>2, TaskFacts
<1>4. AnswerOf(<<stage, i>>) = "unasked" /\ AnswerOf(<<stage, i>>)' = "asked"
  BY <1>1, <1>2, <1>3, AnswerFacts, NextAnswerFacts
<1>5. \A j \in Index : j # i => AnswerOf(<<stage, j>>)' = AnswerOf(<<stage, j>>)
  BY <1>1, <1>3, Zenon DEF AnswerOf
<1>6. Answers[i] = "unasked" /\ Answers' = [Answers EXCEPT ![i] = "asked"]
  BY <1>1, <1>4, <1>5 DEF Answers
<1>7. PhaseOf = "probing" /\ PhaseOf' = "probing"
  BY <1>1, PhaseFacts, NextPhaseFacts
<1>8. Abstract!Ask(i)
  BY <1>1, <1>6, <1>7, Zenon DEF Abstract!Ask, Answers
<1> QED BY <1>1, <1>8, Zenon

(* A probe that ends answers for its address, while the stage waits for it *)
(* or is being unwound.                                                    *)
LEMMA ProbeAnswers ==
  ASSUME SweepInv, NEW w \in Workers, RunProbe(w)
  PROVE  \E i \in Index, verdict \in {"ssh", "nothing"} : Abstract!Answer(i, verdict)
<1> USE DEF SweepInv
<1>1. PICK i \in Index : /\ current[w] = <<stage, i>>
                         /\ future[<<stage, i>>] = "pending"
                         /\ i > collected /\ i <= submitted
  BY RunningFacts DEF RunProbe, RunTask
<1>2. stage \in Stages /\ <<stage, i>> \in Tasks
  BY TaskFacts DEF MainTyped
<1>3. main \in {"sweep", "unwind"}
  <2>1. i \in Nat /\ collected \in Nat /\ submitted \in Nat
    BY SizeFacts DEF Index
  <2>2. main \notin {"choose", "shutdown", "settled"}
    BY <1>1, <2>1 DEF PlaceInv
  <2>3. main # "threw"
    BY <1>1, <1>2 DEF PlaceInv, IInv, ShutdownInv, RunProbe, RunTask
  <2> QED BY <2>2, <2>3 DEF MainTyped, MainPlaces
<1>4. UNCHANGED <<main, stage, addresses, devices>>
  BY DEF RunProbe
<1>5. /\ future'[<<stage, i>>] \in Outcome
      /\ \A j \in Index : j # i => /\ future'[<<stage, j>>] = future[<<stage, j>>]
                                   /\ is_ssh'[<<stage, j>>] = is_ssh[<<stage, j>>]
  <2>1. future'[<<stage, i>>] \in Outcome
    BY <1>1, <1>2 DEF RunProbe, RunTask, IInv, TypeOK, Outcome
  <2>2. \A t \in Tasks : t # current[w] => future'[t] = future[t]
    BY DEF RunProbe, RunTask, IInv, TypeOK
  <2>3. \A t \in Tasks : t # current[w] => is_ssh'[t] = is_ssh[t]
    BY DEF RunProbe, MainTyped
  <2>4. \A j \in Index : j # i => <<stage, j>> \in Tasks /\ <<stage, j>> # current[w]
    BY <1>1, <1>2, TaskFacts
  <2> QED BY <2>1, <2>2, <2>3, <2>4
<1>6. PICK verdict \in {"ssh", "nothing"} : AnswerOf(<<stage, i>>)' = verdict
  BY <1>4, <1>5, NextAnswerFacts DEF Outcome
<1>7. AnswerOf(<<stage, i>>) = "asked"
  BY <1>1, AnswerFacts
<1>8. \A j \in Index : j # i => AnswerOf(<<stage, j>>)' = AnswerOf(<<stage, j>>)
  BY <1>4, <1>5, Zenon DEF AnswerOf
<1>9. Answers[i] = "asked" /\ Answers' = [Answers EXCEPT ![i] = verdict]
  BY <1>4, <1>6, <1>7, <1>8 DEF Answers
<1>10. PhaseOf \in {"probing", "failing"} /\ PhaseOf' = PhaseOf
  BY <1>3, <1>4, PhaseFacts, NextPhaseFacts
<1>11. Abstract!Answer(i, verdict)
  BY <1>4, <1>9, <1>10, Zenon DEF Abstract!Answer, Answers
<1> QED BY <1>6, <1>11, Zenon

(* Without pending futures no address is still asked. *)
LEMMA NobodyAsked ==
  ASSUME SweepInv, \A t \in Tasks : future[t] # "pending"
  PROVE  \A i \in Index : Answers[i] # "asked"
<1>1. \A i \in Index : <<stage, i>> \in Tasks
  BY TaskFacts DEF SweepInv, MainTyped
<1> QED BY <1>1, AnswerFacts DEF Answers

(* Every step of the main thread and of the workers is a step of the       *)
(* stages without a pool, or changes nothing they promise.                 *)
LEMMA StagesStep ==
  ASSUME SweepInv, [SweepNext]_<<sweep, vars>>
  PROVE  [Abstract!Next]_(Abstract!vars)
<1> USE MainCalls DEF SweepInv
<1> DEFINE same == UNCHANGED <<stage, addresses, devices, future, is_ssh>>
<1>1. ASSUME same, UNCHANGED <<main, ctor>> PROVE UNCHANGED Abstract!vars
  <2>1. PhaseOf' = PhaseOf
    BY <1>1 DEF PhaseOf
  <2> QED BY <1>1, <2>1, StagesStutter
<1>2. ASSUME Spawn \/ SpawnFails, UNCHANGED sweep
      PROVE  Abstract!Abort \/ UNCHANGED Abstract!vars
  <2>1. same /\ ctor = "constructing" /\ main = "choose" /\ main' = main
        /\ stage = "subnet-scan"
    BY <1>2 DEF Spawn, SpawnFails, sweep, PlaceInv
  <2>2. PhaseOf = "choosing"
    BY <2>1, PhaseFacts
  <2>3. CASE ctor' # "terminated"
    <3>1. PhaseOf' = PhaseOf
      BY <2>1, <2>2, <2>3, NextPhaseFacts
    <3> QED BY <2>1, <3>1, StagesStutter
  <2>4. CASE ctor' = "terminated"
    <3>1. PhaseOf' = "aborted"
      BY <2>1, <2>4, NextPhaseFacts
    <3>2. Answers' = Answers
      BY <2>1 DEF Answers, AnswerOf
    <3> QED BY <2>1, <2>2, <3>1, <3>2, Zenon DEF Abstract!Abort, Answers
  <2> QED BY <2>3, <2>4
<1>3. ASSUME ChooseHosts PROVE \E list \in HostLists : Abstract!Choose(list)
  <2>1. /\ UNCHANGED <<stage, devices, future, is_ssh>> /\ addresses' \in HostLists
        /\ main = "choose" /\ ctor # "terminated" /\ main' = "sweep"
    BY <1>3 DEF ChooseHosts, vars
  <2>2. PhaseOf = "choosing" /\ PhaseOf' = "probing"
    BY <2>1, PhaseFacts, NextPhaseFacts
  <2>3. Answers' = Answers
    BY <2>1 DEF Answers, AnswerOf
  <2> QED BY <2>1, <2>2, <2>3, Zenon DEF Abstract!Choose, Answers
<1>4. ASSUME NoThreads PROVE Abstract!Failed
  <2>1. /\ same /\ main = "choose" /\ ctor = "threw" /\ main' = "threw"
        /\ stage = "subnet-scan" /\ \A t \in Tasks : future[t] # "pending"
    BY <1>4 DEF NoThreads, PlaceInv, vars
  <2>2. PhaseOf = "choosing" /\ PhaseOf' = "failed"
    BY <2>1, PhaseFacts, NextPhaseFacts
  <2>3. Answers' = Answers /\ \A i \in Index : Answers[i] # "asked"
    BY <2>1, NobodyAsked DEF Answers, AnswerOf
  <2> QED BY <2>1, <2>2, <2>3, Zenon DEF Abstract!Failed, Answers, Index, Abstract!Index
<1>5. ASSUME StageThrows PROVE Abstract!Fail
  <2>1. /\ same /\ main \in {"choose", "sweep"} /\ ctor # "terminated"
        /\ main' = "unwind"
    BY <1>5 DEF StageThrows, vars
  <2>2. PhaseOf \in {"choosing", "probing"} /\ PhaseOf' = "failing"
    BY <2>1, PhaseFacts, NextPhaseFacts
  <2>3. Answers' = Answers
    BY <2>1 DEF Answers, AnswerOf
  <2> QED BY <2>1, <2>2, <2>3, Zenon DEF Abstract!Fail, Answers
<1>6. ASSUME PoolJoined PROVE Abstract!Settle \/ Abstract!Failed
  <2>1. /\ same /\ main \in {"shutdown", "unwind"}
        /\ main' = IF main = "shutdown" THEN "settled" ELSE "threw"
    BY <1>6 DEF PoolJoined, Join, PlaceInv
  <2>2. \A t \in Tasks : future[t] # "pending"
    BY <1>6, AllLeftDrained DEF PoolJoined, Join, Drained
  <2>3. Answers' = Answers /\ \A i \in Index : Answers[i] # "asked"
    BY <2>1, <2>2, NobodyAsked DEF Answers, AnswerOf
  <2>4. CASE main = "shutdown"
    <3>1. PhaseOf = "closing" /\ PhaseOf' = "settled"
      BY <2>1, <2>4, PhaseFacts, NextPhaseFacts
    <3> QED BY <2>1, <2>3, <3>1, Zenon DEF Abstract!Settle, Answers
  <2>5. CASE main = "unwind"
    <3>1. PhaseOf = "failing" /\ PhaseOf' = "failed"
      BY <2>1, <2>5, PhaseFacts, NextPhaseFacts
    <3> QED BY <2>1, <2>3, <3>1, Zenon DEF Abstract!Failed, Answers, Index, Abstract!Index
  <2> QED BY <2>1, <2>4, <2>5
<1>7. ASSUME SubmitProbe PROVE Abstract!Next
  BY <1>7, SubmitAsks, Zenon DEF Abstract!Next, Abstract!Index, Index
<1>8. ASSUME NEW w \in Workers, RunProbe(w) PROVE Abstract!Next
  BY <1>8, ProbeAnswers, Zenon DEF Abstract!Next, Abstract!Index, Index
<1>9. ASSUME StageReturns PROVE Abstract!Next
  BY <1>9, ReturnsConcludes, Zenon DEF Abstract!Next
<1>10. CASE CollectResult \/ ShutdownPool \/ PoolNotifies \/ UNCHANGED <<sweep, vars>>
  <2>1. same /\ UNCHANGED <<main, ctor>>
    BY <1>10 DEF CollectResult, ShutdownPool, Shutdown, PoolNotifies, NotifyOne,
                 NotifyAll, sweep, vars
  <2> QED BY <1>1, <2>1
<1>11. ASSUME NEW w \in Workers, UNCHANGED sweep,
              WaitForWork(w) \/ TakeTask(w) \/ ExitLoop(w) \/ SpuriousWake(w)
       PROVE  UNCHANGED Abstract!vars
  <2>1. same /\ UNCHANGED <<main, ctor>>
    BY <1>11 DEF WaitForWork, TakeTask, ExitLoop, SpuriousWake, sweep
  <2> QED BY <1>1, <2>1
<1>12. ASSUME Abstract!Abort \/ Abstract!Fail \/ Abstract!Failed \/ Abstract!Settle
              \/ (\E list \in HostLists : Abstract!Choose(list))
       PROVE  Abstract!Next
  BY <1>12, Zenon DEF Abstract!Next
<1> QED
  BY <1>2, <1>3, <1>4, <1>5, <1>6, <1>7, <1>8, <1>9, <1>10, <1>11, <1>12
     DEF SweepNext, MainStep, Worker

(* The stages on the pool implement DiscoveryStages: whatever the order in *)
(* which the workers finish, and whatever number there is of them, the     *)
(* result is that of asking the addresses one by one.                      *)
THEOREM SweepImplementsStages == SweepSpec => ImplementsStages
<1>1. SweepInit => Abstract!Init
  <2> SUFFICES ASSUME SweepInit PROVE Abstract!Init OBVIOUS
  <2>1. main = "choose" /\ ctor = "constructing" /\ stage = "subnet-scan"
        /\ addresses = <<>> /\ devices = <<>>
    BY DEF SweepInit, Init
  <2>2. PhaseOf = "choosing"
    BY <2>1, PhaseFacts
  <2>3. \A i \in Index : AnswerOf(<<stage, i>>) = "unasked"
    <3>1. \A t \in Tasks : future[t] = "none"
      BY DEF SweepInit, Init
    <3>2. \A i \in Index : <<stage, i>> \in Tasks
      BY <2>1, TaskFacts DEF Stages
    <3> QED BY <3>1, <3>2, AnswerFacts
  <2>4. Answers = Abstract!Unasked
    BY <2>3 DEF Answers, Abstract!Unasked, Index, Abstract!Index
  <2> QED BY <2>1, <2>2, <2>4, Zenon DEF Abstract!Init, Answers
<1> QED
  BY <1>1, SweepInvariance, StagesStep, PTL DEF SweepSpec, ImplementsStages, Abstract!Spec
=============================================================================
