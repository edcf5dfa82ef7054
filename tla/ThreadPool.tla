----------------------------- MODULE ThreadPool -----------------------------
(***************************************************************************)
(* The fixed-size thread pool of src/threading/thread_pool.{hpp,cpp}.      *)
(*                                                                         *)
(* Every access to tasks_ and stopping_ happens under mutex_, and cv_.wait *)
(* releases the mutex and blocks in one step, so each critical section is  *)
(* one action.  What happens outside the mutex is a step of its own: the   *)
(* notifications (they come after the unlock), the execution of a task,    *)
(* and the join of the workers.  A worker may also wake up spuriously.     *)
(***************************************************************************)
EXTENDS Naturals, Sequences

CONSTANTS
  worker_count,   \* argument of the constructor
  Callers,        \* threads that call submit() and shutdown()
  Tasks,          \* the tasks that may be submitted, each at most once
  NoTask          \* "no task": the local variable task of an idle worker

ASSUME PoolAssumption ==
  /\ worker_count \in Nat
  /\ NoTask \notin Tasks

(* std::max<std::size_t>(1, worker_count) *)
count == IF worker_count > 1 THEN worker_count ELSE 1

Workers == 1 .. count

VARIABLES
  ctor,        \* progress of the constructor
  spawned,     \* workers_.size()
  joined,      \* the threads of workers_ have been joined
  tasks_,      \* the queue
  stopping_,
  pc,          \* where each worker is in worker_loop()
  current,     \* the task each worker executes
  future,      \* shared state of the std::future of each task
  caller,      \* where each caller is in submit() or shutdown()
  returned     \* the callers to which shutdown() has returned

vars == <<ctor, spawned, joined, tasks_, stopping_, pc, current, future,
          caller, returned>>

CtorState   == {"constructing", "constructed", "threw", "terminated"}
WorkerState == {"unspawned", "check", "waiting", "running", "exited"}
CallerState == {"idle", "notify_one", "notify_all", "joining"}
Outcome     == {"value", "exception"}
FutureState == {"none", "pending", "refused"} \cup Outcome

TypeOK ==
  /\ ctor \in CtorState
  /\ spawned \in 0 .. count
  /\ joined \in BOOLEAN
  /\ tasks_ \in Seq(Tasks)
  /\ stopping_ \in BOOLEAN
  /\ pc \in [Workers -> WorkerState]
  /\ current \in [Workers -> Tasks \cup {NoTask}]
  /\ future \in [Tasks -> FutureState]
  /\ caller \in [Callers -> CallerState]
  /\ returned \in SUBSET Callers

Init ==
  /\ ctor = "constructing"
  /\ spawned = 0
  /\ joined = FALSE
  /\ tasks_ = <<>>
  /\ stopping_ = FALSE
  /\ pc = [w \in Workers |-> "unspawned"]
  /\ current = [w \in Workers |-> NoTask]
  /\ future = [t \in Tasks |-> "none"]
  /\ caller = [c \in Callers |-> "idle"]
  /\ returned = {}

-----------------------------------------------------------------------------
(* The constructor                                                         *)

(* Mutant: the loop runs for i <= count. *)
SpawnOneMore ==
  /\ ctor = "constructing"
  /\ spawned' = spawned + 1
  /\ pc' = [pc EXCEPT ![spawned + 1] = "check"]
  /\ ctor' = IF spawned + 1 > count THEN "constructed" ELSE ctor
  /\ UNCHANGED <<joined, tasks_, stopping_, current, future, caller, returned>>

(* One turn of the loop: workers_.emplace_back starts the next thread,     *)
(* which enters worker_loop() while the constructor is still running.      *)
Spawn ==
  /\ ctor = "constructing"
  /\ spawned' = spawned + 1
  /\ pc' = [pc EXCEPT ![spawned + 1] = "check"]
  /\ ctor' = IF spawned + 1 = count THEN "constructed" ELSE ctor
  /\ UNCHANGED <<joined, tasks_, stopping_, current, future, caller, returned>>

(* The operating system refuses a thread and emplace_back throws.  The     *)
(* members are destroyed without ~ThreadPool(): an empty workers_ lets the *)
(* exception go on to the caller, a workers_ that holds a joinable thread  *)
(* calls std::terminate.                                                   *)
SpawnFails ==
  /\ ctor = "constructing"
  /\ ctor' = IF spawned = 0 THEN "threw" ELSE "terminated"
  /\ UNCHANGED <<spawned, joined, tasks_, stopping_, pc, current, future,
                 caller, returned>>

-----------------------------------------------------------------------------
(* worker_loop()                                                           *)

(* The predicate of cv_.wait is false: release the mutex and block. *)
WaitForWork(w) ==
  /\ pc[w] = "check"
  /\ tasks_ = <<>> /\ ~stopping_
  /\ pc' = [pc EXCEPT ![w] = "waiting"]
  /\ UNCHANGED <<ctor, spawned, joined, tasks_, stopping_, current, future,
                 caller, returned>>

SpuriousWake(w) ==
  /\ pc[w] = "waiting"
  /\ pc' = [pc EXCEPT ![w] = "check"]
  /\ UNCHANGED <<ctor, spawned, joined, tasks_, stopping_, current, future,
                 caller, returned>>

(* Mutant: tasks_.pop() is forgotten. *)
TakeWithoutPop(w) ==
  /\ pc[w] = "check"
  /\ tasks_ # <<>>
  /\ current' = [current EXCEPT ![w] = Head(tasks_)]
  /\ pc' = [pc EXCEPT ![w] = "running"]
  /\ UNCHANGED <<ctor, spawned, joined, tasks_, stopping_, future, caller,
                 returned>>

(* Mutant: a stopping pool takes no more tasks. *)
TakeUnlessStopping(w) ==
  /\ pc[w] = "check"
  /\ tasks_ # <<>> /\ ~stopping_
  /\ current' = [current EXCEPT ![w] = Head(tasks_)]
  /\ tasks_' = Tail(tasks_)
  /\ pc' = [pc EXCEPT ![w] = "running"]
  /\ UNCHANGED <<ctor, spawned, joined, stopping_, future, caller, returned>>

(* task = std::move(tasks_.front()); tasks_.pop() *)
TakeTask(w) ==
  /\ pc[w] = "check"
  /\ tasks_ # <<>>
  /\ current' = [current EXCEPT ![w] = Head(tasks_)]
  /\ tasks_' = Tail(tasks_)
  /\ pc' = [pc EXCEPT ![w] = "running"]
  /\ UNCHANGED <<ctor, spawned, joined, stopping_, future, caller, returned>>

(* task(): the packaged_task stores a value or an exception in the future. *)
RunTask(w, outcome) ==
  /\ pc[w] = "running"
  /\ future' = [future EXCEPT ![current[w]] = outcome]
  /\ current' = [current EXCEPT ![w] = NoTask]
  /\ pc' = [pc EXCEPT ![w] = "check"]
  /\ UNCHANGED <<ctor, spawned, joined, tasks_, stopping_, caller, returned>>

(* Mutant: a stopping pool is left at once, whatever the queue holds. *)
ExitUndrained(w) ==
  /\ pc[w] = "check"
  /\ stopping_
  /\ pc' = [pc EXCEPT ![w] = "exited"]
  /\ UNCHANGED <<ctor, spawned, joined, tasks_, stopping_, current, future,
                 caller, returned>>

(* Mutant: an empty queue always means another turn of the loop. *)
ExitNever(w) ==
  /\ pc[w] = "check"
  /\ tasks_ = <<>> /\ stopping_
  /\ UNCHANGED vars

(* "Only exit once the queue has been fully drained." *)
ExitLoop(w) ==
  /\ pc[w] = "check"
  /\ tasks_ = <<>> /\ stopping_
  /\ pc' = [pc EXCEPT ![w] = "exited"]
  /\ UNCHANGED <<ctor, spawned, joined, tasks_, stopping_, current, future,
                 caller, returned>>

-----------------------------------------------------------------------------
(* submit()                                                                *)

(* Mutant: the test of stopping_ is dropped. *)
SubmitAlways(c, t) ==
  /\ ctor = "constructed"
  /\ caller[c] = "idle"
  /\ future[t] = "none"
  /\ tasks_' = Append(tasks_, t)
  /\ future' = [future EXCEPT ![t] = "pending"]
  /\ caller' = [caller EXCEPT ![c] = "notify_one"]
  /\ UNCHANGED <<ctor, spawned, joined, stopping_, pc, current, returned>>

(* The critical section of submit() on a pool that accepts work. *)
Submit(c, t) ==
  /\ ctor = "constructed"
  /\ caller[c] = "idle"
  /\ future[t] = "none"
  /\ ~stopping_
  /\ tasks_' = Append(tasks_, t)
  /\ future' = [future EXCEPT ![t] = "pending"]
  /\ caller' = [caller EXCEPT ![c] = "notify_one"]
  /\ UNCHANGED <<ctor, spawned, joined, stopping_, pc, current, returned>>

(* submit() after shutdown throws std::runtime_error. *)
SubmitRefused(c, t) ==
  /\ ctor = "constructed"
  /\ caller[c] = "idle"
  /\ future[t] = "none"
  /\ stopping_
  /\ future' = [future EXCEPT ![t] = "refused"]
  /\ UNCHANGED <<ctor, spawned, joined, tasks_, stopping_, pc, current,
                 caller, returned>>

(* Mutant: submit() does not notify. *)
NotifyNobody(c) ==
  /\ caller[c] = "notify_one"
  /\ caller' = [caller EXCEPT ![c] = "idle"]
  /\ UNCHANGED <<ctor, spawned, joined, tasks_, stopping_, pc, current,
                 future, returned>>

(* cv_.notify_one() wakes one waiting worker, if there is one; submit()    *)
(* returns the future.                                                     *)
NotifyOne(c) ==
  /\ caller[c] = "notify_one"
  /\ caller' = [caller EXCEPT ![c] = "idle"]
  /\ \/ \E w \in Workers : /\ pc[w] = "waiting"
                           /\ pc' = [pc EXCEPT ![w] = "check"]
     \/ /\ \A w \in Workers : pc[w] # "waiting"
        /\ pc' = pc
  /\ UNCHANGED <<ctor, spawned, joined, tasks_, stopping_, current, future,
                 returned>>

-----------------------------------------------------------------------------
(* shutdown(), also called by ~ThreadPool()                                *)

(* The critical section of the first shutdown(). *)
Shutdown(c) ==
  /\ ctor = "constructed"
  /\ caller[c] = "idle"
  /\ ~stopping_
  /\ stopping_' = TRUE
  /\ caller' = [caller EXCEPT ![c] = "notify_all"]
  /\ UNCHANGED <<ctor, spawned, joined, tasks_, pc, current, future, returned>>

(* The early return of every other shutdown(). *)
ShutdownAgain(c) ==
  /\ ctor = "constructed"
  /\ caller[c] = "idle"
  /\ stopping_
  /\ returned' = returned \cup {c}
  /\ UNCHANGED <<ctor, spawned, joined, tasks_, stopping_, pc, current,
                 future, caller>>

(* Mutant: shutdown() calls notify_one() where it needs notify_all(). *)
NotifyOnlyOne(c) ==
  /\ caller[c] = "notify_all"
  /\ caller' = [caller EXCEPT ![c] = "joining"]
  /\ \/ \E w \in Workers : /\ pc[w] = "waiting"
                           /\ pc' = [pc EXCEPT ![w] = "check"]
     \/ /\ \A w \in Workers : pc[w] # "waiting"
        /\ pc' = pc
  /\ UNCHANGED <<ctor, spawned, joined, tasks_, stopping_, current, future,
                 returned>>

(* cv_.notify_all() *)
NotifyAll(c) ==
  /\ caller[c] = "notify_all"
  /\ caller' = [caller EXCEPT ![c] = "joining"]
  /\ pc' = [w \in Workers |-> IF pc[w] = "waiting" THEN "check" ELSE pc[w]]
  /\ UNCHANGED <<ctor, spawned, joined, tasks_, stopping_, current, future,
                 returned>>

(* Mutant: only the first thread of workers_ is joined. *)
JoinFirst(c) ==
  /\ caller[c] = "joining"
  /\ pc[1] = "exited"
  /\ joined' = TRUE
  /\ returned' = returned \cup {c}
  /\ caller' = [caller EXCEPT ![c] = "idle"]
  /\ UNCHANGED <<ctor, spawned, tasks_, stopping_, pc, current, future>>

(* The loop over workers_ gets past the last join(). *)
Join(c) ==
  /\ caller[c] = "joining"
  /\ \A w \in Workers : pc[w] = "exited"
  /\ joined' = TRUE
  /\ returned' = returned \cup {c}
  /\ caller' = [caller EXCEPT ![c] = "idle"]
  /\ UNCHANGED <<ctor, spawned, tasks_, stopping_, pc, current, future>>

-----------------------------------------------------------------------------
WorkerStep(w) ==
  \/ WaitForWork(w)
  \/ TakeTask(w)
  \/ \E outcome \in Outcome : RunTask(w, outcome)
  \/ ExitLoop(w)

CallerStep(c) == NotifyOne(c) \/ NotifyAll(c) \/ Join(c)

PoolStep ==
  \/ Spawn
  \/ SpawnFails
  \/ \E w \in Workers : WorkerStep(w) \/ SpuriousWake(w)
  \/ \E c \in Callers :
       \/ CallerStep(c)
       \/ Shutdown(c)
       \/ ShutdownAgain(c)
       \/ \E t \in Tasks : Submit(c, t) \/ SubmitRefused(c, t)

(* There is no pool left to take a step. *)
NoPool == ctor \in {"threw", "terminated"}

Next == (~NoPool /\ PoolStep) \/ (NoPool /\ UNCHANGED vars)

Spec == Init /\ [][Next]_vars

(* A runnable thread is scheduled, a call that was entered goes on, and a  *)
(* task ends: the tasks of this program are probes whose waits all have a  *)
(* timeout.  Nobody has to call submit() or shutdown(), and no spurious    *)
(* wake-up is ever needed.                                                 *)
Fairness ==
  /\ \A w \in Workers : WF_vars(~NoPool /\ WorkerStep(w))
  /\ \A c \in Callers : WF_vars(CallerStep(c))

FairSpec == Spec /\ Fairness

-----------------------------------------------------------------------------
(* Properties                                                              *)

Queued(t) == \E i \in DOMAIN tasks_ : tasks_[i] = t

Running(t) == \E w \in Workers : current[w] = t

(* No accepted task is lost and none is executed twice: a future is        *)
(* pending exactly while its task sits in the queue, once, or is executed  *)
(* by one worker, and never both (submit, worker_loop).                    *)
EveryTaskInOnePlace ==
  /\ \A t \in Tasks : future[t] = "pending" <=> Queued(t) \/ Running(t)
  /\ \A t \in Tasks : ~(Queued(t) /\ Running(t))
  /\ \A i, j \in DOMAIN tasks_ : tasks_[i] = tasks_[j] => i = j
  /\ \A v, w \in Workers : current[v] = current[w] => v = w \/ current[v] = NoTask

(* Once a worker has left worker_loop() the queue is empty and stays so:   *)
(* the remaining workers cannot be left alone with work that a late        *)
(* submit() added.                                                         *)
DrainBeforeExit ==
  (\E w \in Workers : pc[w] = "exited") => stopping_ /\ tasks_ = <<>>

Asleep(w) == pc[w] \in {"waiting", "exited", "unspawned"}

(* No wake-up is lost between the unlock in submit() or shutdown() and the *)
(* notification that follows it: when there is work and every worker       *)
(* sleeps, or the pool stops and some worker still sleeps, the caller that *)
(* will wake them has not notified yet.                                    *)
NoLostWakeup ==
  /\ tasks_ # <<>> /\ (\A w \in Workers : Asleep(w))
       => \E c \in Callers : caller[c] \in {"notify_one", "notify_all"}
  /\ stopping_ /\ (\E w \in Workers : pc[w] = "waiting")
       => \E c \in Callers : caller[c] = "notify_all"

Drained ==
  /\ tasks_ = <<>>
  /\ \A w \in Workers : pc[w] = "exited"
  /\ \A t \in Tasks : future[t] # "pending"

(* The shutdown() that joins the workers leaves nothing behind: every      *)
(* worker is gone and every future that was handed out is ready.  It is    *)
(* only said of this one: a shutdown() that finds stopping_ set returns at *)
(* once, drained or not (ShutdownAgain).                                   *)
JoinedMeansDrained == joined => Drained

(* Every future that submit() hands out becomes ready. *)
EveryTaskCompletes ==
  \A t \in Tasks : future[t] = "pending" ~> future[t] \in Outcome

(* shutdown() returns: the join never waits for a worker that sleeps. *)
ShutdownReturns ==
  \A c \in Callers : caller[c] = "notify_all" ~> c \in returned

-----------------------------------------------------------------------------
(* What the pool promises, whatever its threads do *)
Contract == INSTANCE PoolContract
              WITH status <- future, closed <- stopping_, drained <- joined

(* The pool implements its contract: one atomic step to accept, refuse or  *)
(* complete a task, one to close, and a drain that waits for all of them.  *)
ImplementsContract == Contract!Spec
=============================================================================
