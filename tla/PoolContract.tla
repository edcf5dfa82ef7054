---------------------------- MODULE PoolContract ----------------------------
(***************************************************************************)
(* What a user of ThreadPool may rely on, without threads, queue, mutex or *)
(* condition variable (the comments of src/threading/thread_pool.hpp).     *)
(* Tasks are accepted until the pool is closed, each accepted task ends    *)
(* once, and closing ends only when no accepted task is outstanding.       *)
(***************************************************************************)
CONSTANT Tasks

VARIABLES
  status,   \* what the caller can observe of the future of each task
  closed,   \* shutdown() has begun: submit() throws
  drained   \* shutdown() has joined the workers

vars == <<status, closed, drained>>

Init ==
  /\ status = [t \in Tasks |-> "none"]
  /\ closed = FALSE
  /\ drained = FALSE

Accept(t) ==
  /\ ~closed
  /\ status[t] = "none"
  /\ status' = [status EXCEPT ![t] = "pending"]
  /\ UNCHANGED <<closed, drained>>

Refuse(t) ==
  /\ closed
  /\ status[t] = "none"
  /\ status' = [status EXCEPT ![t] = "refused"]
  /\ UNCHANGED <<closed, drained>>

Complete(t) ==
  /\ status[t] = "pending"
  /\ \E outcome \in {"value", "exception"} :
       status' = [status EXCEPT ![t] = outcome]
  /\ UNCHANGED <<closed, drained>>

Close ==
  /\ ~closed
  /\ closed' = TRUE
  /\ UNCHANGED <<status, drained>>

Drain ==
  /\ closed
  /\ ~drained
  /\ \A t \in Tasks : status[t] # "pending"
  /\ drained' = TRUE
  /\ UNCHANGED <<status, closed>>

Next ==
  \/ \E t \in Tasks : Accept(t) \/ Refuse(t) \/ Complete(t)
  \/ Close
  \/ Drain

Spec == Init /\ [][Next]_vars
=============================================================================
