-------------------------------- MODULE Barrier --------------------------------
(***************************************************************************)
(* std::sync::Barrier (library/std/src/sync/barrier.rs): a count and a     *)
(* generation number behind a mutex, and a condvar for those that came     *)
(* early.  The steps of the condvar are those of FutexCondvar, so that the *)
(* barrier meets spurious wake-ups, EINTR and slow wakers.                 *)
(***************************************************************************)
EXTENDS FutexCondvar

CONSTANTS
  num_threads,       \* how many calls of wait() make up a group
  Generations        \* generation_id wraps here (2^64 in the code)

ASSUME BarrierAssumption ==
  num_threads \in Nat /\ Generations \in Nat \ {0, 1}

VARIABLES
  count,             \* lock.count
  generation_id,     \* lock.generation_id
  local_gen,         \* the generation each thread has joined
  bpc                \* where each thread is in wait()

barrierVars == <<condvarVars, count, generation_id, local_gen, bpc>>

(***************************************************************************)
(* The control points of a thread in wait().                               *)
(*   out       not in wait()                                               *)
(*   locked    lock.lock() has returned                                    *)
(*   loop      at or inside the while loop; with cpc "idle" it holds the   *)
(*             mutex and is about to compare the generations               *)
(*   lead      has ended the generation and is in cvar.notify_all()        *)
(*   follower, leader   about to unlock and return false, or true          *)
(***************************************************************************)

BarrierInit ==
  /\ CondvarInit
  /\ count = 0
  /\ generation_id = 0
  /\ local_gen = [t \in Threads |-> 0]
  /\ bpc = [t \in Threads |-> "out"]

Advance(t, from, to) ==
  /\ bpc[t] = from
  /\ bpc' = [bpc EXCEPT ![t] = to]

-------------------------------------------------------------------------------

wait_lock(t) ==
  /\ Mutex!Acquire(t)
  /\ Advance(t, "out", "locked")
  /\ UNCHANGED <<counter, cpc, seen, cvSleepers, count, generation_id, local_gen>>

(* Joins the generation; the thread that completes it starts the next one. *)
wait_arrive(t) ==
  /\ local_gen' = [local_gen EXCEPT ![t] = generation_id]
  /\ \/ /\ count + 1 < num_threads
        /\ count' = count + 1
        /\ Advance(t, "locked", "loop")
        /\ UNCHANGED generation_id
     \/ /\ count + 1 >= num_threads
        /\ count' = 0
        /\ generation_id' = (generation_id + 1) % Generations
        /\ Advance(t, "locked", "lead")
  /\ UNCHANGED condvarVars

(* The while loop: the generation is still the one joined, so wait. *)
wait_loop(t) ==
  /\ bpc[t] = "loop" /\ local_gen[t] = generation_id
  /\ wait(t)
  /\ UNCHANGED <<count, generation_id, local_gen, bpc>>

(* A slip in wait_follow: an if instead of the while, one wait is enough. *)
TrustTheWakeup(t) ==
  /\ cpc[t] = "idle" /\ holders = {t}
  /\ local_gen[t] # generation_id \/ counter # 0
  /\ Advance(t, "loop", "follower")
  /\ UNCHANGED <<condvarVars, count, generation_id, local_gen>>

wait_follow(t) ==
  /\ cpc[t] = "idle" /\ local_gen[t] # generation_id
  /\ Advance(t, "loop", "follower")
  /\ UNCHANGED <<condvarVars, count, generation_id, local_gen>>

(* A slip in wait_lead: notify_one instead of notify_all. *)
LeadWithNotifyOne(t) ==
  /\ notify_one(t)
  /\ Advance(t, "lead", "leader")
  /\ UNCHANGED <<count, generation_id, local_gen>>

(* cvar.notify_all(), with the mutex held. *)
wait_lead(t) ==
  /\ notify_all(t)
  /\ Advance(t, "lead", "leader")
  /\ UNCHANGED <<count, generation_id, local_gen>>

(* The guard is dropped and wait() returns its BarrierWaitResult. *)
wait_exit(t) ==
  /\ cpc[t] = "idle"
  /\ Mutex!Release(t)
  /\ Advance(t, "follower", "out") \/ Advance(t, "leader", "out")
  /\ UNCHANGED <<counter, cpc, seen, cvSleepers, count, generation_id, local_gen>>

(* The steps of the condvar inside the barrier's own. *)
wait_condvar(t) ==
  /\ WaitStep(t) \/ NotifyStep(t)
  /\ UNCHANGED <<count, generation_id, local_gen, bpc>>

BarrierStep(t) ==
  \/ wait_arrive(t) \/ wait_loop(t) \/ wait_follow(t) \/ wait_lead(t)
  \/ wait_exit(t) \/ wait_condvar(t)

BarrierKernel(t) ==
  CondvarKernel(t) /\ UNCHANGED <<count, generation_id, local_gen, bpc>>

BarrierNext ==
  \E t \in Threads : wait_lock(t) \/ BarrierStep(t) \/ BarrierKernel(t)

BarrierSpec == BarrierInit /\ [][BarrierNext]_barrierVars

===============================================================================
