----------------------------- MODULE FutexCondvar -----------------------------
(***************************************************************************)
(* The futex based condition variable of                                   *)
(* library/std/src/sys/unix/locks/futex.rs, on top of the lock FutexMutex  *)
(* is proved to implement.                                                 *)
(*                                                                         *)
(* One action per access of the notification counter, per system call and  *)
(* per operation on the mutex.  Notifiers need not hold the mutex.         *)
(***************************************************************************)
EXTENDS Naturals, Futex

CONSTANTS
  Threads,           \* the threads that share the mutex and the condvar
  TimedThreads,      \* those of them that wait with a timeout
  Word               \* the counter wraps at Word (2^32 in the code)

ASSUME CondvarAssumption ==
  /\ TimedThreads \subseteq Threads
  /\ Word \in Nat \ {0}

VARIABLES
  holders,           \* who holds the mutex
  counter,           \* the futex word: counts notifications
  cpc,               \* where each thread is inside the condvar's methods
  seen,              \* futex_value, the counter a waiter compares against
  cvSleepers         \* threads the kernel keeps asleep on the counter

condvarVars == <<holders, counter, cpc, seen, cvSleepers>>

Mutex == INSTANCE AbstractLock

(***************************************************************************)
(* The control points of a thread.                                         *)
(*   idle      outside every method                                        *)
(*   unlock    wait: has read the counter and still holds the mutex        *)
(*   load      wait: in futex_wait, about to load the counter              *)
(*   syscall   wait: about to enter the kernel                             *)
(*   asleep    wait: in the kernel; t \notin cvSleepers means woken        *)
(*   relock    wait: about to lock the mutex again and return true         *)
(*   expired   wait: the same after ETIMEDOUT, to return false             *)
(*   one, all  notify_one, notify_all: has incremented the counter         *)
(***************************************************************************)

CondvarInit ==
  /\ Mutex!Init
  /\ counter = 0
  /\ cpc = [t \in Threads |-> "idle"]
  /\ seen = [t \in Threads |-> 0]
  /\ cvSleepers = {}

Step(t, from, to) ==
  /\ cpc[t] = from
  /\ cpc' = [cpc EXCEPT ![t] = to]

-------------------------------------------------------------------------------

(* wait_optional_timeout, called with the mutex held: reads the counter. *)
wait(t) ==
  /\ holders = {t}
  /\ seen' = [seen EXCEPT ![t] = counter]
  /\ Step(t, "idle", "unlock")
  /\ UNCHANGED <<holders, counter, cvSleepers>>

(* The mutex is released before the thread goes to sleep. *)
wait_unlock(t) ==
  /\ Mutex!Release(t)
  /\ Step(t, "unlock", "load")
  /\ UNCHANGED <<counter, seen, cvSleepers>>

(* A slip in wait_load: the counter is first read after the unlock. *)
ReadAfterUnlock(t) ==
  /\ seen' = [seen EXCEPT ![t] = counter]
  /\ Step(t, "load", "syscall")
  /\ UNCHANGED <<holders, counter, cvSleepers>>

(* futex_wait: no need to enter the kernel if the counter has moved on. *)
wait_load(t) ==
  /\ Step(t, "load", IF counter = seen[t] THEN "syscall" ELSE "relock")
  /\ UNCHANGED <<holders, counter, seen, cvSleepers>>

(* futex_wait: the kernel compares and queues in one step. *)
wait_syscall(t) ==
  /\ Step(t, "syscall", IF counter = seen[t] THEN "asleep" ELSE "relock")
  /\ cvSleepers' = IF counter = seen[t] THEN cvSleepers \union {t}
                                        ELSE cvSleepers
  /\ UNCHANGED <<holders, counter, seen>>

wait_return(t) ==
  /\ t \notin cvSleepers
  /\ Step(t, "asleep", "relock")
  /\ UNCHANGED <<holders, counter, seen, cvSleepers>>

(***************************************************************************)
(* ETIMEDOUT: the kernel takes the thread off its queue, so that a wake-up *)
(* is never spent on a thread that reports a timeout.                      *)
(***************************************************************************)
wait_timedout(t) ==
  /\ t \in TimedThreads \intersect cvSleepers
  /\ cvSleepers' = cvSleepers \ {t}
  /\ Step(t, "asleep", "expired")
  /\ UNCHANGED <<holders, counter, seen>>

(* EINTR: futex_wait goes round its loop and loads the counter again. *)
wait_interrupted(t) ==
  /\ t \in cvSleepers
  /\ cvSleepers' = cvSleepers \ {t}
  /\ Step(t, "asleep", "load")
  /\ UNCHANGED <<holders, counter, seen>>

wait_spurious(t) ==
  /\ t \in cvSleepers
  /\ cvSleepers' = cvSleepers \ {t}
  /\ UNCHANGED <<holders, counter, cpc, seen>>

(* mutex.lock() and the return of wait, or of wait_timeout with its result. *)
wait_relock(t) ==
  /\ Mutex!Acquire(t)
  /\ Step(t, "relock", "idle") \/ Step(t, "expired", "idle")
  /\ UNCHANGED <<counter, seen, cvSleepers>>

-------------------------------------------------------------------------------

(* The fetch_add(1) of both notifications, which wraps. *)
Increment == (counter + 1) % Word

notify_one(t) ==
  /\ counter' = Increment
  /\ Step(t, "idle", "one")
  /\ UNCHANGED <<holders, seen, cvSleepers>>

notify_one_wake(t) ==
  /\ futex_wake(cvSleepers, cvSleepers')
  /\ Step(t, "one", "idle")
  /\ UNCHANGED <<holders, counter, seen>>

notify_all(t) ==
  /\ counter' = Increment
  /\ Step(t, "idle", "all")
  /\ UNCHANGED <<holders, seen, cvSleepers>>

notify_all_wake(t) ==
  /\ futex_wake_all(cvSleepers')
  /\ Step(t, "all", "idle")
  /\ UNCHANGED <<holders, counter, seen>>

-------------------------------------------------------------------------------

(* The steps that carry a call of the condvar on to its return. *)
WaitStep(t) ==
  \/ wait_unlock(t) \/ wait_load(t) \/ wait_syscall(t) \/ wait_return(t)
  \/ wait_relock(t)

NotifyStep(t) == notify_one_wake(t) \/ notify_all_wake(t)

CondvarKernel(t) ==
  wait_timedout(t) \/ wait_interrupted(t) \/ wait_spurious(t)

===============================================================================
