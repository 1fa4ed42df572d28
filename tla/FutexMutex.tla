------------------------------ MODULE FutexMutex ------------------------------
(***************************************************************************)
(* The futex based mutex of library/std/src/sys/unix/locks/futex.rs.       *)
(*                                                                         *)
(* One action per atomic access of the futex word (or per system call):    *)
(* that is the granularity at which threads interleave.  The word is the   *)
(* only shared location of the algorithm, so per-location coherence, which *)
(* even Relaxed accesses have, lets us treat its accesses as interleaved.  *)
(***************************************************************************)
EXTENDS Naturals, Futex

CONSTANT Threads     \* the threads that share the mutex

VARIABLES
  futex,             \* 0: unlocked, 1: locked, 2: locked and contended
  mpc,               \* where each thread is inside the mutex's methods
  sleepers           \* threads the kernel keeps asleep on the futex

mutexVars == <<futex, mpc, sleepers>>

(***************************************************************************)
(* The control points of a thread.                                         *)
(*   idle      outside every method, not holding the lock                  *)
(*   spin1     lock_contended, in the first call of spin()                 *)
(*   cas       the compare_exchange(0, 1) that follows a first spin of 0   *)
(*   swap      at the swap(2) that opens the loop body                     *)
(*   wait      futex_wait, about to load the word                          *)
(*   syscall   futex_wait, about to enter the kernel                       *)
(*   asleep    in the kernel; t \notin sleepers means it has been woken    *)
(*   spin      the spin() that closes the loop body                        *)
(*   held      outside every method, holding the lock                      *)
(*   wake      unlock has stored 0 over a 2 and is about to call wake()    *)
(***************************************************************************)
MutexPC == {"idle", "spin1", "cas", "swap", "wait", "syscall", "asleep",
            "spin", "held", "wake"}

MutexTypeOK ==
  /\ futex \in {0, 1, 2}
  /\ mpc \in [Threads -> MutexPC]
  /\ sleepers \subseteq Threads

MutexInit ==
  /\ futex = 0
  /\ mpc = [t \in Threads |-> "idle"]
  /\ sleepers = {}

Goto(t, from, to) ==
  /\ mpc[t] = from
  /\ mpc' = [mpc EXCEPT ![t] = to]

-------------------------------------------------------------------------------

(* try_lock: one compare_exchange(0, 1); on failure it returns false. *)
try_lock(t) ==
  /\ futex' = IF futex = 0 THEN 1 ELSE futex
  /\ Goto(t, "idle", IF futex = 0 THEN "held" ELSE "idle")
  /\ UNCHANGED sleepers

(* lock: the uncontended compare_exchange, or into lock_contended. *)
lock(t) ==
  /\ futex' = IF futex = 0 THEN 1 ELSE futex
  /\ Goto(t, "idle", IF futex = 0 THEN "held" ELSE "spin1")
  /\ UNCHANGED sleepers

(***************************************************************************)
(* The load that ends a call of spin(): it returns at the first value      *)
(* other than 1, or with whatever it reads when the budget of 100 is used  *)
(* up.  The loads before it change nothing.  The value read decides the    *)
(* branch taken next, and is not used after that.                          *)
(***************************************************************************)
AfterSpin(s) == IF s = 2 THEN "wait" ELSE "swap"

first_spin(t) ==
  /\ Goto(t, "spin1", IF futex = 0 THEN "cas" ELSE AfterSpin(futex))
  /\ UNCHANGED <<futex, sleepers>>

spin(t) ==
  /\ Goto(t, "spin", AfterSpin(futex))
  /\ UNCHANGED <<futex, sleepers>>

(* A slip in lock_uncontended: a plain store of 1 instead of the exchange. *)
StoreWithoutCompare(t) ==
  /\ futex' = 1
  /\ Goto(t, "cas", "held")
  /\ UNCHANGED sleepers

(* The attempt to take the lock without marking it contended. *)
lock_uncontended(t) ==
  /\ futex' = IF futex = 0 THEN 1 ELSE futex
  /\ Goto(t, "cas", IF futex = 0 THEN "held" ELSE AfterSpin(futex))
  /\ UNCHANGED sleepers

(* swap(2): takes the lock if the old value was 0, and marks it contended. *)
lock_swap(t) ==
  /\ futex' = 2
  /\ Goto(t, "swap", IF futex = 0 THEN "held" ELSE "wait")
  /\ UNCHANGED sleepers

(***************************************************************************)
(* futex_wait(&self.futex, 2, None): a load that may already return, then  *)
(* the system call, which queues the thread only if the word still is 2.   *)
(***************************************************************************)
wait_load(t) ==
  /\ Goto(t, "wait", IF futex = 2 THEN "syscall" ELSE "spin")
  /\ UNCHANGED <<futex, sleepers>>

(* A slip in wait_syscall: the thread is queued whatever the word holds. *)
SleepWithoutCompare(t) ==
  /\ Goto(t, "syscall", "asleep")
  /\ sleepers' = sleepers \union {t}
  /\ UNCHANGED futex

wait_syscall(t) ==
  /\ Goto(t, "syscall", IF futex = 2 THEN "asleep" ELSE "spin")
  /\ sleepers' = IF futex = 2 THEN sleepers \union {t} ELSE sleepers
  /\ UNCHANGED futex

(* A thread that was woken returns from the system call, to spin again. *)
wait_return(t) ==
  /\ t \notin sleepers
  /\ Goto(t, "asleep", "spin")
  /\ UNCHANGED <<futex, sleepers>>

(* A signal ends the system call with EINTR: futex_wait loops to its load. *)
wait_interrupted(t) ==
  /\ t \in sleepers
  /\ sleepers' = sleepers \ {t}
  /\ Goto(t, "asleep", "wait")
  /\ UNCHANGED futex

(***************************************************************************)
(* The kernel may end the sleep for no reason at all; the return value is  *)
(* then the same as for a real wake-up.                                    *)
(***************************************************************************)
wait_spurious(t) ==
  /\ t \in sleepers
  /\ sleepers' = sleepers \ {t}
  /\ UNCHANGED <<futex, mpc>>

(* unlock: swap(0), then wake() if the lock was contended. *)
unlock(t) ==
  /\ futex' = 0
  /\ Goto(t, "held", IF futex = 2 THEN "wake" ELSE "idle")
  /\ UNCHANGED sleepers

(* A slip in wake: the system call is skipped. *)
WakeNobody(t) ==
  /\ Goto(t, "wake", "idle")
  /\ UNCHANGED <<futex, sleepers>>

wake(t) ==
  /\ Goto(t, "wake", "idle")
  /\ futex_wake(sleepers, sleepers')
  /\ UNCHANGED futex

-------------------------------------------------------------------------------

(* The steps a thread takes once it has called a method of the mutex. *)
MutexStep(t) ==
  \/ first_spin(t) \/ lock_uncontended(t) \/ lock_swap(t) \/ spin(t)
  \/ wait_load(t) \/ wait_syscall(t) \/ wait_return(t)
  \/ wake(t)

(* What the kernel may do to a sleeping thread on its own account. *)
MutexKernel(t) == wait_interrupted(t) \/ wait_spurious(t)

MutexNext ==
  \E t \in Threads : \/ lock(t) \/ try_lock(t) \/ unlock(t)
                     \/ MutexStep(t) \/ MutexKernel(t)

MutexSpec == MutexInit /\ [][MutexNext]_mutexVars

-------------------------------------------------------------------------------

(* The threads inside lock(), and those of them past the first attempts. *)
Acquiring == {t \in Threads : mpc[t] \in {"spin1", "cas", "swap", "wait",
                                         "syscall", "asleep", "spin"}}

Contending == {t \in Threads : mpc[t] \in {"swap", "wait", "syscall",
                                          "asleep", "spin"}}

(***************************************************************************)
(* Mutual exclusion: between the return of lock() or a successful          *)
(* try_lock() and the swap in unlock() no other thread holds the lock,     *)
(* and the futex word is not 0 meanwhile.                                  *)
(***************************************************************************)
MutualExclusion ==
  /\ \A t, u \in Threads : mpc[t] = "held" /\ mpc[u] = "held" => t = u
  /\ futex = 0 <=> \A t \in Threads : mpc[t] # "held"

(***************************************************************************)
(* No wake-up is lost: while threads sleep on the futex, the word is 2 (so *)
(* the unlock that comes will call wake()), or an unlock is on its way to  *)
(* wake(), or a thread that is awake will pass by the swap(2) again before *)
(* it sleeps or returns.  This is what the comment in unlock() ("makes     *)
(* sure that any other waiting threads will also be woken up eventually")  *)
(* rests on.                                                               *)
(***************************************************************************)
NoLostWakeup ==
  sleepers # {} =>
    \/ futex = 2
    \/ \E t \in Threads : mpc[t] = "wake"
    \/ Contending \ sleepers # {}

(***************************************************************************)
(* The futex word, the kernel queue and the control points implement the   *)
(* lock every user of the mutex reasons about: the holders change only     *)
(* from none to one thread and back.                                       *)
(***************************************************************************)
Lock == INSTANCE AbstractLock
          WITH holders <- {t \in Threads : mpc[t] = "held"}

ImplementsLock == Lock!Spec

===============================================================================
