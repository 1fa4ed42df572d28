----------------------------- MODULE MCFutexMutex -----------------------------
(***************************************************************************)
(* FutexMutex with a bound on the calls each thread makes, which is what a *)
(* program that terminates does, and with the fairness of a scheduler that *)
(* lets every runnable thread run.                                         *)
(***************************************************************************)
EXTENDS FutexMutex

CONSTANT MaxCalls    \* calls of lock() and try_lock() of each thread

ASSUME MaxCallsAssumption == MaxCalls \in Nat

VARIABLE calls       \* calls made so far

mcVars == <<mutexVars, calls>>

Call(t) ==
  /\ calls[t] < MaxCalls
  /\ lock(t) \/ try_lock(t)
  /\ calls' = [calls EXCEPT ![t] = @ + 1]

Inside(t) == (unlock(t) \/ MutexStep(t)) /\ UNCHANGED calls

Kernel(t) == MutexKernel(t) /\ UNCHANGED calls

Done ==
  /\ \A t \in Threads : mpc[t] = "idle" /\ calls[t] = MaxCalls
  /\ UNCHANGED mcVars

Init == MutexInit /\ calls = [t \in Threads |-> 0]

Next == (\E t \in Threads : Call(t) \/ Inside(t) \/ Kernel(t)) \/ Done

Spec == Init /\ [][Next]_mcVars

(* A thread inside a method, or holding the lock, goes on. *)
FairSpec == Spec /\ \A t \in Threads : WF_mcVars(Inside(t))

(***************************************************************************)
(* Every lock() returns with the lock held, whatever the other threads do, *)
(* as long as they make finitely many calls and let go of the lock.  (With *)
(* endlessly many calls a thread can be overtaken forever: the mutex is    *)
(* not fair and does not claim to be.)                                     *)
(***************************************************************************)
LockReturns ==
  \A t \in Threads : t \in Acquiring ~> mpc[t] = "held"

===============================================================================
