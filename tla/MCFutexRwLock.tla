---------------------------- MODULE MCFutexRwLock ----------------------------
(***************************************************************************)
(* FutexRwLock with a bound on the calls each thread makes.                *)
(***************************************************************************)
EXTENDS FutexRwLock

CONSTANT
  Repeating          \* the threads that make two calls; the others one

ASSUME RepeatingAssumption == Repeating \subseteq Threads

VARIABLE calls       \* calls each thread has still to make

mcVars == <<rwVars, calls>>

Init == RwInit /\ calls = [t \in Threads |-> IF t \in Repeating THEN 2 ELSE 1]

Call(t) ==
  /\ calls[t] > 0
  /\ calls' = [calls EXCEPT ![t] = @ - 1]
  /\ RwCall(t)

Inside(t) ==
  /\ RwUnlock(t) \/ ReadStep(t) \/ WriteStep(t) \/ WakeStep(t)
  /\ UNCHANGED calls

Kernel(t) == RwKernel(t) /\ UNCHANGED calls

Done ==
  /\ \A t \in Threads : pc[t] = "idle" /\ calls[t] = 0
  /\ UNCHANGED mcVars

Next == (\E t \in Threads : Call(t) \/ Inside(t) \/ Kernel(t)) \/ Done

Spec == Init /\ [][Next]_mcVars

(* A thread inside a method, or holding the lock, goes on. *)
FairSpec == Spec /\ \A t \in Threads : WF_mcVars(Inside(t))

(***************************************************************************)
(* Every read() and write() comes to an end, with the lock or the reader's *)
(* panic, as long as the other threads make finitely many calls.           *)
(***************************************************************************)
CallsReturn ==
  \A t \in Threads :
    pc[t] \notin {"idle", "rheld", "wheld"}
      ~> pc[t] \in {"idle", "rheld", "wheld"}

==============================================================================
