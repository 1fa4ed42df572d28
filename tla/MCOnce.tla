-------------------------------- MODULE MCOnce --------------------------------
(***************************************************************************)
(* Threads that call a Once again and again, with closures that may fail a *)
(* bounded number of times.                                                *)
(***************************************************************************)
EXTENDS Once, Naturals

CONSTANTS
  Forcing,           \* the threads that use call_once_force
  Unparked,          \* the threads that others unpark for their own reasons
  MaxFailures        \* how often a closure panics or poisons the Once

ASSUME MCAssumption ==
  Forcing \subseteq Threads /\ Unparked \subseteq Threads /\ MaxFailures \in Nat

VARIABLE failures

mcVars == <<onceVars, failures>>

Init == OnceInit /\ failures = 0

Fail(t) ==
  /\ failures < MaxFailures
  /\ failures' = failures + 1
  /\ init_fail(t)

Work(t) ==
  /\ OnceStep(t) \/ init_return(t)
  /\ UNCHANGED failures

Next ==
  \E t \in Threads :
    \/ Fail(t) \/ Work(t)
    \/ call_once(t, t \in Forcing) /\ UNCHANGED failures
    \/ t \in Unparked /\ stray_unpark(t) /\ UNCHANGED failures

Spec == Init /\ [][Next]_mcVars

(***************************************************************************)
(* A thread inside a call goes on, and a closure ends: it returns or fails.*)
(***************************************************************************)
FairSpec ==
  /\ Init /\ [][Next]_mcVars
  /\ \A t \in Threads : WF_mcVars(Work(t) \/ Fail(t))

(***************************************************************************)
(* Every call of call_once and call_once_force ends, whoever fails, waits  *)
(* or is unparked meanwhile.                                               *)
(***************************************************************************)
CallsEnd == \A t \in Threads : opc[t] \notin Outside ~> opc[t] \in Outside

===============================================================================
