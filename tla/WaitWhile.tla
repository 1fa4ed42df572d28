------------------------------ MODULE WaitWhile ------------------------------
(***************************************************************************)
(* wait_while and wait_timeout_while of library/std/src/sync/condvar.rs:   *)
(* the loops that turn the condvar's wake-ups into a condition that holds. *)
(* The data the mutex protects is a number of tokens and the condition     *)
(* waited out is that there are none.                                      *)
(***************************************************************************)
EXTENDS FutexCondvar

VARIABLES
  tokens,            \* the data behind the mutex
  wpc,               \* where each thread is in its program
  elapsed            \* the timed threads whose duration is over

waitWhileVars == <<condvarVars, tokens, wpc, elapsed>>

condition == tokens = 0

(***************************************************************************)
(* wpc[t] = "check" when t is inside wait_while (or its timed form): with  *)
(* cpc[t] = "idle" it holds the mutex and is about to evaluate condition.  *)
(***************************************************************************)
Evaluating(t) == wpc[t] = "check" /\ cpc[t] = "idle"

Return(t, result) ==
  /\ wpc' = [wpc EXCEPT ![t] = result]
  /\ UNCHANGED <<condvarVars, tokens, elapsed>>

(* condition is false: both functions return the guard. *)
wait_while_ready(t) ==
  /\ Evaluating(t)
  /\ ~condition
  /\ Return(t, "ready")

(* A slip in wait_while_wait: it does not look at the condition first. *)
WaitBeforeChecking(t) ==
  /\ Evaluating(t)
  /\ t \notin elapsed
  /\ wait(t)
  /\ UNCHANGED <<tokens, wpc, elapsed>>

(* condition is true and time is left: wait, and evaluate it again after. *)
wait_while_wait(t) ==
  /\ Evaluating(t)
  /\ condition
  /\ t \notin elapsed
  /\ wait(t)
  /\ UNCHANGED <<tokens, wpc, elapsed>>

(* condition is true and dur.checked_sub(start.elapsed()) is None. *)
wait_timeout_while_expired(t) ==
  /\ Evaluating(t)
  /\ condition
  /\ t \in elapsed
  /\ Return(t, "timeout")

(***************************************************************************)
(* The clock moves past the caller's duration, at any moment of the call.  *)
(* The kernel's ETIMEDOUT (wait_timedout) is not tied to it: elapsed() may *)
(* equal dur when the kernel's timer fires, and the loop goes round again. *)
(***************************************************************************)
Elapse(t) ==
  /\ t \in TimedThreads \ elapsed
  /\ wpc[t] = "check"
  /\ elapsed' = elapsed \union {t}
  /\ UNCHANGED <<condvarVars, tokens, wpc>>

(* One step of a thread inside wait_while or wait_timeout_while. *)
WaitWhileStep(t) ==
  \/ wait_while_ready(t) \/ wait_while_wait(t) \/ wait_timeout_while_expired(t)
  \/ WaitStep(t) /\ UNCHANGED <<tokens, wpc, elapsed>>

==============================================================================
