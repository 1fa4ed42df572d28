------------------------------- MODULE MCBarrier -------------------------------
(***************************************************************************)
(* A barrier shared by more threads than make up a group, so that a fast   *)
(* pair can finish a later generation before a slow waiter has left an     *)
(* earlier one.  Tickets number the arrivals; they are history only.       *)
(***************************************************************************)
EXTENDS Barrier, FiniteSets

CONSTANTS
  MaxCalls,          \* calls of wait() altogether: some whole groups
  MaxSpurious        \* signals and spurious wake-ups, altogether: without a
                     \* bound a thread that wakes up for nothing again and
                     \* again can take the unfair mutex every time

ASSUME CallsAssumption ==
  MaxCalls \in Nat /\ MaxCalls % num_threads = 0 /\ MaxSpurious \in Nat

VARIABLES
  spurious,          \* signals and spurious wake-ups so far
  calls,             \* calls made so far
  arrivals,          \* threads that have joined a generation so far
  ticket             \* the number of each thread's latest arrival

mcVars == <<barrierVars, calls, arrivals, ticket, spurious>>

Init ==
  /\ BarrierInit
  /\ calls = 0
  /\ spurious = 0
  /\ arrivals = 0
  /\ ticket = [t \in Threads |-> 0]

Call(t) ==
  /\ calls < MaxCalls
  /\ calls' = calls + 1
  /\ wait_lock(t)
  /\ UNCHANGED <<arrivals, ticket, spurious>>

Arrive(t) ==
  /\ wait_arrive(t)
  /\ arrivals' = arrivals + 1
  /\ ticket' = [ticket EXCEPT ![t] = arrivals + 1]
  /\ UNCHANGED <<calls, spurious>>

Continue(t) ==
  /\ wait_loop(t) \/ wait_follow(t) \/ wait_lead(t) \/ wait_exit(t)
     \/ wait_condvar(t)
  /\ UNCHANGED <<calls, arrivals, ticket, spurious>>

Kernel(t) ==
  /\ spurious < MaxSpurious
  /\ spurious' = spurious + 1
  /\ BarrierKernel(t)
  /\ UNCHANGED <<calls, arrivals, ticket>>

Done ==
  /\ \A t \in Threads : bpc[t] = "out"
  /\ calls = MaxCalls
  /\ UNCHANGED mcVars

Next ==
  \/ \E t \in Threads : Call(t) \/ Arrive(t) \/ Continue(t) \/ Kernel(t)
  \/ Done

FairSpec ==
  /\ Init /\ [][Next]_mcVars
  /\ \A t \in Threads : WF_mcVars(Arrive(t) \/ Continue(t))

(***************************************************************************)
(* Rendezvous: wait() returns only when all num_threads members of the     *)
(* caller's group have arrived, and it returns true to exactly one of      *)
(* them, the last to arrive.                                               *)
(***************************************************************************)
Rendezvous ==
  \A t \in Threads :
    LET group == (ticket[t] - 1) \div num_threads
    IN  /\ bpc[t] \in {"lead", "leader", "follower"} =>
             arrivals >= (group + 1) * num_threads
        /\ bpc[t] \in {"lead", "leader"} => ticket[t] % num_threads = 0
        /\ bpc[t] = "follower" => ticket[t] % num_threads # 0

(* The group of a thread inside wait() is complete. *)
GroupComplete(t) ==
  /\ bpc[t] \notin {"out", "locked"}
  /\ arrivals >= ((ticket[t] - 1) \div num_threads + 1) * num_threads

(***************************************************************************)
(* Every member of a complete group leaves, however many generations pass  *)
(* meanwhile.                                                              *)
(***************************************************************************)
GroupLeaves ==
  \A t \in Threads : GroupComplete(t) ~> bpc[t] = "out"

===============================================================================
