----------------------------- MODULE MCWaitWhile -----------------------------
(***************************************************************************)
(* Consumers that take a token each with wait_while, producers that add    *)
(* one and call notify_one, either before or after they unlock: the        *)
(* pattern of the examples and tests of sync/condvar.rs.                   *)
(***************************************************************************)
EXTENDS WaitWhile, FiniteSets

CONSTANTS
  Consumers,         \* the threads that take tokens; the others produce
  Repeating          \* the threads that make two calls; the others one

VARIABLE rounds      \* calls each thread has still to make

mcVars == <<waitWhileVars, rounds>>

Producers == Threads \ Consumers

Init ==
  /\ CondvarInit
  /\ tokens = 0
  /\ wpc = [t \in Threads |-> "out"]
  /\ elapsed = {}
  /\ rounds = [t \in Threads |-> IF t \in Repeating THEN 2 ELSE 1]

Become(t, from, to) == wpc[t] = from /\ wpc' = [wpc EXCEPT ![t] = to]

OnlyLock == UNCHANGED <<counter, cpc, seen, cvSleepers>>

(* lock() by a consumer, which goes on to wait_while, or by a producer. *)
Enter(t) ==
  /\ rounds[t] > 0
  /\ rounds' = [rounds EXCEPT ![t] = @ - 1]
  /\ Mutex!Acquire(t) /\ OnlyLock
  /\ Become(t, "out", IF t \in Consumers THEN "check" ELSE "locked")
  /\ elapsed' = elapsed \ {t}
  /\ UNCHANGED tokens

(* A consumer takes its token, or leaves without one, and unlocks. *)
Consume(t) ==
  /\ Become(t, "ready", "out") \/ Become(t, "timeout", "out")
  /\ tokens' = IF wpc[t] = "ready" THEN tokens - 1 ELSE tokens
  /\ Mutex!Release(t) /\ OnlyLock
  /\ UNCHANGED <<elapsed, rounds>>

Produce(t) ==
  /\ Become(t, "locked", "made")
  /\ tokens' = tokens + 1
  /\ UNCHANGED <<condvarVars, elapsed, rounds>>

UnlockThenNotify(t) ==
  /\ Become(t, "made", "unlocked")
  /\ Mutex!Release(t) /\ OnlyLock
  /\ UNCHANGED <<tokens, elapsed, rounds>>

Notify(t) ==
  /\ \/ Become(t, "made", "notified")
     \/ Become(t, "unlocked", "finish")
  /\ notify_one(t)
  /\ UNCHANGED <<tokens, elapsed, rounds>>

(* The rest of notify_one, then the unlock that may follow it. *)
Finish(t) ==
  \/ NotifyStep(t) /\ UNCHANGED <<tokens, wpc, elapsed, rounds>>
  \/ /\ cpc[t] = "idle"
     /\ Become(t, "notified", "out")
     /\ Mutex!Release(t) /\ OnlyLock
     /\ UNCHANGED <<tokens, elapsed, rounds>>
  \/ /\ cpc[t] = "idle"
     /\ Become(t, "finish", "out")
     /\ UNCHANGED <<condvarVars, tokens, elapsed, rounds>>

Run(t) ==
  \/ WaitWhileStep(t) /\ UNCHANGED rounds
  \/ Consume(t) \/ Produce(t) \/ UnlockThenNotify(t) \/ Notify(t) \/ Finish(t)

Environment(t) ==
  \/ Elapse(t) /\ UNCHANGED rounds
  \/ CondvarKernel(t) /\ UNCHANGED <<tokens, wpc, elapsed, rounds>>

Done ==
  /\ \A t \in Threads : wpc[t] = "out" /\ rounds[t] = 0
  /\ UNCHANGED mcVars

Next == (\E t \in Threads : Enter(t) \/ Run(t) \/ Environment(t)) \/ Done

(* Threads that can go on do, and producers come; time is not assumed. *)
FairSpec ==
  /\ Init /\ [][Next]_mcVars
  /\ \A t \in Threads : WF_mcVars(Run(t))
  /\ \A t \in Producers : SF_mcVars(Enter(t))

(***************************************************************************)
(* No notification is lost, not even to a waiter that times out: while a   *)
(* consumer sleeps, every token is matched by a consumer that is awake     *)
(* inside its call (and will see the token) or by a producer whose         *)
(* notify_one is still to come.                                            *)
(***************************************************************************)
TokensCovered ==
  cvSleepers # {} =>
    tokens <= Cardinality({t \in Consumers \ cvSleepers :
                             wpc[t] \in {"check", "ready"}})
              + Cardinality({t \in Producers :
                               wpc[t] \in {"made", "unlocked"} \/ cpc[t] = "one"})

(***************************************************************************)
(* With a token produced for every call, every wait_while returns.         *)
(***************************************************************************)
WaitWhileReturns ==
  \A t \in Consumers : wpc[t] = "check" ~> wpc[t] = "out"

==============================================================================
