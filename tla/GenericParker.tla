----------------------------- MODULE GenericParker -----------------------------
(***************************************************************************)
(* The thread parker for platforms without futexes                         *)
(* (library/std/src/sys_common/thread_parker/generic.rs): an atomic state, *)
(* a mutex and a condvar.  The mutex is the abstract lock; the condvar's   *)
(* steps are those of FutexCondvar.                                        *)
(***************************************************************************)
EXTENDS FutexCondvar

CONSTANT Owner       \* the thread that parks, with or without a timeout; the
                     \* others unpark it

VARIABLES
  state,             \* the atomic
  timed,             \* the owner's call is park_timeout
  gpc                \* where each thread is

genericVars == <<condvarVars, state, timed, gpc>>

EMPTY == 0
PARKED == 1
NOTIFIED == 2

(***************************************************************************)
(* The control points of the owner.                                        *)
(*   running   outside                                                     *)
(*   lock      the fast path failed, about to lock                         *)
(*   locked    about to exchange EMPTY for PARKED                          *)
(*   consume   saw NOTIFIED, about to swap it out                          *)
(*   sleep     PARKED, about to call cvar.wait                             *)
(*   wait      inside cvar.wait, or just back from it (cpc "idle")         *)
(*   exit      about to drop the guard and return                          *)
(*   panic     an assertion or match of the code has failed                *)
(* Those of an unparking thread: running; lock; locked; notify (the guard  *)
(* is dropped).                                                            *)
(***************************************************************************)

GenericInit ==
  /\ CondvarInit
  /\ state = EMPTY
  /\ timed = FALSE
  /\ gpc = [t \in Threads |-> "running"]

Go(t, from, to) ==
  /\ gpc[t] = from
  /\ gpc' = [gpc EXCEPT ![t] = to]

-------------------------------------------------------------------------------

(* The fast path of park and of park_timeout: exchange NOTIFIED for EMPTY. *)
park ==
  /\ timed' \in BOOLEAN
  /\ \/ state = NOTIFIED /\ state' = EMPTY /\ Go(Owner, "running", "running")
     \/ state # NOTIFIED /\ UNCHANGED state /\ Go(Owner, "running", "lock")
  /\ UNCHANGED condvarVars

park_lock ==
  /\ Mutex!Acquire(Owner)
  /\ Go(Owner, "lock", "locked")
  /\ UNCHANGED <<counter, cpc, seen, cvSleepers, state, timed>>

(* compare_exchange(EMPTY, PARKED); anything but NOTIFIED is inconsistent. *)
park_prepare ==
  /\ state' = IF state = EMPTY THEN PARKED ELSE state
  /\ Go(Owner, "locked", CASE state = EMPTY -> "sleep"
                           [] state = NOTIFIED -> "consume"
                           [] OTHER -> "panic")
  /\ UNCHANGED <<condvarVars, timed>>

(* swap(EMPTY), asserted to give NOTIFIED. *)
park_consume ==
  /\ state' = EMPTY
  /\ Go(Owner, "consume", IF state = NOTIFIED THEN "exit" ELSE "panic")
  /\ UNCHANGED <<condvarVars, timed>>

park_wait ==
  /\ wait(Owner)
  /\ Go(Owner, "sleep", "wait")
  /\ UNCHANGED <<state, timed>>

(* A slip in park_recheck: a wake-up alone ends park. *)
ReturnOnAnyWakeup ==
  /\ ~timed /\ cpc[Owner] = "idle"
  /\ state' = IF state = NOTIFIED THEN EMPTY ELSE state
  /\ Go(Owner, "wait", "exit")
  /\ UNCHANGED <<condvarVars, timed>>

(* park, back from cvar.wait: consume the token or wait again. *)
park_recheck ==
  /\ ~timed /\ cpc[Owner] = "idle"
  /\ state' = IF state = NOTIFIED THEN EMPTY ELSE state
  /\ Go(Owner, "wait", IF state = NOTIFIED THEN "exit" ELSE "sleep")
  /\ UNCHANGED <<condvarVars, timed>>

(* park_timeout, back from cvar.wait_timeout: swap(EMPTY). *)
park_timeout_finish ==
  /\ timed /\ cpc[Owner] = "idle"
  /\ state' = EMPTY
  /\ Go(Owner, "wait", IF state \in {NOTIFIED, PARKED} THEN "exit" ELSE "panic")
  /\ UNCHANGED <<condvarVars, timed>>

park_exit ==
  /\ Mutex!Release(Owner)
  /\ Go(Owner, "exit", "running")
  /\ UNCHANGED <<counter, cpc, seen, cvSleepers, state, timed>>

-------------------------------------------------------------------------------

(* A slip in unpark: no lock before the notification. *)
UnparkWithoutLock(u) ==
  /\ u # Owner
  /\ state' = NOTIFIED
  /\ cpc[u] = "idle"
  /\ Go(u, "running", IF state = PARKED THEN "notify" ELSE "running")
  /\ UNCHANGED <<condvarVars, timed>>

(* swap(NOTIFIED); nobody is to be woken unless it was PARKED. *)
unpark(u) ==
  /\ u # Owner
  /\ state' = NOTIFIED
  /\ cpc[u] = "idle"
  /\ Go(u, "running", IF state = PARKED THEN "lock" ELSE "running")
  /\ UNCHANGED <<condvarVars, timed>>

(* drop(self.lock.lock()): wait until the owner is inside cvar.wait. *)
unpark_lock(u) ==
  /\ u # Owner
  /\ \/ Mutex!Acquire(u) /\ Go(u, "lock", "locked")
     \/ Mutex!Release(u) /\ Go(u, "locked", "notify")
  /\ UNCHANGED <<counter, cpc, seen, cvSleepers, state, timed>>

unpark_notify(u) ==
  /\ u # Owner
  /\ notify_one(u)
  /\ Go(u, "notify", "running")
  /\ UNCHANGED <<state, timed>>

-------------------------------------------------------------------------------

GenericCondvar(t) ==
  /\ WaitStep(t) \/ NotifyStep(t)
  /\ UNCHANGED <<state, timed, gpc>>

(* Only wait_timeout can time out. *)
GenericKernel ==
  /\ \/ timed /\ wait_timedout(Owner)
     \/ wait_interrupted(Owner) \/ wait_spurious(Owner)
  /\ UNCHANGED <<state, timed, gpc>>

OwnerStep ==
  \/ park_prepare \/ park_consume \/ park_wait
  \/ park_recheck \/ park_timeout_finish \/ park_exit

GenericNext ==
  \/ park \/ park_lock \/ OwnerStep \/ GenericKernel
  \/ \E u \in Threads : unpark(u) \/ unpark_lock(u) \/ unpark_notify(u) \/ GenericCondvar(u)

GenericSpec == GenericInit /\ [][GenericNext]_genericVars

(***************************************************************************)
(* The scheduler lets every thread inside a call go on.  Weak fairness is  *)
(* enough, the mutex included: a thread locks it to wake the owner only if *)
(* it has swapped PARKED out, so nobody can withhold it for ever.          *)
(***************************************************************************)
GenericFairSpec ==
  /\ GenericSpec
  /\ WF_genericVars(park_lock \/ OwnerStep \/ GenericCondvar(Owner))
  /\ \A u \in Threads \ {Owner} :
       WF_genericVars(unpark_lock(u) \/ unpark_notify(u) \/ GenericCondvar(u))

-------------------------------------------------------------------------------

(***************************************************************************)
(* Mutex, condvar and atomic implement the token of thread::park.          *)
(***************************************************************************)
Parker == INSTANCE AbstractParker
            WITH token <- state = NOTIFIED,
                 blocked <- IF gpc[Owner] \in {"running", "exit"} THEN "no"
                            ELSE IF timed THEN "park_timeout" ELSE "park"

ImplementsParker == Parker!Spec

(***************************************************************************)
(* A parked owner whose token has been made available returns.             *)
(***************************************************************************)
UnparkedReturns ==
  (state = NOTIFIED /\ gpc[Owner] # "running") ~> gpc[Owner] = "running"

===============================================================================
