----------------------------- MODULE WaitingProofs -----------------------------
(***************************************************************************)
(* Threads that wait for others, for any sets of threads: the futex parker *)
(* (any word width), the parker of generic.rs on a mutex and a condvar,    *)
(* and wait_while.  Both parkers implement the token, and no wake-up is    *)
(* lost; for the two that use the condvar as long as its 32-bit counter    *)
(* has not wrapped (beyond that one can be lost).                          *)
(***************************************************************************)
EXTENDS MCWaiting, FiniteSetTheorems, TLAPS

(***************************************************************************)
(* The inductive invariant.  The kernel's queue holds the owner only while *)
(* the owner is in the system call, and the word is EMPTY only while the   *)
(* owner is outside park.                                                  *)
(***************************************************************************)
ParkerInv ==
  /\ ParkerTypeOK
  /\ NotParkedOutside
  /\ ParkerNoLostWakeup
  /\ sleepers # {} => owner = "asleep"
  /\ owner # "running" => state # EMPTY

(***************************************************************************)
(* The three values of the word are different, and fetch_sub(1) takes      *)
(* NOTIFIED to EMPTY and EMPTY, by wrapping, to PARKED.                    *)
(***************************************************************************)
LEMMA WordValues ==
  /\ EMPTY # NOTIFIED /\ NOTIFIED # PARKED /\ EMPTY # PARKED
  /\ (NOTIFIED + Word - 1) % Word = EMPTY
  /\ (EMPTY + Word - 1) % Word = PARKED
  BY ParkerAssumption DEF EMPTY, NOTIFIED, PARKED

(***************************************************************************)
(* Waking a thread of the parker's queue leaves the queue empty.           *)
(***************************************************************************)
LEMMA WakeEmpties ==
  ASSUME sleepers \subseteq {"owner"}, futex_wake(sleepers, sleepers')
  PROVE  sleepers' = {}
  BY DEF futex_wake

(***************************************************************************)
(* Every step of park, park_timeout and unpark keeps the invariant.        *)
(***************************************************************************)
LEMMA ParkerStep ==
  ASSUME ParkerInv, [ParkerNext]_parkerVars
  PROVE  ParkerInv'
<1> USE DEF ParkerInv, ParkerTypeOK, NotParkedOutside, ParkerNoLostWakeup
<1>w. /\ EMPTY # NOTIFIED /\ NOTIFIED # PARKED /\ EMPTY # PARKED
      /\ (NOTIFIED + Word - 1) % Word = EMPTY
      /\ (EMPTY + Word - 1) % Word = PARKED
  BY WordValues
<1>1. ASSUME NEW b \in BOOLEAN, FetchSub(b) PROVE ParkerInv'
  <2>1. state \in {EMPTY, NOTIFIED} /\ sleepers = {}
    BY <1>1 DEF FetchSub
  <2>2. state' = IF state = NOTIFIED THEN EMPTY ELSE PARKED
    BY <1>1, <2>1, <1>w DEF FetchSub
  <2> QED
    BY <1>1, <2>1, <2>2, <1>w DEF FetchSub
<1>2. CASE OwnerStep
  BY <1>2, <1>w DEF OwnerStep, wait_load, wait_syscall, wait_return, park_check,
                    park_timeout_check
<1>3. CASE ParkerKernel
  BY <1>3, <1>w DEF ParkerKernel, wait_timedout, wait_interrupted, wait_spurious
<1>4. ASSUME NEW u \in Unparkers, unpark(u) PROVE ParkerInv'
  BY <1>4, <1>w DEF unpark
<1>5. ASSUME NEW u \in Unparkers, unpark_wake(u) PROVE ParkerInv'
  <2>1. sleepers' = {}
    BY <1>5, WakeEmpties DEF unpark_wake
  <2> QED
    BY <1>5, <2>1 DEF unpark_wake
<1>6. CASE UNCHANGED parkerVars
  BY <1>6 DEF parkerVars
<1> QED
  BY <1>1, <1>2, <1>3, <1>4, <1>5, <1>6 DEF ParkerNext, park, park_timeout

(***************************************************************************)
(* The parker keeps its inductive invariant.                               *)
(***************************************************************************)
THEOREM ParkerInvariant == ParkerSpec => []ParkerInv
<1>1. ParkerInit => ParkerInv
  BY WordValues
  DEF ParkerInit, ParkerInv, ParkerTypeOK, NotParkedOutside, ParkerNoLostWakeup
<1>2. ParkerInv /\ [ParkerNext]_parkerVars => ParkerInv'
  BY ParkerStep
<1> QED
  BY <1>1, <1>2, PTL DEF ParkerSpec

(***************************************************************************)
(* What park and park_timeout assume of the word on entry, "self.state !=  *)
(* PARKED", holds whenever the owner is outside them.                      *)
(***************************************************************************)
THEOREM ParkerEntry == ParkerSpec => []NotParkedOutside
<1>1. ParkerInv => NotParkedOutside
  BY DEF ParkerInv
<1> QED
  BY <1>1, ParkerInvariant, PTL

(***************************************************************************)
(* The owner never sleeps in futex_wait on a word that has been notified   *)
(* without an unpark still owing it the wake-up.                           *)
(***************************************************************************)
THEOREM ParkerLosesNoWakeup == ParkerSpec => []ParkerNoLostWakeup
<1>1. ParkerInv => ParkerNoLostWakeup
  BY DEF ParkerInv
<1> QED
  BY <1>1, ParkerInvariant, PTL

(***************************************************************************)
(* The futex parker implements the token of thread::park's documentation.  *)
(***************************************************************************)
THEOREM ParkerRefines == ParkerSpec => ImplementsParker
<1>w. /\ EMPTY # NOTIFIED /\ NOTIFIED # PARKED /\ EMPTY # PARKED
      /\ (NOTIFIED + Word - 1) % Word = EMPTY
      /\ (EMPTY + Word - 1) % Word = PARKED
  BY WordValues
<1>1. ParkerInit => Parker!Init
  BY <1>w DEF ParkerInit, Parker!Init
<1>2. ASSUME ParkerInv, [ParkerNext]_parkerVars
      PROVE  [Parker!Next]_<<state = NOTIFIED,
                             IF owner = "running" THEN "no"
                             ELSE IF timed THEN "park_timeout" ELSE "park">>
  <2> USE <1>2 DEF ParkerInv, ParkerTypeOK, NotParkedOutside
  <2> USE DEF Parker!Next, Parker!ReturnAtOnce, Parker!Block, Parker!Unblock,
              Parker!GiveUp, Parker!Unpark
  <2>1. ASSUME NEW b \in BOOLEAN, FetchSub(b)
        PROVE  Parker!ReturnAtOnce \/ Parker!Block
    BY <2>1, <1>w DEF FetchSub
  <2>2. CASE wait_load \/ wait_syscall \/ wait_return \/ ParkerKernel
    BY <2>2 DEF wait_load, wait_syscall, wait_return, ParkerKernel, wait_timedout,
                wait_interrupted, wait_spurious
  <2>3. CASE park_check
    BY <2>3, <1>w DEF park_check
  <2>4. CASE park_timeout_check
    BY <2>4, <1>w DEF park_timeout_check
  <2>5. ASSUME NEW u \in Unparkers, unpark(u) PROVE Parker!Unpark
    BY <2>5 DEF unpark
  <2>6. CASE \E u \in Unparkers : unpark_wake(u)
    BY <2>6 DEF unpark_wake
  <2>7. CASE UNCHANGED parkerVars
    BY <2>7 DEF parkerVars
  <2> QED
    BY <2>1, <2>2, <2>3, <2>4, <2>5, <2>6, <2>7
    DEF ParkerNext, OwnerStep, park, park_timeout
<1> QED
  BY <1>1, <1>2, ParkerInvariant, PTL DEF ParkerSpec, ImplementsParker, Parker!Spec

(***************************************************************************)
(* The futex parker's part of MCWaiting is a behaviour of the futex        *)
(* parker, so that the theorems above hold of it.                          *)
(***************************************************************************)
THEOREM WaitingHasParker == FairSpec => ParkerSpec
<1>1. Init => ParkerInit
  BY DEF Init
<1>2. [Next]_vars => [ParkerNext]_parkerVars
  BY DEF Next, vars, FutexDoes, GenericDoes, WaitWhileDoes
<1> QED
  BY <1>1, <1>2, PTL DEF FairSpec, ParkerSpec

-------------------------------------------------------------------------------

(* Where the condvar's wait keeps a thread. *)
InWait == {"unlock", "load", "syscall", "asleep", "relock", "expired"}

(***************************************************************************)
(* A waiter that futex_wait would let sleep on the counter it has read, or *)
(* that sleeps on its current value.                                       *)
(***************************************************************************)
Dozing(t) == cpc[t] \in {"unlock", "load", "syscall", "asleep"} /\ seen[t] = counter

(* A step at which the notification counter does not wrap. *)
NoWrap == counter' >= counter

-------------------------------------------------------------------------------

(* Types, of what the proofs about generic.rs need. *)
GenericTypeOK ==
  /\ gstate \in {G!EMPTY, G!PARKED, G!NOTIFIED}
  /\ gtimed \in BOOLEAN
  /\ gpc \in [ParkThreads -> {"running", "lock", "locked", "consume", "sleep", "wait",
                              "exit", "panic", "notify"}]

(***************************************************************************)
(* None of the panics of generic.rs is reached: 'park state changed        *)
(* unexpectedly', 'inconsistent park state' and 'inconsistent park_timeout *)
(* state' by the owner, 'inconsistent state in unpark' by the others.      *)
(***************************************************************************)
GenericAsserts ==
  /\ gpc[ParkOwner] # "panic"
  /\ gstate \in {G!EMPTY, G!PARKED, G!NOTIFIED}

(***************************************************************************)
(* The inductive invariant: what the atomic can be at each point of park   *)
(* and park_timeout.  Only the owner stores PARKED or EMPTY, and unpark    *)
(* only NOTIFIED.                                                          *)
(***************************************************************************)
GenericInv ==
  /\ GenericTypeOK
  /\ GenericAsserts
  /\ gpc[ParkOwner] \in {"running", "lock", "locked", "exit"} => gstate # G!PARKED
  /\ gpc[ParkOwner] = "consume" => gstate = G!NOTIFIED
  /\ gpc[ParkOwner] \in {"sleep", "wait"} => gstate # G!EMPTY

(* The three values of the atomic are different. *)
LEMMA GenericWords ==
  G!EMPTY # G!NOTIFIED /\ G!NOTIFIED # G!PARKED /\ G!EMPTY # G!PARKED
  BY DEF G!EMPTY, G!NOTIFIED, G!PARKED

(* The refinement mapping's value of blocked. *)
blockedNow ==
  IF gpc[ParkOwner] \in {"running", "exit"} THEN "no"
  ELSE IF gtimed THEN "park_timeout" ELSE "park"

(***************************************************************************)
(* Every step of generic.rs keeps the invariant, and is a step of the      *)
(* token or leaves it and the owner's call as they are.                    *)
(***************************************************************************)
LEMMA GenericStep ==
  ASSUME GenericInv, G!GenericNext
  PROVE  /\ GenericInv'
         /\ [G!Parker!Next]_<<gstate = G!NOTIFIED, blockedNow>>
<1> USE GenericWords, WaitingAssumption
    DEF GenericInv, GenericTypeOK, GenericAsserts, blockedNow, G!Go, G!Parker!Next,
        G!Parker!ReturnAtOnce, G!Parker!Block, G!Parker!Unblock, G!Parker!GiveUp,
        G!Parker!Unpark
<1>1. CASE G!park
  BY <1>1 DEF G!park
<1>2. CASE G!park_lock
  BY <1>2 DEF G!park_lock
<1>3. CASE G!park_prepare
  BY <1>3 DEF G!park_prepare
<1>4. CASE G!park_consume
  BY <1>4 DEF G!park_consume
<1>5. CASE G!park_wait
  BY <1>5 DEF G!park_wait
<1>6. CASE G!park_recheck
  BY <1>6 DEF G!park_recheck
<1>7. CASE G!park_timeout_finish
  BY <1>7 DEF G!park_timeout_finish
<1>8. CASE G!park_exit
  BY <1>8 DEF G!park_exit
<1>9. CASE G!GenericKernel
  BY <1>9 DEF G!GenericKernel
<1>10. ASSUME NEW u \in ParkThreads, G!unpark(u)
       PROVE  GenericInv' /\ [G!Parker!Next]_<<gstate = G!NOTIFIED, blockedNow>>
  BY <1>10 DEF G!unpark
<1>11. ASSUME NEW u \in ParkThreads, G!unpark_lock(u)
       PROVE  GenericInv' /\ [G!Parker!Next]_<<gstate = G!NOTIFIED, blockedNow>>
  BY <1>11 DEF G!unpark_lock
<1>12. ASSUME NEW u \in ParkThreads, G!unpark_notify(u)
       PROVE  GenericInv' /\ [G!Parker!Next]_<<gstate = G!NOTIFIED, blockedNow>>
  BY <1>12 DEF G!unpark_notify
<1>13. ASSUME NEW u \in ParkThreads, G!GenericCondvar(u)
       PROVE  GenericInv' /\ [G!Parker!Next]_<<gstate = G!NOTIFIED, blockedNow>>
  BY <1>13 DEF G!GenericCondvar
<1> QED
  BY <1>1, <1>2, <1>3, <1>4, <1>5, <1>6, <1>7, <1>8, <1>9, <1>10, <1>11, <1>12, <1>13
  DEF G!GenericNext, G!OwnerStep

(* A new parker is the token's initial state. *)
LEMMA GenericStart ==
  ASSUME Init
  PROVE  GenericInv /\ G!Parker!Init
<1>1. gstate = G!EMPTY /\ gtimed = FALSE /\ gpc = [t \in ParkThreads |-> "running"]
  BY DEF Init, G!GenericInit, GenericOwnInit
<1> QED
  BY <1>1, GenericWords, WaitingAssumption
  DEF GenericInv, GenericTypeOK, GenericAsserts, G!Parker!Init

(* Only the steps of generic.rs move its own variables. *)
LEMMA GenericMoves ==
  ASSUME [Next]_vars
  PROVE  (kind = "generic" /\ G!GenericNext) \/ UNCHANGED genericOwn
  BY DEF Next, FutexDoes, GenericDoes, WaitWhileDoes, vars

(* generic.rs keeps its inductive invariant. *)
THEOREM GenericInvariant == FairSpec => []GenericInv
<1>1. Init => GenericInv
  BY GenericStart
<1>2. ASSUME GenericInv, [Next]_vars PROVE GenericInv'
  <2>1. CASE UNCHANGED genericOwn
    BY <1>2, <2>1 DEF genericOwn, GenericInv, GenericTypeOK, GenericAsserts
  <2> QED
    BY <1>2, <2>1, GenericMoves, GenericStep
<1> QED
  BY <1>1, <1>2, PTL DEF FairSpec

(***************************************************************************)
(* park and park_timeout of generic.rs never panic, whatever other         *)
(* threads' unpark does to the atomic meanwhile.                           *)
(***************************************************************************)
THEOREM GenericNeverPanics == FairSpec => []GenericAsserts
<1>1. GenericInv => GenericAsserts
  BY DEF GenericInv
<1> QED
  BY <1>1, GenericInvariant, PTL

(***************************************************************************)
(* The parker of generic.rs implements the token of thread::park's         *)
(* documentation.                                                          *)
(***************************************************************************)
THEOREM GenericRefines == FairSpec => GenericImplementsParker
<1>1. Init => G!Parker!Init
  BY GenericStart
<1>2. ASSUME GenericInv, [Next]_vars
      PROVE  [G!Parker!Next]_<<gstate = G!NOTIFIED, blockedNow>>
  <2>1. CASE UNCHANGED genericOwn
    BY <2>1 DEF genericOwn, blockedNow
  <2> QED
    BY <1>2, <2>1, GenericMoves, GenericStep
<1>3. ASSUME GenericInv, [Next]_vars
      PROVE  [G!Parker!Next]_<<gstate = G!NOTIFIED,
                               IF gpc[ParkOwner] \in {"running", "exit"} THEN "no"
                               ELSE IF gtimed THEN "park_timeout" ELSE "park">>
  BY <1>2, <1>3 DEF blockedNow
<1> QED
  BY <1>1, <1>3, GenericInvariant, PTL
  DEF FairSpec, GenericImplementsParker, G!ImplementsParker, G!Parker!Spec

(* The threads that unpark. *)
Others == ParkThreads \ {ParkOwner}

(* A thread that has swapped PARKED out and is still to notify the owner. *)
Unparking(u) == gpc[u] \in {"lock", "locked", "notify"}

(***************************************************************************)
(* Who holds the mutex: the owner from its lock() to the unlock of the     *)
(* condvar's wait, and from its return on; or an unparking thread between  *)
(* drop(self.lock.lock())'s two steps.                                     *)
(***************************************************************************)
GenericMutex ==
  /\ \/ gpc[ParkOwner] \in {"locked", "consume", "sleep", "exit"}
     \/ gpc[ParkOwner] = "wait" /\ cpc[ParkOwner] \in {"idle", "unlock"}
     => holders = {ParkOwner}
  /\ \A u \in Others : gpc[u] = "locked" => holders = {u}

(* Only the owner waits on the condvar, from inside park; the others notify. *)
GenericPlaces ==
  /\ cpc \in [ParkThreads -> InWait \union {"idle", "one"}]
  /\ cpc[ParkOwner] \in InWait => gpc[ParkOwner] = "wait"
  /\ cpc[ParkOwner] # "one"
  /\ \A u \in Others : cpc[u] \in {"idle", "one"}
  /\ cvSleepers \subseteq {ParkOwner}
  /\ cvSleepers # {} => cpc[ParkOwner] = "asleep"

(***************************************************************************)
(* While the counter has not wrapped, the owner has read no later value    *)
(* than the current one.                                                   *)
(***************************************************************************)
GenericCounts ==
  /\ counter \in 0..(Word - 1)
  /\ seen[ParkOwner] \in Nat /\ seen[ParkOwner] <= counter
  /\ seen \in [ParkThreads -> Nat]

(***************************************************************************)
(* An owner that has stored PARKED and been notified is owed a wake-up.    *)
(* While it still holds the mutex, by a thread that waits for the mutex;   *)
(* while it dozes, by one that has not yet moved the counter on; when it   *)
(* sleeps, also by one that has.                                           *)
(***************************************************************************)
GenericOwed ==
  gstate = G!NOTIFIED =>
    /\ gpc[ParkOwner] = "sleep" \/ cpc[ParkOwner] = "unlock" =>
         \E u \in Others : gpc[u] = "lock"
    /\ Dozing(ParkOwner) => \E u \in Others : Unparking(u)
    /\ cvSleepers # {} => \E u \in Others : Unparking(u) \/ cpc[u] = "one"

(* The inductive invariant for the wake-ups. *)
GenericWakeInv == GenericPlaces /\ GenericMutex /\ GenericCounts /\ GenericOwed

(* Every step of generic.rs at which the counter does not wrap keeps it. *)
LEMMA GenericWakeStep ==
  ASSUME GenericInv, GenericWakeInv, NoWrap, G!GenericNext
  PROVE  GenericWakeInv'
<1> USE GenericWords, WaitingAssumption, ParkerAssumption
    DEF GenericInv, GenericTypeOK, GenericWakeInv, GenericPlaces, GenericMutex,
        GenericCounts, GenericOwed, Others, Unparking, Dozing, InWait, G!Go, G!Step,
        G!Mutex!Acquire, G!Mutex!Release, G!condvarVars
<1>1. CASE G!park
  BY <1>1 DEF G!park
<1>2. CASE G!park_lock
  BY <1>2 DEF G!park_lock
<1>3. CASE G!park_prepare
  BY <1>3 DEF G!park_prepare
<1>4. CASE G!park_consume
  BY <1>4 DEF G!park_consume
<1>5. CASE G!park_wait
  BY <1>5 DEF G!park_wait, G!wait
<1>6. CASE G!park_recheck
  BY <1>6 DEF G!park_recheck
<1>7. CASE G!park_timeout_finish
  BY <1>7 DEF G!park_timeout_finish
<1>8. CASE G!park_exit
  BY <1>8 DEF G!park_exit
<1>9. CASE G!GenericKernel
  BY <1>9 DEF G!GenericKernel, G!wait_timedout, G!wait_interrupted, G!wait_spurious
<1>10. ASSUME NEW u \in ParkThreads, G!unpark(u) PROVE GenericWakeInv'
  BY <1>10 DEF G!unpark
<1>11. ASSUME NEW u \in ParkThreads, G!unpark_lock(u) PROVE GenericWakeInv'
  BY <1>11 DEF G!unpark_lock
<1>12. ASSUME NEW u \in ParkThreads, G!unpark_notify(u) PROVE GenericWakeInv'
  <2>1. counter' = counter + 1 /\ counter' \in 0..(Word - 1)
    BY <1>12 DEF G!unpark_notify, G!notify_one, G!Increment, NoWrap
  <2> QED
    BY <1>12, <2>1 DEF G!unpark_notify, G!notify_one
<1>13. ASSUME NEW u \in ParkThreads, G!GenericCondvar(u) PROVE GenericWakeInv'
  <2>1. CASE G!NotifyStep(u)
    <3>1. cvSleepers' = {} /\ u \in Others
      BY <2>1 DEF G!NotifyStep, G!notify_one_wake, G!notify_all_wake, G!futex_wake,
                  G!futex_wake_all
    <3> QED
      BY <1>13, <2>1, <3>1
      DEF G!GenericCondvar, G!NotifyStep, G!notify_one_wake, G!notify_all_wake
  <2>2. CASE G!WaitStep(u)
    <3>1. u = ParkOwner
      BY <2>2 DEF G!WaitStep, G!wait_unlock, G!wait_load, G!wait_syscall, G!wait_return,
                  G!wait_relock
    <3>2. CASE G!wait_unlock(u)
      BY <1>13, <3>1, <3>2 DEF G!GenericCondvar, G!wait_unlock
    <3>3. CASE G!wait_load(u)
      BY <1>13, <3>1, <3>3 DEF G!GenericCondvar, G!wait_load
    <3>4. CASE G!wait_syscall(u)
      BY <1>13, <3>1, <3>4 DEF G!GenericCondvar, G!wait_syscall
    <3>5. CASE G!wait_return(u)
      BY <1>13, <3>1, <3>5 DEF G!GenericCondvar, G!wait_return
    <3>6. CASE G!wait_relock(u)
      BY <1>13, <3>1, <3>6 DEF G!GenericCondvar, G!wait_relock
    <3> QED
      BY <2>2, <3>2, <3>3, <3>4, <3>5, <3>6 DEF G!WaitStep
  <2> QED
    BY <1>13, <2>1, <2>2 DEF G!GenericCondvar
<1> QED
  BY <1>1, <1>2, <1>3, <1>4, <1>5, <1>6, <1>7, <1>8, <1>9, <1>10, <1>11, <1>12, <1>13
  DEF G!GenericNext, G!OwnerStep

(***************************************************************************)
(* An owner asleep in the condvar with its token made available has a      *)
(* thread inside unpark that is going to wake it: what the lock taken and  *)
(* dropped before notify_one is for.                                       *)
(***************************************************************************)
GenericNoLostWakeup ==
  kind = "generic" /\ gstate = G!NOTIFIED /\ ParkOwner \in cvSleepers =>
    \E u \in Others : Unparking(u) \/ cpc[u] = "one"

(***************************************************************************)
(* generic.rs keeps the invariant for the wake-ups up to a wrap of the     *)
(* counter.                                                                *)
(***************************************************************************)
THEOREM GenericWakeInvariant ==
  FairSpec /\ [][NoWrap]_vars => [](kind = "generic" => GenericWakeInv)
<1>1. Init => (kind = "generic" => GenericWakeInv)
  <2> SUFFICES ASSUME Init, kind = "generic" PROVE GenericWakeInv
    OBVIOUS
  <2>1. G!GenericInit
    BY DEF Init
  <2> QED
    BY <2>1, GenericWords, WaitingAssumption, ParkerAssumption
    DEF G!GenericInit, G!CondvarInit, G!Mutex!Init, GenericWakeInv, GenericPlaces,
        GenericMutex, GenericCounts, GenericOwed, Others, InWait
<1>2. ASSUME GenericInv, kind = "generic" => GenericWakeInv, [Next]_vars, [NoWrap]_vars
      PROVE  (kind = "generic" => GenericWakeInv)'
  <2> SUFFICES ASSUME kind' = "generic" PROVE GenericWakeInv'
    OBVIOUS
  <2>1. CASE UNCHANGED vars
    BY <1>2, <2>1
    DEF vars, condvarVars, genericOwn, GenericWakeInv, GenericPlaces, GenericMutex,
        GenericCounts, GenericOwed, Unparking, Dozing
  <2>2. CASE Next /\ NoWrap
    <3>1. kind = "generic" /\ G!GenericNext
      BY <2>2 DEF Next, FutexDoes, GenericDoes, WaitWhileDoes
    <3> QED
      BY <1>2, <2>2, <3>1, GenericWakeStep
  <2> QED
    BY <1>2, <2>1, <2>2
<1> QED
  BY <1>1, <1>2, GenericInvariant, PTL DEF FairSpec

(***************************************************************************)
(* No unpark of generic.rs is lost to a sleeping owner, up to a wrap of    *)
(* the counter.                                                            *)
(***************************************************************************)
THEOREM GenericLosesNoWakeup == FairSpec /\ [][NoWrap]_vars => []GenericNoLostWakeup
<1>1. (kind = "generic" => GenericWakeInv) => GenericNoLostWakeup
  BY DEF GenericWakeInv, GenericOwed, GenericNoLostWakeup
<1> QED
  BY <1>1, GenericWakeInvariant, PTL

-------------------------------------------------------------------------------

(* The steps of a consumer or a producer that are taken with the mutex. *)
HoldsMutex(t) ==
  \/ wpc[t] \in {"ready", "timeout", "locked", "made", "notified"}
  \/ wpc[t] = "check" /\ cpc[t] \in {"idle", "unlock"}

(* Types, of what the proofs about wait_while need. *)
WaitTypeOK ==
  /\ tokens \in Nat
  /\ wpc \in [WaitThreads -> {"out", "check", "ready", "timeout", "locked", "made",
                              "unlocked", "notified", "finish"}]
  /\ cpc \in [WaitThreads -> InWait \union {"idle", "one"}]

(* Consumers wait and producers notify. *)
WaitPlaces(t) ==
  /\ wpc[t] \in {"check", "ready", "timeout"} => t \in Consumers
  /\ wpc[t] \in {"locked", "made", "unlocked", "notified", "finish"} =>
       t \notin Consumers
  /\ cpc[t] \in InWait => wpc[t] = "check"
  /\ cpc[t] = "one" => wpc[t] \in {"notified", "finish"}
  /\ t \in cvSleepers => cpc[t] = "asleep"

(***************************************************************************)
(* The inductive invariant: a thread inside its critical section holds the *)
(* mutex alone, and a consumer whose wait_while has returned has a token.  *)
(***************************************************************************)
WaitInv ==
  /\ WaitTypeOK
  /\ cvSleepers \subseteq WaitThreads
  /\ \A t \in WaitThreads : WaitPlaces(t)
  /\ \A t \in WaitThreads : HoldsMutex(t) => holders = {t}
  /\ \A t \in WaitThreads : wpc[t] = "ready" => tokens # 0

(* Every step of a consumer, a producer, the clock or the kernel keeps it. *)
LEMMA WaitStep ==
  ASSUME WaitInv, NEW t \in WaitThreads, W!Enter(t) \/ W!Run(t) \/ W!Environment(t)
  PROVE  WaitInv'
<1> USE DEF WaitInv, WaitTypeOK, WaitPlaces, HoldsMutex, InWait, W!Become, W!OnlyLock,
            W!Mutex!Acquire, W!Mutex!Release, W!Step, W!condvarVars, W!Return
<1>1. CASE W!Enter(t)
  BY <1>1 DEF W!Enter
<1>2. CASE W!Consume(t)
  BY <1>2 DEF W!Consume
<1>3. CASE W!Produce(t)
  BY <1>3 DEF W!Produce
<1>4. CASE W!UnlockThenNotify(t)
  BY <1>4 DEF W!UnlockThenNotify
<1>5. CASE W!Notify(t)
  BY <1>5 DEF W!Notify, W!notify_one
<1>6. CASE W!Finish(t)
  <2>1. CASE W!NotifyStep(t) /\ UNCHANGED <<tokens, wpc, elapsed, rounds>>
    <3>1. cvSleepers' \subseteq cvSleepers
      BY <2>1 DEF W!NotifyStep, W!notify_one_wake, W!notify_all_wake, W!futex_wake,
                  W!futex_wake_all
    <3> QED
      BY <2>1, <3>1 DEF W!NotifyStep, W!notify_one_wake, W!notify_all_wake
  <2>2. CASE ~ (W!NotifyStep(t) /\ UNCHANGED <<tokens, wpc, elapsed, rounds>>)
    BY <1>6, <2>2 DEF W!Finish
  <2> QED
    BY <2>1, <2>2
<1>7. CASE W!wait_while_ready(t) /\ UNCHANGED rounds
  BY <1>7 DEF W!wait_while_ready, W!Evaluating, W!condition
<1>8. CASE W!wait_while_wait(t) /\ UNCHANGED rounds
  BY <1>8 DEF W!wait_while_wait, W!Evaluating, W!wait
<1>9. CASE W!wait_timeout_while_expired(t) /\ UNCHANGED rounds
  BY <1>9 DEF W!wait_timeout_while_expired, W!Evaluating
<1>10. CASE W!WaitStep(t) /\ UNCHANGED <<tokens, wpc, elapsed>>
  <2>1. CASE W!wait_unlock(t)
    BY <1>10, <2>1 DEF W!wait_unlock
  <2>2. CASE W!wait_load(t)
    BY <1>10, <2>2 DEF W!wait_load
  <2>3. CASE W!wait_syscall(t)
    BY <1>10, <2>3 DEF W!wait_syscall
  <2>4. CASE W!wait_return(t)
    BY <1>10, <2>4 DEF W!wait_return
  <2>5. CASE W!wait_relock(t)
    BY <1>10, <2>5 DEF W!wait_relock
  <2> QED
    BY <1>10, <2>1, <2>2, <2>3, <2>4, <2>5 DEF W!WaitStep
<1>11. CASE W!Elapse(t)
  BY <1>11 DEF W!Elapse
<1>12. CASE W!CondvarKernel(t) /\ UNCHANGED <<tokens, wpc, elapsed, rounds>>
  BY <1>12 DEF W!CondvarKernel, W!wait_timedout, W!wait_interrupted, W!wait_spurious
<1> QED
  BY <1>1, <1>2, <1>3, <1>4, <1>5, <1>6, <1>7, <1>8, <1>9, <1>10, <1>11, <1>12
  DEF W!Run, W!WaitWhileStep, W!Environment

(* A consumer awake inside its call. *)
Going(t) == t \in Consumers /\ t \notin cvSleepers /\ wpc[t] \in {"check", "ready"}

(***************************************************************************)
(* Consumers that are awake inside their call and producers whose          *)
(* notify_one has not finished: what TokensCovered counts.                 *)
(***************************************************************************)
Cover ==
  {t \in WaitThreads :
     \/ Going(t)
     \/ t \notin Consumers /\ (wpc[t] \in {"made", "unlocked"} \/ cpc[t] = "one")}

(***************************************************************************)
(* Those of them that do not rest on a wake-up that may find nobody        *)
(* asleep: consumers not about to sleep, and producers that have not yet   *)
(* moved the counter on.                                                   *)
(***************************************************************************)
FirmCover ==
  {t \in WaitThreads :
     \/ Going(t) /\ ~ Dozing(t)
     \/ t \notin Consumers /\ wpc[t] \in {"made", "unlocked"}}

(***************************************************************************)
(* While the counter has not wrapped, nobody has read a later value than   *)
(* the current one.                                                        *)
(***************************************************************************)
CountsNotifications ==
  /\ counter \in 0..(Word - 1)
  /\ seen \in [WaitThreads -> Nat]
  /\ \A t \in WaitThreads : seen[t] <= counter

(* TokensCovered, with one set instead of two. *)
SleepersCovered == cvSleepers # {} => tokens <= Cardinality(Cover)

(***************************************************************************)
(* The strengthening: a waiter evaluated condition (no tokens) and read    *)
(* the counter under the mutex, so every token made since then, as long as *)
(* the counter is what it has read, has firm cover.                        *)
(***************************************************************************)
DozersCovered == (\E t \in WaitThreads : Dozing(t)) => tokens <= Cardinality(FirmCover)

(* The inductive invariant for the tokens. *)
CoverInv == CountsNotifications /\ SleepersCovered /\ DozersCovered

(* A larger set counts no less. *)
LEMMA CardGrow ==
  ASSUME NEW K, NEW L, IsFiniteSet(L), K \subseteq L, NEW n \in Int, n <= Cardinality(K)
  PROVE  n <= Cardinality(L)
<1>1. IsFiniteSet(K) /\ Cardinality(K) <= Cardinality(L)
  BY FS_Subset
<1>2. Cardinality(K) \in Nat /\ Cardinality(L) \in Nat
  BY <1>1, FS_CardinalityType
<1> QED
  BY <1>1, <1>2

(* One more element. *)
LEMMA CardAdd ==
  ASSUME NEW K, NEW L, IsFiniteSet(L), NEW x, x \notin K, K \union {x} \subseteq L,
         NEW n \in Int, n <= Cardinality(K)
  PROVE  n + 1 <= Cardinality(L)
<1>1. IsFiniteSet(K)
  BY FS_Subset
<1>2. Cardinality(K) \in Nat
  BY <1>1, FS_CardinalityType
<1>3. Cardinality(K \union {x}) = Cardinality(K) + 1
  BY <1>1, FS_AddElement
<1>4. n + 1 \in Int /\ n + 1 <= Cardinality(K \union {x})
  BY <1>2, <1>3
<1> QED
  BY <1>4, CardGrow

(* One element less. *)
LEMMA CardRemove ==
  ASSUME NEW K, NEW L, IsFiniteSet(K), IsFiniteSet(L), NEW x, K \ {x} \subseteq L,
         NEW n \in Int, n <= Cardinality(K)
  PROVE  n - 1 <= Cardinality(L)
<1>1. Cardinality(K) \in Nat
  BY FS_CardinalityType
<1>2. Cardinality(K \ {x}) \in {Cardinality(K), Cardinality(K) - 1}
  BY FS_RemoveElement
<1>3. n - 1 \in Int /\ n - 1 <= Cardinality(K \ {x})
  BY <1>1, <1>2
<1> QED
  BY <1>3, CardGrow

(* One element for another. *)
LEMMA CardSwap ==
  ASSUME NEW K, NEW L, IsFiniteSet(K), IsFiniteSet(L), NEW x, NEW y, y \notin K,
         (K \ {x}) \union {y} \subseteq L, NEW n \in Int, n <= Cardinality(K)
  PROVE  n <= Cardinality(L)
<1>1. IsFiniteSet(K \ {x}) /\ n - 1 <= Cardinality(K \ {x})
  BY FS_RemoveElement, CardRemove
<1>2. n - 1 + 1 <= Cardinality(L)
  BY <1>1, CardAdd
<1> QED
  BY <1>2

(* The two covers are finite. *)
LEMMA CoversFinite ==
  /\ IsFiniteSet(Cover) /\ IsFiniteSet(Cover')
  /\ IsFiniteSet(FirmCover) /\ IsFiniteSet(FirmCover')
  BY WaitingAssumption, FS_Subset DEF Cover, FirmCover

(* A step that takes no cover away and lets nobody new doze. *)
Quiet ==
  /\ tokens' = tokens
  /\ cvSleepers' # {} => cvSleepers # {} /\ Cover \subseteq Cover'
  /\ (\E t \in WaitThreads : Dozing(t)') =>
       (\E t \in WaitThreads : Dozing(t)) /\ FirmCover \subseteq FirmCover'

(* Such a step keeps the tokens covered. *)
LEMMA QuietStep ==
  ASSUME WaitInv, CoverInv, Quiet, CountsNotifications'
  PROVE  CoverInv'
<1>1. tokens \in Int
  BY DEF WaitInv, WaitTypeOK
<1>2. SleepersCovered'
  <2> SUFFICES ASSUME cvSleepers' # {} PROVE tokens <= Cardinality(Cover')
    BY DEF SleepersCovered, Quiet
  <2>1. tokens <= Cardinality(Cover) /\ Cover \subseteq Cover'
    BY DEF Quiet, CoverInv, SleepersCovered
  <2> QED
    BY <1>1, <2>1, CoversFinite, CardGrow
<1>3. DozersCovered'
  <2> SUFFICES ASSUME \E t \in WaitThreads : Dozing(t)'
               PROVE  tokens <= Cardinality(FirmCover')
    BY DEF DozersCovered, Quiet
  <2>1. tokens <= Cardinality(FirmCover) /\ FirmCover \subseteq FirmCover'
    BY DEF Quiet, CoverInv, DozersCovered
  <2> QED
    BY <1>1, <2>1, CoversFinite, CardGrow
<1> QED
  BY <1>2, <1>3 DEF CoverInv

(***************************************************************************)
(* A step that does not wrap the counter leaves nobody ahead of it, and    *)
(* moves one thread only.                                                  *)
(***************************************************************************)
LEMMA CountsStep ==
  ASSUME WaitInv, CountsNotifications, NoWrap, NEW t \in WaitThreads,
         W!Enter(t) \/ W!Run(t) \/ W!Environment(t)
  PROVE  /\ CountsNotifications'
         /\ \A u \in WaitThreads : u # t =>
              cpc'[u] = cpc[u] /\ seen'[u] = seen[u] /\ wpc'[u] = wpc[u]
<1> USE DEF WaitInv, WaitTypeOK, CountsNotifications, W!Become, W!OnlyLock, W!Step,
            W!condvarVars, W!Return
<1>1. CASE W!Enter(t)
  BY <1>1 DEF W!Enter
<1>2. CASE W!Consume(t) \/ W!Produce(t) \/ W!UnlockThenNotify(t)
  BY <1>2 DEF W!Consume, W!Produce, W!UnlockThenNotify
<1>3. CASE W!Notify(t)
  <2>1. counter' = counter + 1 /\ counter' \in 0..(Word - 1)
    BY <1>3, ParkerAssumption DEF W!Notify, W!notify_one, W!Increment, NoWrap
  <2> QED
    BY <1>3, <2>1 DEF W!Notify, W!notify_one
<1>4. CASE W!Finish(t)
  BY <1>4 DEF W!Finish, W!NotifyStep, W!notify_one_wake, W!notify_all_wake
<1>5. CASE W!wait_while_ready(t) \/ W!wait_timeout_while_expired(t)
  BY <1>5 DEF W!wait_while_ready, W!wait_timeout_while_expired
<1>6. CASE W!wait_while_wait(t)
  BY <1>6 DEF W!wait_while_wait, W!wait
<1>7. CASE W!WaitStep(t) /\ UNCHANGED <<tokens, wpc, elapsed>>
  BY <1>7 DEF W!WaitStep, W!wait_unlock, W!wait_load, W!wait_syscall, W!wait_return,
              W!wait_relock
<1>8. CASE W!Environment(t)
  BY <1>8 DEF W!Environment, W!Elapse, W!CondvarKernel, W!wait_timedout,
              W!wait_interrupted, W!wait_spurious
<1> QED
  BY <1>1, <1>2, <1>3, <1>4, <1>5, <1>6, <1>7, <1>8
  DEF W!Run, W!WaitWhileStep

(* The steps that are quiet. *)
LEMMA QuietActions ==
  ASSUME WaitInv, NEW t \in WaitThreads,
         \/ W!Enter(t) \/ W!UnlockThenNotify(t) \/ W!wait_while_ready(t)
         \/ W!Consume(t) /\ wpc[t] = "timeout"
         \/ W!Finish(t) /\ ~ W!NotifyStep(t)
         \/ W!WaitStep(t) /\ ~ W!wait_syscall(t) /\ UNCHANGED <<tokens, wpc, elapsed>>
         \/ W!Environment(t)
  PROVE  Quiet
<1> USE DEF WaitInv, WaitTypeOK, WaitPlaces, InWait, Quiet, Cover, FirmCover, Going,
            Dozing, W!Become, W!OnlyLock, W!Step, W!condvarVars, W!Return
<1>1. CASE W!Enter(t)
  BY <1>1 DEF W!Enter
<1>2. CASE W!UnlockThenNotify(t)
  BY <1>2 DEF W!UnlockThenNotify
<1>3. CASE W!wait_while_ready(t)
  BY <1>3 DEF W!wait_while_ready, W!Evaluating
<1>4. CASE W!Consume(t) /\ wpc[t] = "timeout"
  BY <1>4 DEF W!Consume
<1>5. CASE W!Finish(t) /\ ~ W!NotifyStep(t)
  BY <1>5 DEF W!Finish
<1>6. CASE W!WaitStep(t) /\ ~ W!wait_syscall(t) /\ UNCHANGED <<tokens, wpc, elapsed>>
  <2>1. CASE W!wait_unlock(t)
    BY <1>6, <2>1 DEF W!wait_unlock
  <2>2. CASE W!wait_load(t)
    BY <1>6, <2>2 DEF W!wait_load
  <2>3. CASE W!wait_return(t)
    BY <1>6, <2>3 DEF W!wait_return
  <2>4. CASE W!wait_relock(t)
    BY <1>6, <2>4 DEF W!wait_relock
  <2> QED
    BY <1>6, <2>1, <2>2, <2>3, <2>4 DEF W!WaitStep
<1>7. CASE W!Environment(t)
  <2>1. CASE W!Elapse(t)
    BY <2>1 DEF W!Elapse
  <2>2. CASE W!CondvarKernel(t) /\ UNCHANGED <<tokens, wpc, elapsed, rounds>>
    BY <2>2 DEF W!CondvarKernel, W!wait_timedout, W!wait_interrupted, W!wait_spurious
  <2> QED
    BY <1>7, <2>1, <2>2 DEF W!Environment
<1> QED
  BY <1>1, <1>2, <1>3, <1>4, <1>5, <1>6, <1>7

(* No tokens need no cover. *)
LEMMA NoTokens ==
  ASSUME tokens' = 0, CountsNotifications'
  PROVE  CoverInv'
<1>1. Cardinality(Cover') \in Nat /\ Cardinality(FirmCover') \in Nat
  BY CoversFinite, FS_CardinalityType
<1> QED
  BY <1>1 DEF CoverInv, SleepersCovered, DozersCovered

(***************************************************************************)
(* Every step at which the counter does not wrap keeps the tokens covered. *)
(* A consumer goes to sleep only on the counter it has read, so what       *)
(* covered the dozing waiter covers the sleeping one; a wake-up trades the *)
(* producer for the thread woken.                                          *)
(***************************************************************************)
LEMMA CoverStep ==
  ASSUME WaitInv, CoverInv, NoWrap, NEW t \in WaitThreads,
         W!Enter(t) \/ W!Run(t) \/ W!Environment(t)
  PROVE  CoverInv'
<1>c. /\ CountsNotifications /\ CountsNotifications'
      /\ \A u \in WaitThreads : u # t =>
           cpc'[u] = cpc[u] /\ seen'[u] = seen[u] /\ wpc'[u] = wpc[u]
  BY CountsStep DEF CoverInv
<1>i. tokens \in Int
  BY DEF WaitInv, WaitTypeOK
<1>f. /\ IsFiniteSet(Cover) /\ IsFiniteSet(Cover')
      /\ IsFiniteSet(FirmCover) /\ IsFiniteSet(FirmCover')
  BY CoversFinite
<1>1. CASE Quiet
  BY <1>1, <1>c, QuietStep
<1>2. CASE W!wait_while_wait(t) \/ W!wait_timeout_while_expired(t)
  <2>1. tokens' = 0
    BY <1>2 DEF W!wait_while_wait, W!wait_timeout_while_expired, W!Return, W!condition
  <2> QED
    BY <2>1, <1>c, NoTokens
<1>3. CASE W!Consume(t) /\ wpc[t] = "ready"
  <2> USE DEF WaitInv, WaitTypeOK, WaitPlaces, InWait, W!Become, W!OnlyLock
  <2>1. tokens' = tokens - 1 /\ UNCHANGED <<cvSleepers, cpc, seen, counter>>
    BY <1>3 DEF W!Consume
  <2>2. Cover \ {t} \subseteq Cover' /\ FirmCover \ {t} \subseteq FirmCover'
    BY <1>c, <2>1 DEF Cover, FirmCover, Going, Dozing
  <2>3. SleepersCovered'
    BY <1>f, <1>i, <2>1, <2>2, CardRemove DEF SleepersCovered, CoverInv
  <2>4. DozersCovered'
    BY <1>f, <1>i, <2>1, <2>2, CardRemove DEF DozersCovered, CoverInv, Dozing
  <2> QED
    BY <1>c, <2>3, <2>4 DEF CoverInv
<1>4. CASE W!Produce(t)
  <2> USE DEF WaitInv, WaitTypeOK, WaitPlaces, InWait, W!Become, W!condvarVars
  <2>1. /\ tokens' = tokens + 1 /\ UNCHANGED <<cvSleepers, cpc, seen, counter>>
        /\ t \notin Consumers /\ wpc[t] = "locked" /\ wpc'[t] = "made" /\ cpc[t] # "one"
    BY <1>4 DEF W!Produce
  <2>2. /\ Cover \union {t} \subseteq Cover' /\ t \notin Cover
        /\ FirmCover \union {t} \subseteq FirmCover' /\ t \notin FirmCover
    BY <1>c, <2>1 DEF Cover, FirmCover, Going, Dozing
  <2>3. SleepersCovered'
    BY <1>f, <1>i, <2>1, <2>2, CardAdd DEF SleepersCovered, CoverInv
  <2>4. DozersCovered'
    BY <1>f, <1>i, <2>1, <2>2, CardAdd DEF DozersCovered, CoverInv, Dozing
  <2> QED
    BY <1>c, <2>3, <2>4 DEF CoverInv
<1>5. CASE W!Notify(t)
  <2> USE DEF WaitInv, WaitTypeOK, WaitPlaces, InWait, W!Become, W!Step
  <2>1. /\ UNCHANGED <<cvSleepers, tokens>> /\ counter' = counter + 1
        /\ cpc'[t] = "one" /\ seen' = seen /\ t \notin Consumers
    BY <1>5, <1>c, ParkerAssumption
    DEF W!Notify, W!notify_one, W!Increment, NoWrap, CountsNotifications
  <2>2. Cover \subseteq Cover'
    BY <1>c, <2>1 DEF Cover, Going
  <2>3. \A u \in WaitThreads : ~ Dozing(u)'
    BY <1>c, <2>1 DEF Dozing, CountsNotifications
  <2>4. Quiet
    BY <2>1, <2>2, <2>3 DEF Quiet
  <2> QED
    BY <1>1, <2>4
<1>6. CASE W!NotifyStep(t) /\ UNCHANGED <<tokens, wpc, elapsed, rounds>>
  <2> USE DEF WaitInv, WaitTypeOK, WaitPlaces, InWait, W!Step
  <2>1. /\ W!futex_wake(cvSleepers, cvSleepers')
        /\ UNCHANGED <<counter, seen, tokens, wpc>>
        /\ cpc[t] = "one" /\ cpc'[t] = "idle" /\ t \notin Consumers
    BY <1>6 DEF W!NotifyStep, W!notify_one_wake, W!notify_all_wake
  <2>2. cvSleepers' \subseteq cvSleepers
    BY <2>1 DEF W!futex_wake
  <2>3. FirmCover \subseteq FirmCover' /\ \A u \in WaitThreads : Dozing(u)' => Dozing(u)
    BY <1>c, <2>1, <2>2 DEF FirmCover, Going, Dozing
  <2>4. DozersCovered'
    BY <1>f, <1>i, <2>1, <2>3, CardGrow DEF CoverInv, DozersCovered
  <2>5. ASSUME cvSleepers' # {} PROVE tokens' <= Cardinality(Cover')
    <3>1. PICK s \in cvSleepers : cvSleepers' = cvSleepers \ {s}
      BY <2>1, <2>2, <2>5 DEF W!futex_wake
    <3>2. s \in WaitThreads /\ s \notin Cover /\ s # t
      BY <2>1 DEF Cover, Going
    <3>3. (Cover \ {t}) \union {s} \subseteq Cover'
      BY <1>c, <2>1, <3>1, <3>2 DEF Cover, Going
    <3>4. tokens <= Cardinality(Cover)
      BY <3>1 DEF CoverInv, SleepersCovered
    <3> QED
      BY <1>f, <1>i, <2>1, <3>2, <3>3, <3>4, CardSwap
  <2> QED
    BY <1>c, <2>4, <2>5 DEF CoverInv, SleepersCovered
<1>7. CASE W!wait_syscall(t) /\ UNCHANGED <<tokens, wpc, elapsed>>
  <2> USE DEF WaitInv, WaitTypeOK, WaitPlaces, InWait, W!Step
  <2>1. CASE counter # seen[t]
    <3>1. Quiet
      BY <1>c, <1>7, <2>1 DEF W!wait_syscall, Quiet, Cover, FirmCover, Going, Dozing
    <3> QED
      BY <1>1, <3>1
  <2>2. CASE counter = seen[t]
    <3>1. /\ Dozing(t) /\ cvSleepers' = cvSleepers \union {t} /\ Dozing(t)'
          /\ UNCHANGED <<counter, seen, tokens, wpc>>
      BY <1>7, <2>2 DEF W!wait_syscall, Dozing
    <3>2. tokens <= Cardinality(FirmCover)
      BY <3>1 DEF CoverInv, DozersCovered
    <3>3. FirmCover \subseteq Cover' /\ FirmCover \subseteq FirmCover'
      BY <1>c, <3>1 DEF Cover, FirmCover, Going, Dozing
    <3>4. tokens' <= Cardinality(Cover') /\ tokens' <= Cardinality(FirmCover')
      BY <1>f, <1>i, <3>1, <3>2, <3>3, CardGrow
    <3> QED
      BY <1>c, <3>4 DEF CoverInv, SleepersCovered, DozersCovered
  <2> QED
    BY <2>1, <2>2
<1>8. W!Consume(t) => wpc[t] \in {"ready", "timeout"}
  BY DEF W!Consume, W!Become
<1>9. W!Finish(t) /\ W!NotifyStep(t) => UNCHANGED <<tokens, wpc, elapsed, rounds>>
  BY DEF W!Finish, W!NotifyStep, W!notify_one_wake, W!notify_all_wake, W!Step, W!Become,
         W!OnlyLock, W!condvarVars
<1> QED
  BY <1>1, <1>2, <1>3, <1>4, <1>5, <1>6, <1>7, <1>8, <1>9, QuietActions
  DEF W!Run, W!WaitWhileStep

(* FiniteSets is the same module in MCWaitWhile. *)
LEMMA SameCardinality == \A S : W!Cardinality(S) = Cardinality(S)
  BY Zenon DEF W!Cardinality, Cardinality

(* The two sets TokensCovered counts are disjoint and make up the cover. *)
LEMMA CoverParts ==
  ASSUME CoverInv
  PROVE  W!TokensCovered
<1> DEFINE A == {t \in Consumers \ cvSleepers : wpc[t] \in {"check", "ready"}}
           P == {t \in W!Producers : wpc[t] \in {"made", "unlocked"} \/ cpc[t] = "one"}
<1>1. A \subseteq WaitThreads /\ P \subseteq WaitThreads /\ A \intersect P = {}
  BY WaitingAssumption DEF W!Producers
<1>2. A \union P = Cover
  BY WaitingAssumption DEF W!Producers, Cover, Going
<1> HIDE DEF A, P
<1>3. IsFiniteSet(A) /\ IsFiniteSet(P)
  BY <1>1, WaitingAssumption, FS_Subset
<1>4. Cardinality(A \union P) =
        Cardinality(A) + Cardinality(P) - Cardinality(A \intersect P)
  BY <1>3, FS_Union
<1>5. Cardinality(Cover) = Cardinality(A) + Cardinality(P)
  <2>1. Cardinality(A \intersect P) = 0
    BY <1>1, FS_EmptySet
  <2>2. Cardinality(A) \in Nat /\ Cardinality(P) \in Nat
    BY <1>3, FS_CardinalityType
  <2>3. Cardinality(A \union P) = Cardinality(A) + Cardinality(P)
    BY <1>4, <2>1, <2>2
  <2> QED
    BY <1>2, <2>3, Zenon
<1>6. cvSleepers # {} => tokens <= Cardinality(A) + Cardinality(P)
  BY <1>5 DEF CoverInv, SleepersCovered
<1> QED
  BY <1>6, SameCardinality DEF A, P, W!TokensCovered

(* wait_while and its users keep the inductive invariant. *)
THEOREM WaitInvariant == FairSpec => [](kind = "wait" => WaitInv)
<1>1. Init => (kind = "wait" => WaitInv)
  BY WaitingAssumption
  DEF Init, W!Init, W!CondvarInit, W!Mutex!Init, WaitInv, WaitTypeOK, WaitPlaces,
      HoldsMutex, InWait
<1>2. ASSUME kind = "wait" => WaitInv, [Next]_vars PROVE (kind = "wait" => WaitInv)'
  <2> SUFFICES ASSUME kind' = "wait" PROVE WaitInv'
    OBVIOUS
  <2>1. CASE UNCHANGED vars
    BY <1>2, <2>1
    DEF vars, condvarVars, waitOwn, WaitInv, WaitTypeOK, WaitPlaces, HoldsMutex
  <2>2. CASE Next
    <3>1. kind = "wait" /\ W!Next
      BY <2>2 DEF Next, FutexDoes, GenericDoes, WaitWhileDoes
    <3>2. CASE W!Done
      BY <1>2, <3>1, <3>2
      DEF W!Done, W!mcVars, W!waitWhileVars, W!condvarVars, WaitInv, WaitTypeOK,
          WaitPlaces, HoldsMutex
    <3> QED
      BY <1>2, <3>1, <3>2, WaitStep DEF W!Next
  <2> QED
    BY <1>2, <2>1, <2>2
<1> QED
  BY <1>1, <1>2, PTL DEF FairSpec

(***************************************************************************)
(* A wait_while or wait_timeout_while that returns because condition is    *)
(* false returns with the mutex held and condition still false.            *)
(***************************************************************************)
ReadyWithToken ==
  kind = "wait" =>
    \A t \in WaitThreads : wpc[t] = "ready" => ~ W!condition /\ holders = {t}

(***************************************************************************)
(* The guard wait_while hands back protects data that do not meet the      *)
(* condition, whatever wake-ups it had and whoever took tokens meanwhile.  *)
(***************************************************************************)
THEOREM WaitWhileMeets == FairSpec => []ReadyWithToken
<1>1. (kind = "wait" => WaitInv) => ReadyWithToken
  BY DEF WaitInv, ReadyWithToken, HoldsMutex, W!condition
<1> QED
  BY <1>1, WaitInvariant, PTL

(* The tokens stay covered up to a wrap of the counter. *)
THEOREM CoverInvariant == FairSpec /\ [][NoWrap]_vars => [](kind = "wait" => CoverInv)
<1>1. Init => (kind = "wait" => CoverInv)
  <2> SUFFICES ASSUME Init, kind = "wait" PROVE CoverInv
    OBVIOUS
  <2>1. W!Init
    BY DEF Init
  <2>2. CountsNotifications /\ cvSleepers = {} /\ \A t \in WaitThreads : ~ Dozing(t)
    BY <2>1, ParkerAssumption DEF W!Init, W!CondvarInit, CountsNotifications, Dozing
  <2> QED
    BY <2>2 DEF CoverInv, SleepersCovered, DozersCovered
<1>2. ASSUME kind = "wait" => WaitInv, kind = "wait" => CoverInv, [Next]_vars,
             [NoWrap]_vars
      PROVE  (kind = "wait" => CoverInv)'
  <2> SUFFICES ASSUME kind' = "wait" PROVE CoverInv'
    OBVIOUS
  <2> USE DEF CoverInv, CountsNotifications, SleepersCovered, DozersCovered, Cover,
              FirmCover, Going, Dozing
  <2>1. CASE UNCHANGED vars
    BY <1>2, <2>1 DEF vars, condvarVars, waitOwn
  <2>2. CASE Next /\ NoWrap
    <3>1. kind = "wait" /\ W!Next
      BY <2>2 DEF Next, FutexDoes, GenericDoes, WaitWhileDoes
    <3>2. CASE W!Done
      BY <1>2, <3>1, <3>2 DEF W!Done, W!mcVars, W!waitWhileVars, W!condvarVars
    <3> HIDE DEF CoverInv
    <3> QED
      BY <1>2, <2>2, <3>1, <3>2, CoverStep DEF W!Next
  <2> QED
    BY <1>2, <2>1, <2>2
<1> QED
  BY <1>1, <1>2, WaitInvariant, PTL DEF FairSpec

(***************************************************************************)
(* No notify_one is lost under wait_while and wait_timeout_while, for any  *)
(* number of consumers and producers, up to a wrap of the counter.         *)
(***************************************************************************)
THEOREM NotifyOneIsNotLost == FairSpec /\ [][NoWrap]_vars => []TokensCovered
<1>1. (kind = "wait" => CoverInv) => TokensCovered
  BY CoverParts DEF TokensCovered
<1> QED
  BY <1>1, CoverInvariant, PTL

===============================================================================
