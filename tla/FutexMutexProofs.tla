--------------------------- MODULE FutexMutexProofs ---------------------------
(***************************************************************************)
(* Proofs about FutexMutex, for any set of threads.                        *)
(*                                                                         *)
(* The inductive invariant is the type invariant, mutual exclusion in the  *)
(* form "the word is 0 exactly when nobody holds the lock", the fact that  *)
(* only threads inside the system call are queued, and NoLostWakeup.       *)
(***************************************************************************)
EXTENDS FutexMutex, TLAPS

(* Queued threads are in the system call of futex_wait. *)
SleepersAsleep == \A t \in sleepers : mpc[t] = "asleep"

MutexInv == MutexTypeOK /\ SleepersAsleep /\ MutualExclusion /\ NoLostWakeup

(***************************************************************************)
(* Each step of a thread or of the kernel keeps the words and control      *)
(* points in range.                                                        *)
(***************************************************************************)
LEMMA MutexTypeStep ==
  MutexTypeOK /\ [MutexNext]_mutexVars => MutexTypeOK'
<1> SUFFICES ASSUME MutexTypeOK, [MutexNext]_mutexVars
             PROVE  MutexTypeOK'
  OBVIOUS
<1> USE DEF MutexTypeOK, MutexPC
<1>1. CASE UNCHANGED mutexVars
  BY <1>1 DEF mutexVars
<1>2. ASSUME NEW t \in Threads, lock(t) \/ try_lock(t) \/ unlock(t)
      PROVE  MutexTypeOK'
  BY <1>2 DEF lock, try_lock, unlock, Goto
<1>3. ASSUME NEW t \in Threads,
             first_spin(t) \/ lock_uncontended(t) \/ lock_swap(t) \/ spin(t)
      PROVE  MutexTypeOK'
  BY <1>3 DEF first_spin, lock_uncontended, lock_swap, spin, AfterSpin, Goto
<1>4. ASSUME NEW t \in Threads,
             wait_load(t) \/ wait_syscall(t) \/ wait_return(t)
      PROVE  MutexTypeOK'
  BY <1>4 DEF wait_load, wait_syscall, wait_return, Goto
<1>5. ASSUME NEW t \in Threads, wake(t)
      PROVE  MutexTypeOK'
  BY <1>5 DEF wake, futex_wake, Goto
<1>6. ASSUME NEW t \in Threads, MutexKernel(t)
      PROVE  MutexTypeOK'
  BY <1>6 DEF MutexKernel, wait_interrupted, wait_spurious, Goto
<1>7. QED
  BY <1>1, <1>2, <1>3, <1>4, <1>5, <1>6 DEF MutexNext, MutexStep

(***************************************************************************)
(* A step keeps the whole invariant.  One step per action; the conjuncts   *)
(* an action can disturb are left to the solver together, since each       *)
(* action touches a single thread.                                         *)
(***************************************************************************)
LEMMA MutexInvStep ==
  MutexInv /\ [MutexNext]_mutexVars => MutexInv'
<1> SUFFICES ASSUME MutexInv, [MutexNext]_mutexVars
             PROVE  (SleepersAsleep /\ MutualExclusion /\ NoLostWakeup)'
  BY MutexTypeStep DEF MutexInv
<1> USE DEF MutexInv, MutexTypeOK, MutexPC, SleepersAsleep, MutualExclusion,
            NoLostWakeup, Contending
<1>1. CASE UNCHANGED mutexVars
  BY <1>1 DEF mutexVars
<1>2. ASSUME NEW t \in Threads, lock(t)
      PROVE  (SleepersAsleep /\ MutualExclusion /\ NoLostWakeup)'
  BY <1>2 DEF lock, Goto
<1>3. ASSUME NEW t \in Threads, try_lock(t)
      PROVE  (SleepersAsleep /\ MutualExclusion /\ NoLostWakeup)'
  BY <1>3 DEF try_lock, Goto
<1>4. ASSUME NEW t \in Threads, unlock(t)
      PROVE  (SleepersAsleep /\ MutualExclusion /\ NoLostWakeup)'
  BY <1>4 DEF unlock, Goto
<1>5. ASSUME NEW t \in Threads, first_spin(t)
      PROVE  (SleepersAsleep /\ MutualExclusion /\ NoLostWakeup)'
  BY <1>5 DEF first_spin, AfterSpin, Goto
<1>6. ASSUME NEW t \in Threads, lock_uncontended(t)
      PROVE  (SleepersAsleep /\ MutualExclusion /\ NoLostWakeup)'
  BY <1>6 DEF lock_uncontended, AfterSpin, Goto
<1>7. ASSUME NEW t \in Threads, lock_swap(t)
      PROVE  (SleepersAsleep /\ MutualExclusion /\ NoLostWakeup)'
  BY <1>7 DEF lock_swap, Goto
<1>8. ASSUME NEW t \in Threads, spin(t)
      PROVE  (SleepersAsleep /\ MutualExclusion /\ NoLostWakeup)'
  BY <1>8 DEF spin, AfterSpin, Goto
<1>9. ASSUME NEW t \in Threads, wait_load(t)
      PROVE  (SleepersAsleep /\ MutualExclusion /\ NoLostWakeup)'
  BY <1>9 DEF wait_load, Goto
<1>10. ASSUME NEW t \in Threads, wait_syscall(t)
       PROVE  (SleepersAsleep /\ MutualExclusion /\ NoLostWakeup)'
  BY <1>10 DEF wait_syscall, Goto
<1>11. ASSUME NEW t \in Threads, wait_return(t)
       PROVE  (SleepersAsleep /\ MutualExclusion /\ NoLostWakeup)'
  BY <1>11 DEF wait_return, Goto
<1>12. ASSUME NEW t \in Threads, wake(t)
       PROVE  (SleepersAsleep /\ MutualExclusion /\ NoLostWakeup)'
  BY <1>12 DEF wake, futex_wake, Goto
<1>13. ASSUME NEW t \in Threads, wait_interrupted(t)
       PROVE  (SleepersAsleep /\ MutualExclusion /\ NoLostWakeup)'
  BY <1>13 DEF wait_interrupted, Goto
<1>14. ASSUME NEW t \in Threads, wait_spurious(t)
       PROVE  (SleepersAsleep /\ MutualExclusion /\ NoLostWakeup)'
  BY <1>14 DEF wait_spurious
<1>15. QED
  BY <1>1, <1>2, <1>3, <1>4, <1>5, <1>6, <1>7, <1>8, <1>9, <1>10, <1>11,
     <1>12, <1>13, <1>14 DEF MutexNext, MutexStep, MutexKernel

(* The invariant holds in every state of every behaviour of the mutex. *)
THEOREM MutexInvariant == MutexSpec => []MutexInv
<1>1. MutexInit => MutexInv
  BY DEF MutexInit, MutexInv, MutexTypeOK, MutexPC, SleepersAsleep,
         MutualExclusion, NoLostWakeup
<1>2. QED
  BY <1>1, MutexInvStep, PTL DEF MutexSpec

(***************************************************************************)
(* The lock of futex.rs excludes: for any number of threads, at most one   *)
(* is between its acquisition and its unlock.                              *)
(***************************************************************************)
THEOREM MutexExcludes == MutexSpec => []MutualExclusion
BY MutexInvariant, PTL DEF MutexInv

(***************************************************************************)
(* No interleaving of lock, unlock, EINTR and spurious wake-ups leaves a   *)
(* sleeper that nobody is bound to wake.                                   *)
(***************************************************************************)
THEOREM MutexLosesNoWakeup == MutexSpec => []NoLostWakeup
BY MutexInvariant, PTL DEF MutexInv

(***************************************************************************)
(* The mutex implements the abstract lock: every step of the algorithm     *)
(* acquires the free lock, releases it, or leaves the holders alone.       *)
(***************************************************************************)
THEOREM MutexRefinesLock == MutexSpec => ImplementsLock
<1> DEFINE holders == {t \in Threads : mpc[t] = "held"}
<1>1. MutexInit => Lock!Init
  BY DEF MutexInit, Lock!Init
<1>2. ASSUME MutexInv, [MutexNext]_mutexVars
      PROVE  [Lock!Next]_holders
  <2> USE <1>2 DEF MutexInv, MutexTypeOK, MutexPC, MutualExclusion
  <2>1. CASE UNCHANGED mutexVars
    BY <2>1 DEF mutexVars
  <2>2. ASSUME NEW t \in Threads, lock(t) \/ try_lock(t) \/ lock_uncontended(t)
        PROVE  Lock!Acquire(t) \/ UNCHANGED holders
    BY <2>2 DEF lock, try_lock, lock_uncontended, AfterSpin, Goto, Lock!Acquire
  <2>3. ASSUME NEW t \in Threads, lock_swap(t)
        PROVE  Lock!Acquire(t) \/ UNCHANGED holders
    BY <2>3 DEF lock_swap, Goto, Lock!Acquire
  <2>4. ASSUME NEW t \in Threads, unlock(t)
        PROVE  Lock!Release(t)
    BY <2>4 DEF unlock, Goto, Lock!Release
  <2>5. ASSUME NEW t \in Threads,
               \/ first_spin(t) \/ spin(t) \/ wait_load(t) \/ wait_syscall(t)
               \/ wait_return(t) \/ wake(t) \/ MutexKernel(t)
        PROVE  UNCHANGED holders
    BY <2>5 DEF first_spin, spin, wait_load, wait_syscall, wait_return, wake,
                MutexKernel, wait_interrupted, wait_spurious, AfterSpin, Goto
  <2>6. QED
    BY <2>1, <2>2, <2>3, <2>4, <2>5 DEF MutexNext, MutexStep, Lock!Next
<1>3. QED
  BY <1>1, <1>2, MutexInvariant, PTL DEF MutexSpec, ImplementsLock, Lock!Spec

===============================================================================
