------------------------------ MODULE FutexParker ------------------------------
(***************************************************************************)
(* The futex based thread parker of                                        *)
(* library/std/src/sys_common/thread_parker/futex.rs: one 32-bit word, the *)
(* thread that owns it, and any number of threads that unpark it.          *)
(***************************************************************************)
EXTENDS Naturals, Futex

CONSTANTS
  Unparkers,         \* the threads that call unpark
  Word               \* the word wraps at Word (2^32 in the code)

ASSUME ParkerAssumption == Word \in Nat /\ Word > 2

VARIABLES
  state,             \* the futex word
  owner,             \* where the owner is
  timed,             \* the owner's call is park_timeout
  upc,               \* where each unparking thread is
  sleepers           \* {"owner"} while the kernel keeps the owner asleep

parkerVars == <<state, owner, timed, upc, sleepers>>

EMPTY == 0
NOTIFIED == 1
PARKED == Word - 1

ParkerTypeOK ==
  /\ state \in {EMPTY, NOTIFIED, PARKED}
  /\ owner \in {"running", "wait", "syscall", "asleep", "woken"}
  /\ timed \in BOOLEAN
  /\ upc \in [Unparkers -> {"idle", "wake"}]
  /\ sleepers \subseteq {"owner"}

ParkerInit ==
  /\ state = EMPTY
  /\ owner = "running"
  /\ timed = FALSE
  /\ upc = [u \in Unparkers |-> "idle"]
  /\ sleepers = {}

-------------------------------------------------------------------------------

(***************************************************************************)
(* park and park_timeout: fetch_sub(1), which wraps from EMPTY to PARKED.  *)
(***************************************************************************)
FetchSub(t) ==
  /\ owner = "running"
  /\ state' = (state + Word - 1) % Word
  /\ owner' = IF state = NOTIFIED THEN "running" ELSE "wait"
  /\ timed' = t
  /\ UNCHANGED <<upc, sleepers>>

park == FetchSub(FALSE)

park_timeout == FetchSub(TRUE)

(* futex_wait(&self.state, PARKED, ...): its load, then the system call. *)
wait_load ==
  /\ owner = "wait"
  /\ owner' = IF state = PARKED THEN "syscall" ELSE "woken"
  /\ UNCHANGED <<state, timed, upc, sleepers>>

wait_syscall ==
  /\ owner = "syscall"
  /\ owner' = IF state = PARKED THEN "asleep" ELSE "woken"
  /\ sleepers' = IF state = PARKED THEN {"owner"} ELSE {}
  /\ UNCHANGED <<state, timed, upc>>

wait_return ==
  /\ owner = "asleep" /\ sleepers = {}
  /\ owner' = "woken"
  /\ UNCHANGED <<state, timed, upc, sleepers>>

wait_timedout ==
  /\ owner = "asleep" /\ timed /\ sleepers # {}
  /\ owner' = "woken"
  /\ sleepers' = {}
  /\ UNCHANGED <<state, timed, upc>>

wait_interrupted ==
  /\ owner = "asleep" /\ sleepers # {}
  /\ owner' = "wait"
  /\ sleepers' = {}
  /\ UNCHANGED <<state, timed, upc>>

wait_spurious ==
  /\ owner = "asleep" /\ sleepers # {}
  /\ sleepers' = {}
  /\ UNCHANGED <<state, owner, timed, upc>>

(* A slip in park_check: any wake-up ends the call. *)
ReturnOnAnyWakeup ==
  /\ owner = "woken" /\ ~timed
  /\ state' = IF state = NOTIFIED THEN EMPTY ELSE state
  /\ owner' = "running"
  /\ UNCHANGED <<timed, upc, sleepers>>

(* park: compare_exchange(NOTIFIED, EMPTY), or round the loop again. *)
park_check ==
  /\ owner = "woken" /\ ~timed
  /\ state' = IF state = NOTIFIED THEN EMPTY ELSE state
  /\ owner' = IF state = NOTIFIED THEN "running" ELSE "wait"
  /\ UNCHANGED <<timed, upc, sleepers>>

(* park_timeout: swap(EMPTY), and it returns either way. *)
park_timeout_check ==
  /\ owner = "woken" /\ timed
  /\ state' = EMPTY
  /\ owner' = "running"
  /\ UNCHANGED <<timed, upc, sleepers>>

(* unpark: swap(NOTIFIED), then a wake-up if the owner was parked. *)
unpark(u) ==
  /\ upc[u] = "idle"
  /\ state' = NOTIFIED
  /\ upc' = [upc EXCEPT ![u] = IF state = PARKED THEN "wake" ELSE "idle"]
  /\ UNCHANGED <<owner, timed, sleepers>>

(* A slip in unpark_wake: the system call is skipped. *)
WakeNobody(u) ==
  /\ upc[u] = "wake"
  /\ upc' = [upc EXCEPT ![u] = "idle"]
  /\ UNCHANGED <<state, owner, timed, sleepers>>

unpark_wake(u) ==
  /\ upc[u] = "wake"
  /\ upc' = [upc EXCEPT ![u] = "idle"]
  /\ futex_wake(sleepers, sleepers')
  /\ UNCHANGED <<state, owner, timed>>

-------------------------------------------------------------------------------

OwnerStep ==
  wait_load \/ wait_syscall \/ wait_return \/ park_check \/ park_timeout_check

ParkerKernel == wait_timedout \/ wait_interrupted \/ wait_spurious

ParkerNext ==
  \/ park \/ park_timeout \/ OwnerStep \/ ParkerKernel
  \/ \E u \in Unparkers : unpark(u) \/ unpark_wake(u)

ParkerSpec == ParkerInit /\ [][ParkerNext]_parkerVars

(* The scheduler lets the owner and a thread inside unpark go on. *)
ParkerFairSpec ==
  /\ ParkerSpec
  /\ WF_parkerVars(OwnerStep)
  /\ \A u \in Unparkers : WF_parkerVars(unpark_wake(u))

-------------------------------------------------------------------------------

(***************************************************************************)
(* "Assumes this is only called by the thread that owns the Parker, which  *)
(* means that self.state != PARKED" (park, park_timeout): every call leaves *)
(* the word so that the next fetch_sub means what it should.               *)
(***************************************************************************)
NotParkedOutside == owner = "running" => state # PARKED

(***************************************************************************)
(* The owner sleeps only on a PARKED word, or an unpark is on its way to   *)
(* the system call that wakes it.                                          *)
(***************************************************************************)
ParkerNoLostWakeup ==
  sleepers # {} => state = PARKED \/ \E u \in Unparkers : upc[u] = "wake"

(***************************************************************************)
(* The word implements the token the documentation of thread::park         *)
(* describes.                                                              *)
(***************************************************************************)
Parker == INSTANCE AbstractParker
            WITH token <- state = NOTIFIED,
                 blocked <- IF owner = "running" THEN "no"
                            ELSE IF timed THEN "park_timeout" ELSE "park"

ImplementsParker == Parker!Spec

(***************************************************************************)
(* A parked owner whose token has been made available returns.             *)
(***************************************************************************)
UnparkedReturns == (state = NOTIFIED /\ owner # "running") ~> owner = "running"

===============================================================================
