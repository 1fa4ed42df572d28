-------------------------------- MODULE Futex --------------------------------
(***************************************************************************)
(* The kernel's futex queue, as library/std/src/sys/unix/futex.rs uses it. *)
(*                                                                         *)
(* A futex is a 32-bit atomic together with the set of threads the kernel  *)
(* keeps asleep on its address.  FUTEX_WAIT compares the word and queues   *)
(* the caller in one atomic step; FUTEX_WAKE removes threads from the set. *)
(* The queue is not FIFO for us: the code never relies on which sleeper    *)
(* is taken.                                                               *)
(***************************************************************************)

(***************************************************************************)
(* FUTEX_WAKE with a count of one: some sleeper leaves the queue, if there *)
(* is one.  sleepers and sleepersNext are the queue before and after.      *)
(***************************************************************************)
futex_wake(sleepers, sleepersNext) ==
  IF sleepers = {}
    THEN sleepersNext = {}
    ELSE \E t \in sleepers : sleepersNext = sleepers \ {t}

(***************************************************************************)
(* What futex_wake returns: whether it removed a sleeper.  Linux reports   *)
(* it; FreeBSD's wrapper always answers FALSE (see FutexRwLock).           *)
(***************************************************************************)
WokeSomeone(sleepers) == sleepers # {}

(***************************************************************************)
(* FUTEX_WAKE with a count of i32::MAX: the queue becomes empty.           *)
(***************************************************************************)
futex_wake_all(sleepersNext) == sleepersNext = {}

==============================================================================
