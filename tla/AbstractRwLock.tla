---------------------------- MODULE AbstractRwLock ----------------------------
(***************************************************************************)
(* What a reader-writer lock promises: readers share, a writer is alone.   *)
(***************************************************************************)
CONSTANT Threads

VARIABLES readers, writers     \* the threads that hold the lock

AcquireRead(t) ==
  /\ writers = {} /\ t \notin readers
  /\ readers' = readers \union {t}
  /\ UNCHANGED writers

AcquireWrite(t) ==
  /\ readers = {} /\ writers = {}
  /\ writers' = {t}
  /\ UNCHANGED readers

ReleaseRead(t) ==
  /\ t \in readers
  /\ readers' = readers \ {t}
  /\ UNCHANGED writers

ReleaseWrite(t) ==
  /\ writers = {t}
  /\ writers' = {}
  /\ UNCHANGED readers

Init == readers = {} /\ writers = {}

Next ==
  \E t \in Threads :
    AcquireRead(t) \/ AcquireWrite(t) \/ ReleaseRead(t) \/ ReleaseWrite(t)

Spec == Init /\ [][Next]_<<readers, writers>>

===============================================================================
