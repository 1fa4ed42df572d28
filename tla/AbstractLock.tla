----------------------------- MODULE AbstractLock -----------------------------
(***************************************************************************)
(* What every lock of the standard library promises: a thread acquires a   *)
(* lock only while nobody holds it, and only its holder releases it.       *)
(***************************************************************************)
CONSTANT Threads

VARIABLE holders     \* the threads that hold the lock: none or one

Acquire(t) == holders = {} /\ holders' = {t}

Release(t) == holders = {t} /\ holders' = {}

Init == holders = {}

Next == \E t \in Threads : Acquire(t) \/ Release(t)

Spec == Init /\ [][Next]_holders

===============================================================================
