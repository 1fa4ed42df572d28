------------------------------ MODULE FutexRwLock ------------------------------
(***************************************************************************)
(* The futex based reader-writer lock of                                   *)
(* library/std/src/sys/unix/locks/futex_rwlock.rs.                         *)
(*                                                                         *)
(* One action per atomic access of state or writer_notify and per system   *)
(* call.  The word is kept as its three fields: n is state & MASK, r and w *)
(* are the READERS_WAITING and WRITERS_WAITING bits.  A weak               *)
(* compare_exchange may fail for no reason.                                *)
(***************************************************************************)
EXTENDS Naturals, FiniteSets, Futex

CONSTANTS
  Threads,           \* the threads that share the lock
  MAX_READERS,       \* the largest reader count (2^30 - 2 in the code)
  Word,              \* writer_notify wraps here (2^32 in the code)
  ReportsWake        \* whether futex_wake tells that it woke a thread: {TRUE} on
                     \* Linux, {FALSE} on FreeBSD; BOOLEAN covers both

ASSUME RwLockAssumption ==
  /\ IsFiniteSet(Threads)
  /\ MAX_READERS \in Nat \ {0}
  /\ Word \in Nat \ {0}
  /\ ReportsWake \subseteq BOOLEAN /\ ReportsWake # {}

VARIABLES
  state,             \* the state word, [n, r, w]
  writer_notify,     \* the futex writers sleep on
  pc,                \* where each thread is
  st,                \* the local variable state of each thread
  seq,               \* the local variable seq of write_contended
  others,            \* other_writers_waiting # 0 in write_contended
  rSleepers,         \* threads asleep on state
  wSleepers          \* threads asleep on writer_notify

rwVars == <<state, writer_notify, pc, st, seq, others, rSleepers, wSleepers>>

locals == <<st, seq, others>>
sleepers == <<rSleepers, wSleepers>>

WRITE_LOCKED == MAX_READERS + 1

StateWord == [n : 0..WRITE_LOCKED, r : BOOLEAN, w : BOOLEAN]

is_unlocked(s) == s.n = 0

has_readers_waiting(s) == s.r

has_writers_waiting(s) == s.w

(* A slip in is_read_lockable: readers that wait do not hold up new ones. *)
LockablePastReaders(s) == s.n < MAX_READERS /\ ~has_writers_waiting(s)

is_read_lockable(s) ==
  s.n < MAX_READERS /\ ~has_readers_waiting(s) /\ ~has_writers_waiting(s)

has_reached_max_readers(s) == s.n = MAX_READERS

OnlyWriters(s) == is_unlocked(s) /\ s.w /\ ~s.r
OnlyReaders(s) == is_unlocked(s) /\ s.r /\ ~s.w
BothWaiting(s) == is_unlocked(s) /\ s.r /\ s.w

(* The word s with another count, readers bit or writers bit. *)
WithCount(s, n) == [s EXCEPT !.n = n]
WithReaders(s, b) == [s EXCEPT !.r = b]
WithWriters(s, b) == [s EXCEPT !.w = b]

(***************************************************************************)
(* The control points of a thread.                                         *)
(*   idle, rheld, wheld    outside every method, with or without the lock  *)
(*   rcas                  read: at its compare_exchange_weak              *)
(*   rspin, rloop          read_contended: in spin_read; at the loop head  *)
(*   rsyscall, rasleep     read_contended: in futex_wait                   *)
(*   wspin, wloop          write_contended: in spin_write; at the loop head*)
(*   wcheck                write_contended: at the second load of state    *)
(*   wwait, wsyscall, wasleep   write_contended: in futex_wait             *)
(*   wake                  wake_writer_or_readers: at the if st selects    *)
(*   notify, wakewriter    wake_writer: before fetch_add; before the wake  *)
(*   wakereaders           before futex_wake_all                           *)
(***************************************************************************)
RwPC == {"idle", "rheld", "wheld", "rcas", "rspin", "rloop", "rsyscall",
         "rasleep", "wspin", "wloop", "wcheck", "wwait", "wsyscall",
         "wasleep", "wake", "notify", "wakewriter", "wakereaders"}

RwTypeOK ==
  /\ state \in StateWord
  /\ writer_notify \in 0..(Word - 1)
  /\ pc \in [Threads -> RwPC]
  /\ st \in [Threads -> StateWord]
  /\ seq \in [Threads -> 0..(Word - 1)]
  /\ others \in [Threads -> BOOLEAN]
  /\ rSleepers \subseteq {t \in Threads : pc[t] = "rasleep"}
  /\ wSleepers \subseteq {t \in Threads : pc[t] = "wasleep"}

RwInit ==
  /\ state = [n |-> 0, r |-> FALSE, w |-> FALSE]
  /\ writer_notify = 0
  /\ pc = [t \in Threads |-> "idle"]
  /\ st = [t \in Threads |-> [n |-> 0, r |-> FALSE, w |-> FALSE]]
  /\ seq = [t \in Threads |-> 0]
  /\ others = [t \in Threads |-> FALSE]
  /\ rSleepers = {}
  /\ wSleepers = {}

At(t, from) == pc[t] = from

To(t, to) == pc' = [pc EXCEPT ![t] = to]

(* The thread's local copy of the word becomes s. *)
Loaded(t, s) == st' = [st EXCEPT ![t] = s] /\ UNCHANGED <<seq, others>>

(* The word as it is after a thread has taken a read lock on it. *)
ReadLocked == WithCount(state, state.n + 1)

-------------------------------------------------------------------------------

(***************************************************************************)
(* try_read: fetch_update retries until its exchange succeeds or it has    *)
(* loaded a word that is not lockable, so it acts in one step.             *)
(***************************************************************************)
try_read(t) ==
  /\ At(t, "idle")
  /\ state' = IF is_read_lockable(state) THEN ReadLocked ELSE state
  /\ To(t, IF is_read_lockable(state) THEN "rheld" ELSE "idle")
  /\ UNCHANGED <<writer_notify, locals, sleepers>>

(* read: the load that decides between the fast path and read_contended. *)
read(t) ==
  /\ At(t, "idle")
  /\ Loaded(t, state)
  /\ To(t, IF is_read_lockable(state) THEN "rcas" ELSE "rspin")
  /\ UNCHANGED <<state, writer_notify, sleepers>>

(* read: its compare_exchange_weak succeeds. *)
read_fast(t) ==
  /\ At(t, "rcas") /\ state = st[t]
  /\ state' = ReadLocked
  /\ To(t, "rheld")
  /\ UNCHANGED <<writer_notify, locals, sleepers>>

(* read: its compare_exchange_weak fails, perhaps for no reason. *)
read_slow(t) ==
  /\ At(t, "rcas")
  /\ To(t, "rspin")
  /\ UNCHANGED <<state, writer_notify, locals, sleepers>>

(* spin_read: the load whose value it returns, after at most 100 others. *)
spin_read(t) ==
  /\ At(t, "rspin")
  /\ Loaded(t, state)
  /\ To(t, "rloop")
  /\ UNCHANGED <<state, writer_notify, sleepers>>

(***************************************************************************)
(* read_contended: tries to lock.  On failure it has the new word, and is  *)
(* back at the loop head; a failure for no reason changes nothing.         *)
(***************************************************************************)
read_contended_lock(t) ==
  /\ At(t, "rloop") /\ is_read_lockable(st[t])
  /\ \/ /\ state = st[t]
        /\ state' = ReadLocked
        /\ To(t, "rheld")
        /\ UNCHANGED locals
     \/ /\ state # st[t]
        /\ Loaded(t, state)
        /\ UNCHANGED <<state, pc>>
  /\ UNCHANGED <<writer_notify, sleepers>>

(* read_contended: the panic "too many active read locks on RwLock". *)
read_contended_panic(t) ==
  /\ At(t, "rloop") /\ has_reached_max_readers(st[t])
  /\ To(t, "idle")
  /\ UNCHANGED <<state, writer_notify, locals, sleepers>>

(* The word has to be changed before this reader gets the lock. *)
MustWait(t) == ~is_read_lockable(st[t]) /\ ~has_reached_max_readers(st[t])

(* read_contended: sets the readers waiting bit before going to sleep. *)
read_contended_mark(t) ==
  /\ At(t, "rloop") /\ MustWait(t) /\ ~has_readers_waiting(st[t])
  /\ LET marked == WithReaders(state, TRUE)
     IN  \/ state = st[t] /\ state' = marked /\ Loaded(t, marked)
         \/ state # st[t] /\ Loaded(t, state) /\ UNCHANGED state
  /\ UNCHANGED <<writer_notify, pc, sleepers>>

(* futex_wait(&self.state, state | READERS_WAITING): its load. *)
read_contended_wait(t) ==
  /\ At(t, "rloop") /\ MustWait(t) /\ has_readers_waiting(st[t])
  /\ To(t, IF state = st[t] THEN "rsyscall" ELSE "rspin")
  /\ UNCHANGED <<state, writer_notify, locals, sleepers>>

read_syscall(t) ==
  /\ At(t, "rsyscall")
  /\ To(t, IF state = st[t] THEN "rasleep" ELSE "rspin")
  /\ rSleepers' = IF state = st[t] THEN rSleepers \union {t} ELSE rSleepers
  /\ UNCHANGED <<state, writer_notify, locals, wSleepers>>

read_woken(t) ==
  /\ At(t, "rasleep") /\ t \notin rSleepers
  /\ To(t, "rspin")
  /\ UNCHANGED <<state, writer_notify, locals, sleepers>>

-------------------------------------------------------------------------------

(* try_write: like try_read, one step; the waiting bits stay as they are. *)
try_write(t) ==
  /\ At(t, "idle")
  /\ state' = IF is_unlocked(state) THEN WithCount(state, WRITE_LOCKED)
                                    ELSE state
  /\ To(t, IF is_unlocked(state) THEN "wheld" ELSE "idle")
  /\ UNCHANGED <<writer_notify, locals, sleepers>>

(* write: compare_exchange_weak(0, WRITE_LOCKED) succeeds. *)
write_fast(t) ==
  /\ At(t, "idle")
  /\ is_unlocked(state) /\ ~state.r /\ ~state.w
  /\ state' = WithCount(state, WRITE_LOCKED)
  /\ To(t, "wheld")
  /\ UNCHANGED <<writer_notify, locals, sleepers>>

(* write: it fails, perhaps for no reason, and write_contended begins. *)
write(t) ==
  /\ At(t, "idle")
  /\ To(t, "wspin")
  /\ others' = [others EXCEPT ![t] = FALSE]
  /\ UNCHANGED <<state, writer_notify, st, seq, sleepers>>

spin_write(t) ==
  /\ At(t, "wspin")
  /\ Loaded(t, state)
  /\ To(t, "wloop")
  /\ UNCHANGED <<state, writer_notify, sleepers>>

(* A slip in write_contended_lock: other_writers_waiting is left out. *)
ForgetOtherWriters(t) ==
  /\ At(t, "wloop") /\ is_unlocked(st[t])
  /\ \/ /\ state = st[t]
        /\ state' = WithCount(state, WRITE_LOCKED)
        /\ To(t, "wheld")
        /\ UNCHANGED locals
     \/ /\ state # st[t]
        /\ Loaded(t, state)
        /\ UNCHANGED <<state, pc>>
  /\ UNCHANGED <<writer_notify, sleepers>>

(* A slip in write_contended_lock: a store where the exchange should be. *)
StoreWriteLocked(t) ==
  /\ At(t, "wloop") /\ is_unlocked(st[t])
  /\ state' = WithWriters(WithCount(state, WRITE_LOCKED), state.w \/ others[t])
  /\ To(t, "wheld")
  /\ UNCHANGED <<writer_notify, locals, sleepers>>

(* write_contended: locks, keeping the bit on for the other writers. *)
write_contended_lock(t) ==
  /\ At(t, "wloop") /\ is_unlocked(st[t])
  /\ \/ /\ state = st[t]
        /\ state' = WithWriters(WithCount(state, WRITE_LOCKED), state.w \/ others[t])
        /\ To(t, "wheld")
        /\ UNCHANGED locals
     \/ /\ state # st[t]
        /\ Loaded(t, state)
        /\ UNCHANGED <<state, pc>>
  /\ UNCHANGED <<writer_notify, sleepers>>

(* write_contended: sets the writers waiting bit. *)
write_contended_mark(t) ==
  /\ At(t, "wloop") /\ ~is_unlocked(st[t]) /\ ~has_writers_waiting(st[t])
  /\ LET marked == WithWriters(state, TRUE)
     IN  \/ state = st[t] /\ state' = marked /\ Loaded(t, marked)
         \/ state # st[t] /\ Loaded(t, state) /\ UNCHANGED state
  /\ UNCHANGED <<writer_notify, pc, sleepers>>

(* write_contended: reads the notification counter before it looks again. *)
write_contended_seq(t) ==
  /\ At(t, "wloop") /\ ~is_unlocked(st[t]) /\ has_writers_waiting(st[t])
  /\ others' = [others EXCEPT ![t] = TRUE]
  /\ seq' = [seq EXCEPT ![t] = writer_notify]
  /\ To(t, "wcheck")
  /\ UNCHANGED <<state, writer_notify, st, sleepers>>

(* write_contended: no sleep if the lock is free or the bit is off. *)
write_contended_check(t) ==
  /\ At(t, "wcheck")
  /\ Loaded(t, state)
  /\ To(t, IF is_unlocked(state) \/ ~has_writers_waiting(state)
             THEN "wloop" ELSE "wwait")
  /\ UNCHANGED <<state, writer_notify, sleepers>>

(* futex_wait(&self.writer_notify, seq): its load. *)
write_contended_wait(t) ==
  /\ At(t, "wwait")
  /\ To(t, IF writer_notify = seq[t] THEN "wsyscall" ELSE "wspin")
  /\ UNCHANGED <<state, writer_notify, locals, sleepers>>

write_syscall(t) ==
  /\ At(t, "wsyscall")
  /\ To(t, IF writer_notify = seq[t] THEN "wasleep" ELSE "wspin")
  /\ wSleepers' = IF writer_notify = seq[t] THEN wSleepers \union {t}
                                            ELSE wSleepers
  /\ UNCHANGED <<state, writer_notify, locals, rSleepers>>

write_woken(t) ==
  /\ At(t, "wasleep") /\ t \notin wSleepers
  /\ To(t, "wspin")
  /\ UNCHANGED <<state, writer_notify, locals, sleepers>>

(* EINTR: futex_wait goes round its loop. *)
wait_interrupted(t) ==
  /\ t \in rSleepers \union wSleepers
  /\ To(t, IF t \in rSleepers THEN "rloop" ELSE "wwait")
  /\ rSleepers' = rSleepers \ {t}
  /\ wSleepers' = wSleepers \ {t}
  /\ UNCHANGED <<state, writer_notify, locals>>

wait_spurious(t) ==
  /\ t \in rSleepers \union wSleepers
  /\ rSleepers' = rSleepers \ {t}
  /\ wSleepers' = wSleepers \ {t}
  /\ UNCHANGED <<state, writer_notify, pc, locals>>

-------------------------------------------------------------------------------

(***************************************************************************)
(* read_unlock: fetch_sub(READ_LOCKED); the last reader calls              *)
(* wake_writer_or_readers with the word it left, if a writer waits.        *)
(***************************************************************************)
read_unlock(t) ==
  LET left == WithCount(state, state.n - 1)
  IN  /\ At(t, "rheld")
      /\ state' = left
      /\ Loaded(t, left)
      /\ To(t, IF is_unlocked(left) /\ has_writers_waiting(left)
                 THEN "wake" ELSE "idle")
      /\ UNCHANGED <<writer_notify, sleepers>>

(* write_unlock: fetch_sub(WRITE_LOCKED), then the waiters of either kind. *)
write_unlock(t) ==
  LET left == WithCount(state, state.n - WRITE_LOCKED)
  IN  /\ At(t, "wheld")
      /\ state' = left
      /\ Loaded(t, left)
      /\ To(t, IF has_writers_waiting(left) \/ has_readers_waiting(left)
                 THEN "wake" ELSE "idle")
      /\ UNCHANGED <<writer_notify, sleepers>>

(***************************************************************************)
(* wake_writer_or_readers, first if: only writers wait.  When the exchange *)
(* fails the new word selects one of the other ifs, or none.               *)
(***************************************************************************)
wake_only_writers(t) ==
  /\ At(t, "wake") /\ OnlyWriters(st[t])
  /\ \/ /\ state = st[t]
        /\ state' = WithWriters(state, FALSE)
        /\ To(t, "notify")
        /\ UNCHANGED locals
     \/ /\ state # st[t]
        /\ Loaded(t, state)
        /\ To(t, IF BothWaiting(state) \/ OnlyReaders(state)
                   THEN "wake" ELSE "idle")
        /\ UNCHANGED state
  /\ UNCHANGED <<writer_notify, sleepers>>

(* Second if: both wait; the readers' bit stays on while a writer is woken. *)
wake_both(t) ==
  /\ At(t, "wake") /\ BothWaiting(st[t])
  /\ state' = IF state = st[t] THEN WithWriters(state, FALSE) ELSE state
  /\ To(t, IF state = st[t] THEN "notify" ELSE "idle")
  /\ UNCHANGED <<writer_notify, locals, sleepers>>

(* Third if: readers wait, and all of them are woken. *)
wake_readers(t) ==
  /\ At(t, "wake") /\ OnlyReaders(st[t])
  /\ state' = IF state = st[t] THEN WithReaders(state, FALSE) ELSE state
  /\ To(t, IF state = st[t] THEN "wakereaders" ELSE "idle")
  /\ UNCHANGED <<writer_notify, locals, sleepers>>

(* A slip in wake_writer_notify: the counter is not incremented. *)
NotifyWithoutCounting(t) ==
  /\ At(t, "notify")
  /\ To(t, "wakewriter")
  /\ UNCHANGED <<state, writer_notify, locals, sleepers>>

(* wake_writer: fetch_add(1), which wraps. *)
wake_writer_notify(t) ==
  /\ At(t, "notify")
  /\ writer_notify' = (writer_notify + 1) % Word
  /\ To(t, "wakewriter")
  /\ UNCHANGED <<state, locals, sleepers>>

(* A slip in wake_writer: readers are not considered if no writer slept. *)
NeverFallBack(t) ==
  /\ At(t, "wakewriter")
  /\ futex_wake(wSleepers, wSleepers')
  /\ To(t, "idle")
  /\ UNCHANGED <<state, writer_notify, locals, rSleepers>>

(***************************************************************************)
(* wake_writer: the system call and its answer.  With both kinds waiting   *)
(* and no writer known to be woken, the third if is tried with             *)
(* READERS_WAITING as the expected word.                                   *)
(***************************************************************************)
wake_writer(t) ==
  /\ At(t, "wakewriter")
  /\ futex_wake(wSleepers, wSleepers')
  /\ \E reports \in ReportsWake :
       \/ /\ OnlyWriters(st[t]) \/ (reports /\ WokeSomeone(wSleepers))
          /\ To(t, "idle")
          /\ UNCHANGED locals
       \/ /\ BothWaiting(st[t]) /\ ~(reports /\ WokeSomeone(wSleepers))
          /\ To(t, "wake")
          /\ Loaded(t, [n |-> 0, r |-> TRUE, w |-> FALSE])
  /\ UNCHANGED <<state, writer_notify, rSleepers>>

wake_all_readers(t) ==
  /\ At(t, "wakereaders")
  /\ futex_wake_all(rSleepers')
  /\ To(t, "idle")
  /\ UNCHANGED <<state, writer_notify, locals, wSleepers>>

-------------------------------------------------------------------------------

ReadStep(t) ==
  \/ read_fast(t) \/ read_slow(t) \/ spin_read(t)
  \/ read_contended_lock(t) \/ read_contended_panic(t)
  \/ read_contended_mark(t) \/ read_contended_wait(t)
  \/ read_syscall(t) \/ read_woken(t)

WriteStep(t) ==
  \/ spin_write(t) \/ write_contended_lock(t) \/ write_contended_mark(t)
  \/ write_contended_seq(t) \/ write_contended_check(t)
  \/ write_contended_wait(t) \/ write_syscall(t) \/ write_woken(t)

WakeStep(t) ==
  \/ wake_only_writers(t) \/ wake_both(t) \/ wake_readers(t)
  \/ wake_writer_notify(t) \/ wake_writer(t) \/ wake_all_readers(t)

RwCall(t) == try_read(t) \/ read(t) \/ try_write(t) \/ write_fast(t) \/ write(t)

RwUnlock(t) == read_unlock(t) \/ write_unlock(t)

RwKernel(t) == wait_interrupted(t) \/ wait_spurious(t)

RwNext ==
  \E t \in Threads : \/ RwCall(t) \/ RwUnlock(t)
                     \/ ReadStep(t) \/ WriteStep(t) \/ WakeStep(t)
                     \/ RwKernel(t)

RwSpec == RwInit /\ [][RwNext]_rwVars

-------------------------------------------------------------------------------

readers == {t \in Threads : pc[t] = "rheld"}

writers == {t \in Threads : pc[t] = "wheld"}

(***************************************************************************)
(* The word counts the holders: the field n is the number of readers, or   *)
(* WRITE_LOCKED for exactly one writer.  So readers and writers exclude    *)
(* each other, and the reader count never runs into WRITE_LOCKED (the      *)
(* overflow check in is_read_lockable).                                    *)
(***************************************************************************)
WordCountsHolders ==
  \/ writers = {} /\ state.n = Cardinality(readers) /\ state.n <= MAX_READERS
  \/ readers = {} /\ state.n = WRITE_LOCKED /\ \E t \in Threads : writers = {t}

(***************************************************************************)
(* debug_assert of read_unlock: "It's impossible for a reader to be        *)
(* waiting on a read-locked RwLock, except if there is also a writer       *)
(* waiting."  (The last reader would otherwise wake nobody.)               *)
(***************************************************************************)
ReadersWaitBehindWriters ==
  state.n \in 1..MAX_READERS /\ has_readers_waiting(state)
    => has_writers_waiting(state)

(* A writer that is awake inside write_contended. *)
AwakeWriters == {t \in Threads \ wSleepers :
                   pc[t] \in {"wspin", "wloop", "wcheck", "wwait", "wsyscall",
                             "wasleep"}}

(* An unlocking thread that has yet to look after the waiters. *)
Wakers == {t \in Threads : pc[t] \in {"wake", "notify", "wakewriter"}}

(***************************************************************************)
(* No sleeping reader is forgotten: its bit is on, or it is being woken;   *)
(* and a bit that is on in an unlocked word is somebody's business (the    *)
(* unlocking thread's, or that of a writer about to lock).                 *)
(***************************************************************************)
NoLostReader ==
  rSleepers # {} =>
    \/ \E t \in Threads : pc[t] = "wakereaders"
    \/ /\ has_readers_waiting(state)
       /\ is_unlocked(state) => Wakers \union AwakeWriters # {}

(***************************************************************************)
(* No sleeping writer is forgotten: the bit is on in a locked word, or an  *)
(* unlocking thread is about to wake one, or a writer that is awake will   *)
(* lock with other_writers_waiting or set the bit itself.                  *)
(***************************************************************************)
NoLostWriter ==
  wSleepers # {} =>
    \/ has_writers_waiting(state) /\ ~is_unlocked(state)
    \/ Wakers \union AwakeWriters # {}

(***************************************************************************)
(* The algorithm implements the reader-writer lock its users know.         *)
(***************************************************************************)
RwLock == INSTANCE AbstractRwLock

ImplementsRwLock == RwLock!Spec

===============================================================================
