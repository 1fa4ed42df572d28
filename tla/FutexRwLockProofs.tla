--------------------------- MODULE FutexRwLockProofs ---------------------------
(***************************************************************************)
(* Proofs about FutexRwLock, for any finite set of threads and any reader  *)
(* limit.                                                                  *)
(*                                                                         *)
(* Every step either leaves the holders and the count field of the word    *)
(* alone or is one of four changes of both together (HoldersStep).         *)
(* Exclusion and the refinement of the abstract lock follow from that.     *)
(*                                                                         *)
(* The second part is about those who wait: an unlocked word with a        *)
(* waiting bit on is somebody's business (BitsAttended), so nobody sleeps  *)
(* through the unlocking they have waited for.                             *)
(***************************************************************************)
EXTENDS FutexRwLock, FiniteSetTheorems, TLAPS

(* At the exchange of read() the word it loaded was lockable. *)
FastPathLockable ==
  \A t \in Threads : pc[t] = "rcas" => is_read_lockable(st[t])

(* The inductive invariant for the holders. *)
RwInv ==
  /\ RwTypeOK
  /\ FastPathLockable
  /\ WordCountsHolders
  /\ ReadersWaitBehindWriters

(* The five ways in which a step of t can change the holders: t reads, *)
GainRead(t) ==
  /\ state.n < MAX_READERS /\ state'.n = state.n + 1
  /\ t \notin readers /\ readers' = readers \union {t} /\ writers' = writers

(* t writes, *)
GainWrite(t) ==
  /\ state.n = 0 /\ state'.n = WRITE_LOCKED
  /\ readers' = readers /\ writers' = writers \union {t}

(* t has read, *)
DropRead(t) ==
  /\ t \in readers /\ state'.n = state.n - 1
  /\ readers' = readers \ {t} /\ writers' = writers

(* t has written, *)
DropWrite(t) ==
  /\ t \in writers /\ state'.n = state.n - WRITE_LOCKED
  /\ readers' = readers /\ writers' = writers \ {t}

(* or not at all. *)
KeepHolders ==
  state'.n = state.n /\ readers' = readers /\ writers' = writers

(* One of the five. *)
HoldersChange(t) ==
  GainRead(t) \/ GainWrite(t) \/ DropRead(t) \/ DropWrite(t) \/ KeepHolders

-------------------------------------------------------------------------------

(* What the updates of one field of the state word do to the fields. *)
LEMMA WithCountFields ==
  ASSUME NEW s \in StateWord, NEW n \in 0..WRITE_LOCKED
  PROVE  /\ WithCount(s, n) \in StateWord
         /\ WithCount(s, n).n = n
         /\ WithCount(s, n).r = s.r
         /\ WithCount(s, n).w = s.w
BY RwLockAssumption DEF StateWord, WithCount, WRITE_LOCKED

(* Setting the readers' bit leaves the rest. *)
LEMMA WithReadersFields ==
  ASSUME NEW s \in StateWord, NEW b \in BOOLEAN
  PROVE  /\ WithReaders(s, b) \in StateWord
         /\ WithReaders(s, b).n = s.n
         /\ WithReaders(s, b).r = b
         /\ WithReaders(s, b).w = s.w
BY RwLockAssumption DEF StateWord, WithReaders, WRITE_LOCKED

(* Setting the writers' bit leaves the rest. *)
LEMMA WithWritersFields ==
  ASSUME NEW s \in StateWord, NEW b \in BOOLEAN
  PROVE  /\ WithWriters(s, b) \in StateWord
         /\ WithWriters(s, b).n = s.n
         /\ WithWriters(s, b).r = s.r
         /\ WithWriters(s, b).w = b
BY RwLockAssumption DEF StateWord, WithWriters, WRITE_LOCKED

(* The fields of a word are a count and two bits. *)
LEMMA StateWordFields ==
  /\ WRITE_LOCKED \in Nat
  /\ \A s \in StateWord : s.n \in 0..WRITE_LOCKED /\ s.r \in BOOLEAN
                                                  /\ s.w \in BOOLEAN
BY RwLockAssumption DEF StateWord, WRITE_LOCKED

(* A held lock shows in the word, whoever holds it. *)
LEMMA HeldWord ==
  ASSUME RwTypeOK, WordCountsHolders
  PROVE  /\ readers # {} => state.n # 0 /\ writers = {}
         /\ writers # {} => state.n = WRITE_LOCKED /\ readers = {}
<1>1. IsFiniteSet(readers)
  BY RwLockAssumption, FS_Subset DEF readers
<1>2. Cardinality(readers) = 0 <=> readers = {}
  BY <1>1, FS_EmptySet
<1>3. QED BY <1>2 DEF WordCountsHolders

(***************************************************************************)
(* Every atomic access and system call keeps the words, the control points *)
(* and the queues in their types.  WordCountsHolders is needed for the     *)
(* subtractions of the unlocks.                                            *)
(***************************************************************************)
LEMMA RwTypeStep ==
  RwInv /\ [RwNext]_rwVars => RwTypeOK'
<1> SUFFICES ASSUME RwInv, [RwNext]_rwVars PROVE RwTypeOK'
  OBVIOUS
<1> USE DEF RwInv, RwTypeOK, RwPC, At, To, Loaded, locals, sleepers
<1>0. /\ WRITE_LOCKED \in 0..WRITE_LOCKED /\ state.n \in 0..WRITE_LOCKED
      /\ state.n < MAX_READERS => state.n + 1 \in 0..WRITE_LOCKED
  BY StateWordFields, RwLockAssumption DEF WRITE_LOCKED
<1>1. CASE UNCHANGED rwVars
  BY <1>1 DEF rwVars
<1>2. ASSUME NEW t \in Threads, RwCall(t) PROVE RwTypeOK'
  <2>1. CASE try_read(t)
    <3>1. is_read_lockable(state) => ReadLocked \in StateWord
      BY <1>0, WithCountFields DEF is_read_lockable, ReadLocked
    <3>2. QED BY <2>1, <3>1 DEF try_read
  <2>2. CASE read(t) \/ write(t)
    <3>1. CASE read(t)
      BY <3>1 DEF read
    <3>2. CASE write(t)
      BY <3>2 DEF write
    <3>3. QED BY <2>2, <3>1, <3>2
  <2>3. CASE try_write(t) \/ write_fast(t)
    <3>1. WithCount(state, WRITE_LOCKED) \in StateWord
      BY <1>0, WithCountFields
    <3>2. QED BY <2>3, <3>1 DEF try_write, write_fast
  <2>4. QED BY <1>2, <2>1, <2>2, <2>3 DEF RwCall
<1>3. ASSUME NEW t \in Threads, ReadStep(t) PROVE RwTypeOK'
  <2>1. CASE read_fast(t) \/ read_contended_lock(t)
    <3>1. is_read_lockable(state) => ReadLocked \in StateWord
      BY <1>0, WithCountFields DEF is_read_lockable, ReadLocked
    <3>2. QED BY <2>1, <3>1 DEF read_fast, read_contended_lock, FastPathLockable
  <2>2. CASE read_slow(t) \/ spin_read(t) \/ read_contended_panic(t)
    BY <2>2 DEF read_slow, spin_read, read_contended_panic
  <2>3. CASE read_contended_mark(t)
    <3>1. WithReaders(state, TRUE) \in StateWord
      BY WithReadersFields
    <3>2. QED BY <2>3, <3>1 DEF read_contended_mark
  <2>4. CASE read_contended_wait(t) \/ read_syscall(t) \/ read_woken(t)
    BY <2>4 DEF read_contended_wait, read_syscall, read_woken
  <2>5. QED BY <1>3, <2>1, <2>2, <2>3, <2>4 DEF ReadStep
<1>4. ASSUME NEW t \in Threads, WriteStep(t) PROVE RwTypeOK'
  <2>1. CASE write_contended_lock(t)
    <3>1. WithCount(state, WRITE_LOCKED) \in StateWord
      BY <1>0, WithCountFields
    <3>2. state.w \/ others[t] \in BOOLEAN
      OBVIOUS
    <3>3. WithWriters(WithCount(state, WRITE_LOCKED), state.w \/ others[t])
            \in StateWord
      BY <3>1, <3>2, WithWritersFields
    <3>4. QED BY <2>1, <3>3 DEF write_contended_lock
  <2>2. CASE write_contended_mark(t)
    <3>1. WithWriters(state, TRUE) \in StateWord
      BY WithWritersFields
    <3>2. QED BY <2>2, <3>1 DEF write_contended_mark
  <2>3. CASE spin_write(t) \/ write_contended_seq(t) \/ write_contended_check(t)
    <3>1. CASE spin_write(t)
      BY <3>1 DEF spin_write
    <3>2. CASE write_contended_seq(t)
      BY <3>2 DEF write_contended_seq
    <3>3. CASE write_contended_check(t)
      BY <3>3 DEF write_contended_check
    <3>4. QED BY <2>3, <3>1, <3>2, <3>3
  <2>4. CASE write_contended_wait(t) \/ write_syscall(t) \/ write_woken(t)
    BY <2>4 DEF write_contended_wait, write_syscall, write_woken
  <2>5. QED BY <1>4, <2>1, <2>2, <2>3, <2>4 DEF WriteStep
<1>5. ASSUME NEW t \in Threads, RwUnlock(t) PROVE RwTypeOK'
  <2>1. CASE read_unlock(t)
    <3>1. state.n # 0
      BY <2>1, HeldWord DEF read_unlock, readers
    <3>2. state.n - 1 \in 0..WRITE_LOCKED
      BY <1>0, <3>1, StateWordFields
    <3>3. WithCount(state, state.n - 1) \in StateWord
      BY <3>2, WithCountFields
    <3>4. QED BY <2>1, <3>3 DEF read_unlock
  <2>2. CASE write_unlock(t)
    <3>1. state.n = WRITE_LOCKED
      BY <2>2, HeldWord DEF write_unlock, writers
    <3>2. state.n - WRITE_LOCKED \in 0..WRITE_LOCKED
      BY <1>0, <3>1, StateWordFields
    <3>3. WithCount(state, state.n - WRITE_LOCKED) \in StateWord
      BY <3>2, WithCountFields
    <3>4. QED BY <2>2, <3>3 DEF write_unlock
  <2>3. QED BY <1>5, <2>1, <2>2 DEF RwUnlock
<1>6. ASSUME NEW t \in Threads, WakeStep(t) PROVE RwTypeOK'
  <2>1. CASE wake_only_writers(t) \/ wake_both(t) \/ wake_readers(t)
    <3>1. /\ WithWriters(state, FALSE) \in StateWord
          /\ WithReaders(state, FALSE) \in StateWord
      BY WithWritersFields, WithReadersFields
    <3>2. QED BY <2>1, <3>1 DEF wake_only_writers, wake_both, wake_readers
  <2>2. CASE wake_writer_notify(t)
    BY <2>2, RwLockAssumption DEF wake_writer_notify
  <2>3. CASE wake_writer(t)
    <3>1. [n |-> 0, r |-> TRUE, w |-> FALSE] \in StateWord
      BY <1>0, RwLockAssumption DEF StateWord, WRITE_LOCKED
    <3>2. /\ wSleepers' \subseteq wSleepers /\ pc[t] = "wakewriter"
          /\ UNCHANGED <<state, writer_notify, rSleepers, seq, others>>
      BY <2>3 DEF wake_writer, futex_wake
    <3>3. \/ pc' = [pc EXCEPT ![t] = "idle"] /\ st' = st
          \/ /\ pc' = [pc EXCEPT ![t] = "wake"]
             /\ st' = [st EXCEPT ![t] = [n |-> 0, r |-> TRUE, w |-> FALSE]]
      BY <2>3 DEF wake_writer
    <3>4. pc' \in [Threads -> RwPC] /\ st' \in [Threads -> StateWord]
      BY <3>1, <3>3
    <3>5. \A u \in Threads : pc[u] \in {"rasleep", "wasleep"} => pc'[u] = pc[u]
      BY <3>2, <3>3
    <3>6. QED BY <3>2, <3>4, <3>5
  <2>4. CASE wake_all_readers(t)
    BY <2>4 DEF wake_all_readers, futex_wake_all
  <2>5. QED BY <1>6, <2>1, <2>2, <2>3, <2>4 DEF WakeStep
<1>7. ASSUME NEW t \in Threads, RwKernel(t) PROVE RwTypeOK'
  BY <1>7 DEF RwKernel, wait_interrupted, wait_spurious
<1>8. QED
  BY <1>1, <1>2, <1>3, <1>4, <1>5, <1>6, <1>7 DEF RwNext

(***************************************************************************)
(* Every step takes a lock, drops one, or leaves the holders and the count *)
(* of the word alone: what the code does to the word and what a thread may *)
(* believe it holds never come apart.                                      *)
(***************************************************************************)
LEMMA HoldersStep ==
  ASSUME RwInv, RwNext
  PROVE  \E t \in Threads : HoldersChange(t)
<1> USE DEF RwInv, RwTypeOK, At, To, locals, sleepers
<1>0. /\ WRITE_LOCKED \in 0..WRITE_LOCKED /\ state.n \in 0..WRITE_LOCKED
      /\ state.n < MAX_READERS => state.n + 1 \in 0..WRITE_LOCKED
  BY StateWordFields, RwLockAssumption DEF WRITE_LOCKED
<1>1. PICK t \in Threads : \/ RwCall(t) \/ RwUnlock(t) \/ ReadStep(t)
                          \/ WriteStep(t) \/ WakeStep(t) \/ RwKernel(t)
  BY DEF RwNext
<1>2. ASSUME is_read_lockable(state), state' = ReadLocked, pc[t] # "rheld",
             pc[t] # "wheld", pc' = [pc EXCEPT ![t] = "rheld"]
      PROVE  GainRead(t)
  <2>1. state'.n = state.n + 1 /\ state.n < MAX_READERS
    BY <1>0, <1>2, WithCountFields DEF ReadLocked, is_read_lockable
  <2>2. QED BY <1>2, <2>1 DEF GainRead, readers, writers
<1>3. ASSUME is_unlocked(state), state'.n = WRITE_LOCKED, pc[t] # "rheld",
             pc[t] # "wheld", pc' = [pc EXCEPT ![t] = "wheld"]
      PROVE  GainWrite(t)
  BY <1>3 DEF GainWrite, readers, writers, is_unlocked
<1>4. ASSUME state'.n = state.n, NEW to, pc' = [pc EXCEPT ![t] = to],
             pc[t] \notin {"rheld", "wheld"}, to \notin {"rheld", "wheld"}
      PROVE  KeepHolders
  BY <1>4 DEF KeepHolders, readers, writers
<1>5. WithCount(state, WRITE_LOCKED).n = WRITE_LOCKED
  BY <1>0, WithCountFields
<1>6. ASSUME RwCall(t) PROVE HoldersChange(t)
  <2>1. CASE try_read(t)
    BY <2>1, <1>2, <1>4 DEF try_read, HoldersChange
  <2>2. CASE read(t)
    BY <2>2 DEF read, HoldersChange, KeepHolders, readers, writers
  <2>3. CASE try_write(t)
    BY <2>3, <1>3, <1>4, <1>5 DEF try_write, HoldersChange
  <2>4. CASE write_fast(t)
    BY <2>4, <1>3, <1>5 DEF write_fast, HoldersChange
  <2>5. CASE write(t)
    BY <2>5 DEF write, HoldersChange, KeepHolders, readers, writers
  <2>6. QED BY <1>6, <2>1, <2>2, <2>3, <2>4, <2>5 DEF RwCall
<1>7. ASSUME ReadStep(t) PROVE HoldersChange(t)
  <2>1. CASE read_fast(t)
    BY <2>1, <1>2 DEF read_fast, FastPathLockable, HoldersChange
  <2>2. CASE read_slow(t) \/ spin_read(t) \/ read_contended_panic(t)
    BY <2>2, <1>4 DEF read_slow, spin_read, read_contended_panic, HoldersChange
  <2>3. CASE read_contended_lock(t)
    BY <2>3, <1>2 DEF read_contended_lock, HoldersChange, KeepHolders,
                      readers, writers
  <2>4. CASE read_contended_mark(t)
    <3>1. state'.n = state.n
      BY <2>4, WithReadersFields DEF read_contended_mark
    <3>2. QED BY <2>4, <3>1 DEF read_contended_mark, HoldersChange, KeepHolders,
                                readers, writers
  <2>5. CASE read_contended_wait(t) \/ read_syscall(t) \/ read_woken(t)
    BY <2>5, <1>4 DEF read_contended_wait, read_syscall, read_woken,
                      HoldersChange
  <2>6. QED BY <1>7, <2>1, <2>2, <2>3, <2>4, <2>5 DEF ReadStep
<1>8. ASSUME WriteStep(t) PROVE HoldersChange(t)
  <2>1. CASE write_contended_lock(t)
    <3>1. CASE state = st[t]
      <4>1. WithCount(state, WRITE_LOCKED) \in StateWord
        BY <1>0, WithCountFields
      <4>2. state.w \/ others[t] \in BOOLEAN
        OBVIOUS
      <4>3. WithWriters(WithCount(state, WRITE_LOCKED), state.w \/ others[t]).n
              = WRITE_LOCKED
        BY <4>1, <4>2, <1>5, WithWritersFields
      <4>4. QED BY <2>1, <3>1, <4>3, <1>3 DEF write_contended_lock, HoldersChange
    <3>2. CASE state # st[t]
      BY <2>1, <3>2 DEF write_contended_lock, HoldersChange, KeepHolders,
                        readers, writers
    <3>3. QED BY <3>1, <3>2
  <2>2. CASE write_contended_mark(t)
    <3>1. state'.n = state.n
      BY <2>2, WithWritersFields DEF write_contended_mark
    <3>2. QED BY <2>2, <3>1 DEF write_contended_mark, HoldersChange,
                                KeepHolders, readers, writers
  <2>3. CASE spin_write(t) \/ write_contended_seq(t) \/ write_contended_check(t)
    BY <2>3, <1>4 DEF spin_write, write_contended_seq, write_contended_check,
                      HoldersChange
  <2>4. CASE write_contended_wait(t) \/ write_syscall(t) \/ write_woken(t)
    BY <2>4, <1>4 DEF write_contended_wait, write_syscall, write_woken,
                      HoldersChange
  <2>5. QED BY <1>8, <2>1, <2>2, <2>3, <2>4 DEF WriteStep
<1>9. ASSUME RwUnlock(t) PROVE HoldersChange(t)
  <2>1. CASE read_unlock(t)
    <3>1. state.n # 0
      BY <2>1, HeldWord DEF read_unlock, readers
    <3>2. state.n - 1 \in 0..WRITE_LOCKED
      BY <1>0, <3>1, StateWordFields
    <3>3. state'.n = state.n - 1
      BY <2>1, <3>2, WithCountFields DEF read_unlock
    <3>4. QED BY <2>1, <3>3 DEF read_unlock, HoldersChange, DropRead,
                                readers, writers
  <2>2. CASE write_unlock(t)
    <3>1. state.n = WRITE_LOCKED
      BY <2>2, HeldWord DEF write_unlock, writers
    <3>2. state.n - WRITE_LOCKED \in 0..WRITE_LOCKED
      BY <1>0, <3>1, StateWordFields
    <3>3. state'.n = state.n - WRITE_LOCKED
      BY <2>2, <3>2, WithCountFields DEF write_unlock
    <3>4. QED BY <2>2, <3>3 DEF write_unlock, HoldersChange, DropWrite,
                                readers, writers
  <2>3. QED BY <1>9, <2>1, <2>2 DEF RwUnlock
<1>10. ASSUME WakeStep(t) PROVE HoldersChange(t)
  <2>1. CASE wake_only_writers(t) \/ wake_both(t) \/ wake_readers(t)
    <3>0. /\ WithWriters(state, FALSE).n = state.n
          /\ WithReaders(state, FALSE).n = state.n
      BY WithWritersFields, WithReadersFields
    <3>1. state'.n = state.n
      BY <2>1, <3>0 DEF wake_only_writers, wake_both, wake_readers
    <3>2. QED BY <2>1, <3>1, <1>4 DEF wake_only_writers, wake_both,
                                      wake_readers, HoldersChange
  <2>2. CASE wake_writer_notify(t) \/ wake_writer(t) \/ wake_all_readers(t)
    BY <2>2, <1>4 DEF wake_writer_notify, wake_writer, wake_all_readers,
                      HoldersChange
  <2>3. QED BY <1>10, <2>1, <2>2 DEF WakeStep
<1>11. ASSUME RwKernel(t) PROVE HoldersChange(t)
  BY <1>11 DEF RwKernel, wait_interrupted, wait_spurious, HoldersChange,
               KeepHolders, readers, writers
<1>12. QED
  BY <1>1, <1>6, <1>7, <1>8, <1>9, <1>10, <1>11

(***************************************************************************)
(* The count keeps up with the holders across every change of them.        *)
(***************************************************************************)
LEMMA CountStep ==
  ASSUME RwTypeOK, WordCountsHolders, NEW t \in Threads, HoldersChange(t)
  PROVE  WordCountsHolders'
<1>0. /\ state.n \in Nat /\ MAX_READERS \in Nat \ {0}
      /\ WRITE_LOCKED = MAX_READERS + 1
  BY StateWordFields, RwLockAssumption DEF RwTypeOK, WRITE_LOCKED
<1>1. IsFiniteSet(readers)
  BY RwLockAssumption, FS_Subset DEF readers
<1>2. CASE GainRead(t)
  <2>1. writers = {} /\ state.n = Cardinality(readers)
    BY <1>0, <1>2 DEF GainRead, WordCountsHolders
  <2>2. Cardinality(readers') = Cardinality(readers) + 1
    BY <1>1, <1>2, FS_AddElement DEF GainRead
  <2>3. QED BY <1>0, <1>2, <2>1, <2>2 DEF GainRead, WordCountsHolders
<1>3. CASE GainWrite(t)
  <2>1. readers = {} /\ writers = {}
    BY <1>0, <1>1, <1>3, FS_EmptySet DEF GainWrite, WordCountsHolders
  <2>2. QED BY <1>3, <2>1 DEF GainWrite, WordCountsHolders
<1>4. CASE DropRead(t)
  <2>1. writers = {} /\ state.n = Cardinality(readers) /\ state.n <= MAX_READERS
    BY <1>4 DEF DropRead, WordCountsHolders
  <2>2. Cardinality(readers') = Cardinality(readers) - 1
    BY <1>1, <1>4, FS_RemoveElement DEF DropRead
  <2>3. QED BY <1>0, <1>4, <2>1, <2>2 DEF DropRead, WordCountsHolders
<1>5. CASE DropWrite(t)
  <2>1. readers = {} /\ state.n = WRITE_LOCKED /\ writers = {t}
    BY <1>1, <1>5, FS_EmptySet DEF DropWrite, WordCountsHolders
  <2>2. readers' = {} /\ writers' = {} /\ state'.n = 0
    BY <1>0, <1>5, <2>1 DEF DropWrite
  <2>3. QED BY <1>0, <2>2, FS_EmptySet DEF WordCountsHolders
<1>6. CASE KeepHolders
  BY <1>6 DEF KeepHolders, WordCountsHolders
<1>7. QED
  BY <1>2, <1>3, <1>4, <1>5, <1>6 DEF HoldersChange

(***************************************************************************)
(* The readers' bit goes on in a read locked word only next to the         *)
(* writers' bit, and the writers' bit goes off only in an unlocked word.   *)
(***************************************************************************)
LEMMA BitsStep ==
  ASSUME RwInv, RwNext
  PROVE  ReadersWaitBehindWriters'
<1> USE DEF RwInv, RwTypeOK, At, ReadersWaitBehindWriters,
            has_readers_waiting, has_writers_waiting
<1>0. /\ WRITE_LOCKED \in 0..WRITE_LOCKED /\ state.n \in 0..WRITE_LOCKED
      /\ state.n < MAX_READERS => state.n + 1 \in 0..WRITE_LOCKED
      /\ WRITE_LOCKED \notin 1..MAX_READERS
      /\ MAX_READERS \in Nat
  BY StateWordFields, RwLockAssumption DEF WRITE_LOCKED
<1>1. PICK t \in Threads : \/ RwCall(t) \/ RwUnlock(t) \/ ReadStep(t)
                          \/ WriteStep(t) \/ WakeStep(t) \/ RwKernel(t)
  BY DEF RwNext
<1>2. ASSUME is_read_lockable(state), state' = ReadLocked
      PROVE  ReadersWaitBehindWriters'
  <2>1. state.n + 1 \in 0..WRITE_LOCKED /\ ~state.r
    BY <1>0, <1>2 DEF is_read_lockable
  <2>2. state'.r = state.r
    BY <1>2, <2>1, WithCountFields DEF ReadLocked
  <2>3. QED BY <2>1, <2>2
<1>3. CASE state' = state
  BY <1>3
<1>4. CASE state' = WithCount(state, WRITE_LOCKED)
  BY <1>0, <1>4, WithCountFields
<1>5. ASSUME RwUnlock(t) PROVE ReadersWaitBehindWriters'
  <2>1. CASE read_unlock(t)
    <3>1. state.n # 0 /\ state.n <= MAX_READERS
      BY <2>1, HeldWord DEF read_unlock, readers, WordCountsHolders
    <3>2. state.n - 1 \in 0..WRITE_LOCKED /\ state.n \in 1..MAX_READERS
      BY <1>0, <3>1, StateWordFields
    <3>3. state'.n = state.n - 1 /\ state'.r = state.r /\ state'.w = state.w
      BY <2>1, <3>2, WithCountFields DEF read_unlock
    <3>4. QED BY <3>2, <3>3
  <2>2. CASE write_unlock(t)
    <3>1. state.n = WRITE_LOCKED
      BY <2>2, HeldWord DEF write_unlock, writers
    <3>2. state.n - WRITE_LOCKED \in 0..WRITE_LOCKED /\ state.n - WRITE_LOCKED = 0
      BY <1>0, <3>1, StateWordFields
    <3>3. state'.n = 0
      BY <2>2, <3>2, WithCountFields DEF write_unlock
    <3>4. QED BY <3>3
  <2>3. QED BY <1>5, <2>1, <2>2 DEF RwUnlock
<1>6. ASSUME read_contended_mark(t) PROVE ReadersWaitBehindWriters'
  <2>1. CASE state = st[t]
    <3>1. state.n < MAX_READERS => state.w
      BY <1>6, <2>1 DEF read_contended_mark, MustWait, is_read_lockable
    <3>2. state.n # MAX_READERS
      BY <1>6, <2>1 DEF read_contended_mark, MustWait, has_reached_max_readers
    <3>3. state' = WithReaders(state, TRUE)
      BY <1>6, <2>1 DEF read_contended_mark
    <3>4. state'.n = state.n /\ state'.w = state.w
      BY <3>3, WithReadersFields
    <3>5. QED BY <1>0, <3>1, <3>2, <3>4
  <2>2. CASE state # st[t]
    BY <1>6, <2>2, <1>3 DEF read_contended_mark
  <2>3. QED BY <2>1, <2>2
<1>7. ASSUME write_contended_lock(t) PROVE ReadersWaitBehindWriters'
  <2>1. CASE state = st[t]
    <3>1. WithCount(state, WRITE_LOCKED) \in StateWord
      BY <1>0, WithCountFields
    <3>2. state.w \/ others[t] \in BOOLEAN
      OBVIOUS
    <3>3. WithWriters(WithCount(state, WRITE_LOCKED), state.w \/ others[t]).n
            = WRITE_LOCKED
      <4>1. WithCount(state, WRITE_LOCKED).n = WRITE_LOCKED
        BY <1>0, WithCountFields
      <4>2. QED BY <3>1, <3>2, <4>1, WithWritersFields
    <3>4. QED BY <1>0, <1>7, <2>1, <3>3 DEF write_contended_lock
  <2>2. CASE state # st[t]
    BY <1>7, <2>2, <1>3 DEF write_contended_lock
  <2>3. QED BY <2>1, <2>2
<1>8. ASSUME write_contended_mark(t) PROVE ReadersWaitBehindWriters'
  <2>1. WithWriters(state, TRUE).w
    BY WithWritersFields
  <2>2. QED BY <1>8, <2>1, <1>3 DEF write_contended_mark
<1>9. ASSUME wake_only_writers(t) \/ wake_both(t) \/ wake_readers(t)
      PROVE  ReadersWaitBehindWriters'
  <2>1. /\ WithWriters(state, FALSE).n = state.n
        /\ WithReaders(state, FALSE).n = state.n
    BY WithWritersFields, WithReadersFields
  <2>2. state' = state \/ state'.n = 0
    BY <1>9, <2>1 DEF wake_only_writers, wake_both, wake_readers, OnlyWriters,
                      BothWaiting, OnlyReaders, is_unlocked
  <2>3. QED BY <2>2, <1>3
<1>10. ASSUME RwCall(t) PROVE ReadersWaitBehindWriters'
  BY <1>10, <1>2, <1>3, <1>4 DEF RwCall, try_read, read, try_write, write_fast,
                                 write
<1>11. ASSUME ReadStep(t) PROVE ReadersWaitBehindWriters'
  BY <1>11, <1>2, <1>3, <1>6
     DEF ReadStep, read_fast, FastPathLockable, read_slow, spin_read,
         read_contended_lock, read_contended_panic, read_contended_wait,
         read_syscall, read_woken
<1>12. ASSUME WriteStep(t) PROVE ReadersWaitBehindWriters'
  BY <1>12, <1>3, <1>7, <1>8
     DEF WriteStep, spin_write, write_contended_seq, write_contended_check,
         write_contended_wait, write_syscall, write_woken
<1>13. ASSUME WakeStep(t) PROVE ReadersWaitBehindWriters'
  BY <1>13, <1>3, <1>9 DEF WakeStep, wake_writer_notify, wake_writer,
                           wake_all_readers
<1>14. ASSUME RwKernel(t) PROVE ReadersWaitBehindWriters'
  BY <1>14, <1>3 DEF RwKernel, wait_interrupted, wait_spurious
<1>15. QED
  BY <1>1, <1>5, <1>10, <1>11, <1>12, <1>13, <1>14

(* The invariant holds in every state of every behaviour of the lock. *)
THEOREM RwInvariant == RwSpec => []RwInv
<1>1. RwInit => RwInv
  <2> SUFFICES ASSUME RwInit PROVE RwInv
    OBVIOUS
  <2>1. state \in StateWord /\ state.n = 0 /\ ~state.r
    BY RwLockAssumption DEF RwInit, StateWord, WRITE_LOCKED
  <2>2. RwTypeOK
    BY <2>1, RwLockAssumption DEF RwInit, RwTypeOK, RwPC
  <2>3. FastPathLockable
    BY DEF RwInit, FastPathLockable
  <2>4. readers = {} /\ writers = {}
    BY DEF RwInit, readers, writers
  <2>5. WordCountsHolders
    BY <2>1, <2>4, FS_EmptySet, RwLockAssumption DEF WordCountsHolders
  <2>6. ReadersWaitBehindWriters
    BY <2>1 DEF ReadersWaitBehindWriters
  <2>7. QED BY <2>2, <2>3, <2>5, <2>6 DEF RwInv
<1>2. RwInv /\ [RwNext]_rwVars => RwInv'
  <2> SUFFICES ASSUME RwInv, [RwNext]_rwVars PROVE RwInv'
    OBVIOUS
  <2>1. RwTypeOK'
    BY RwTypeStep
  <2>2. CASE RwNext
    <3>1. FastPathLockable'
      <4> USE DEF RwInv, RwTypeOK, FastPathLockable, At, To, Loaded, locals,
                  is_read_lockable
      <4>1. PICK t \in Threads : \/ RwCall(t) \/ RwUnlock(t) \/ ReadStep(t)
                                \/ WriteStep(t) \/ WakeStep(t) \/ RwKernel(t)
        BY <2>2 DEF RwNext
      <4>2. CASE RwCall(t)
        BY <4>2 DEF RwCall, try_read, read, try_write, write_fast, write
      <4>3. CASE RwUnlock(t)
        BY <4>3 DEF RwUnlock, read_unlock, write_unlock
      <4>4. CASE ReadStep(t)
        BY <4>4 DEF ReadStep, read_fast, read_slow, spin_read,
                    read_contended_lock, read_contended_panic,
                    read_contended_mark, read_contended_wait, read_syscall,
                    read_woken
      <4>5. CASE WriteStep(t)
        BY <4>5 DEF WriteStep, spin_write, write_contended_lock,
                    write_contended_mark, write_contended_seq,
                    write_contended_check, write_contended_wait, write_syscall,
                    write_woken
      <4>6. CASE WakeStep(t)
        BY <4>6 DEF WakeStep, wake_only_writers, wake_both, wake_readers,
                    wake_writer_notify, wake_writer, wake_all_readers
      <4>7. CASE RwKernel(t)
        BY <4>7 DEF RwKernel, wait_interrupted, wait_spurious
      <4>8. QED BY <4>1, <4>2, <4>3, <4>4, <4>5, <4>6, <4>7
    <3>2. WordCountsHolders'
      BY <2>2, HoldersStep, CountStep DEF RwInv
    <3>3. ReadersWaitBehindWriters'
      BY <2>2, BitsStep
    <3>4. QED BY <2>1, <3>1, <3>2, <3>3 DEF RwInv
  <2>3. CASE UNCHANGED rwVars
    BY <2>1, <2>3 DEF rwVars, RwInv, FastPathLockable, WordCountsHolders,
                      ReadersWaitBehindWriters, readers, writers
  <2>4. QED BY <2>2, <2>3
<1>3. QED
  BY <1>1, <1>2, PTL DEF RwSpec

(***************************************************************************)
(* Readers and writers exclude each other and the count never overflows    *)
(* into WRITE_LOCKED, for any number of threads and any reader limit.      *)
(***************************************************************************)
THEOREM RwExcludes == RwSpec => []WordCountsHolders
BY RwInvariant, PTL DEF RwInv

(***************************************************************************)
(* The debug_assert of read_unlock never fails.                            *)
(***************************************************************************)
THEOREM RwDebugAssert == RwSpec => []ReadersWaitBehindWriters
BY RwInvariant, PTL DEF RwInv

(***************************************************************************)
(* The futex words implement the abstract reader-writer lock.              *)
(***************************************************************************)
THEOREM RwRefines == RwSpec => ImplementsRwLock
<1>1. RwInit => RwLock!Init
  BY DEF RwInit, RwLock!Init, readers, writers
<1>2. RwInv /\ [RwNext]_rwVars => [RwLock!Next]_<<readers, writers>>
  <2> SUFFICES ASSUME RwInv, [RwNext]_rwVars
               PROVE  RwLock!Next \/ UNCHANGED <<readers, writers>>
    OBVIOUS
  <2>1. CASE UNCHANGED rwVars
    BY <2>1 DEF rwVars, readers, writers
  <2>2. CASE RwNext
    <3>1. PICK t \in Threads : HoldersChange(t)
      BY <2>2, HoldersStep
    <3>2. /\ MAX_READERS \in Nat /\ WRITE_LOCKED = MAX_READERS + 1
          /\ IsFiniteSet(readers) /\ (Cardinality(readers) = 0 <=> readers = {})
      BY RwLockAssumption, FS_Subset, FS_EmptySet DEF WRITE_LOCKED, readers
    <3>3. CASE GainRead(t)
      BY <3>2, <3>3 DEF GainRead, RwInv, WordCountsHolders, RwLock!Next,
                        RwLock!AcquireRead
    <3>4. CASE GainWrite(t)
      BY <3>2, <3>4 DEF GainWrite, RwInv, WordCountsHolders, RwLock!Next,
                        RwLock!AcquireWrite
    <3>5. CASE DropRead(t)
      BY <3>5 DEF DropRead, RwLock!Next, RwLock!ReleaseRead
    <3>6. CASE DropWrite(t)
      BY <3>6 DEF DropWrite, RwInv, WordCountsHolders, RwLock!Next,
                  RwLock!ReleaseWrite
    <3>7. CASE KeepHolders
      BY <3>7 DEF KeepHolders
    <3>8. QED BY <3>1, <3>3, <3>4, <3>5, <3>6, <3>7 DEF HoldersChange
  <2>3. QED BY <2>1, <2>2
<1>3. QED
  BY <1>1, <1>2, RwInvariant, PTL DEF RwSpec, ImplementsRwLock, RwLock!Spec

-------------------------------------------------------------------------------
(***************************************************************************)
(* A writer inside write_contended that is going to look at the word, or   *)
(* has been woken to do so: while the word is unlocked it does not sleep.  *)
(***************************************************************************)
Alert(t) ==
  \/ pc[t] \in {"wspin", "wloop", "wcheck"}
  \/ pc[t] = "wasleep" /\ t \notin wSleepers

(***************************************************************************)
(* A thread in wake_writer_or_readers whose local word is the current one, *)
(* or is one that makes it look again; or one that wakes a writer and will *)
(* come back for the readers if that fails.                                *)
(***************************************************************************)
InCharge(t) ==
  \/ pc[t] = "wake" /\ (st[t] = state \/ (OnlyWriters(st[t]) /\ state.r /\ state.w))
  \/ pc[t] \in {"notify", "wakewriter"} /\ BothWaiting(st[t]) /\ ~state.w

(* In an unlocked word no waiting bit is on without somebody to act on it. *)
BitsAttended ==
  is_unlocked(state) /\ (state.r \/ state.w) =>
    \E t \in Threads : Alert(t) \/ InCharge(t)

(* A reader goes to sleep only with its bit on, and the bit stays on until *)
(* somebody is about to wake all of them.                                  *)
ReadersMarked ==
  /\ \A t \in Threads : pc[t] \in {"rsyscall", "rasleep"} => st[t].r
  /\ rSleepers # {} => state.r \/ \E t \in Threads : pc[t] = "wakereaders"

(* The inductive invariant behind the readers' sleep. *)
WaitInv == BitsAttended /\ ReadersMarked

(***************************************************************************)
(* A writer that takes the lock, or waits again, with the writers' bit on. *)
(***************************************************************************)
Passing(t) ==
  /\ others[t]
  /\ \/ Alert(t)
     \/ pc[t] \in {"wwait", "wsyscall"} /\ seq[t] # writer_notify

(* A writer that futex_wait would let sleep, or keeps asleep, on seq[t]. *)
Dozing(t) == pc[t] \in {"wwait", "wsyscall"} \/ t \in wSleepers

(* The bit, a passing writer or a notification to come sees to it. *)
Covered(t) ==
  \/ state.w
  \/ \E u \in Threads : Passing(u) \/ pc[u] = "notify"
  \/ seq[t] # writer_notify /\ \E u \in Threads : pc[u] = "wakewriter"

(***************************************************************************)
(* While the counter has not wrapped: nobody has seen a later value than   *)
(* the current one; a writer that may sleep has noted the other writers,   *)
(* and is covered.                                                         *)
(***************************************************************************)
WritersCovered ==
  /\ \A t \in Threads : seq[t] <= writer_notify
  /\ \A t \in Threads :
       pc[t] \in {"wcheck", "wwait", "wsyscall", "wasleep"} => others[t]
  /\ \A t \in Threads : Dozing(t) => Covered(t)

(* A step at which the fetch_add of wake_writer, if it is one, does not wrap. *)
NoWrap ==
  \A t \in Threads : wake_writer_notify(t) => writer_notify' > writer_notify

-------------------------------------------------------------------------------
(* Any step of a thread. *)
RwAct(t) == \/ RwCall(t) \/ RwUnlock(t) \/ ReadStep(t)
            \/ WriteStep(t) \/ WakeStep(t) \/ RwKernel(t)

(* What a step of t leaves alone. *)
RwFrame(t) ==
  \A u \in Threads \ {t} :
    /\ pc'[u] = pc[u] /\ st'[u] = st[u] /\ seq'[u] = seq[u] /\ others'[u] = others[u]
    /\ u \in rSleepers' => u \in rSleepers
    /\ u \in wSleepers' => u \in wSleepers

(* What it can do to the word: take it, *)
TakeWord(t) ==
  /\ state'.n # 0 /\ state'.r = state.r /\ (state.w => state'.w)
  /\ pc[t] = "wloop" /\ others[t] => state'.w

(* leave it, and see to the waiters if that unlocks it, *)
LeaveWord(t) ==
  /\ pc[t] \in {"rheld", "wheld"} /\ state'.r = state.r /\ state'.w = state.w
  /\ state'.n = 0 /\ (state.r \/ state.w) => pc'[t] = "wake" /\ st'[t] = state'

(* turn the readers' bit on, in a locked word or behind a waiting writer, *)
MarkReaders(t) ==
  /\ pc[t] = "rloop" /\ state'.n = state.n /\ state'.w = state.w /\ state'.r /\ ~ state.r
  /\ state.n = 0 => state.w

(* or, in wake_writer_or_readers, take on the writers *)
TakeWriters(t) ==
  /\ pc[t] = "wake" /\ pc'[t] = "notify" /\ state.n = 0 /\ state.w
  /\ state'.n = 0 /\ state'.r = state.r /\ ~ state'.w
  /\ state.r => BothWaiting(st'[t])

(* or the readers. *)
TakeReaders(t) ==
  /\ pc[t] = "wake" /\ pc'[t] = "wakereaders" /\ ~ state.w
  /\ ~ state'.r /\ ~ state'.w

(* The change of the word, if there is one. *)
WordChange(t) ==
  \/ state' = state \/ TakeWord(t) \/ LeaveWord(t)
  \/ MarkReaders(t) \/ TakeWriters(t) \/ TakeReaders(t)

-------------------------------------------------------------------------------
(* A step moves its own thread only, and puts no other to sleep. *)
LEMMA RwFrameStep ==
  ASSUME RwTypeOK, NEW t \in Threads, RwAct(t)
  PROVE  RwFrame(t)
<1> USE DEF RwTypeOK, RwFrame, At, To, Loaded, locals, sleepers
<1>1. CASE RwCall(t)
  BY Zenon, <1>1 DEF RwCall, try_read, read, try_write, write_fast, write
<1>2. CASE RwUnlock(t)
  BY Zenon, <1>2 DEF RwUnlock, read_unlock, write_unlock
<1>3. CASE ReadStep(t)
  BY Zenon, <1>3 DEF ReadStep, read_fast, read_slow, spin_read, read_contended_lock,
       read_contended_panic, read_contended_mark, read_contended_wait, read_syscall,
       read_woken
<1>4. CASE WriteStep(t)
  BY Zenon, <1>4 DEF WriteStep, spin_write, write_contended_lock, write_contended_mark,
       write_contended_seq, write_contended_check, write_contended_wait, write_syscall,
       write_woken
<1>5. CASE WakeStep(t)
  BY Zenon, <1>5 DEF WakeStep, wake_only_writers, wake_both, wake_readers,
       wake_writer_notify, wake_writer, wake_all_readers, futex_wake, futex_wake_all
<1>6. CASE RwKernel(t)
  BY Zenon, <1>6 DEF RwKernel, wait_interrupted, wait_spurious
<1> HIDE DEF RwTypeOK, RwFrame
<1> QED
  BY Zenon, <1>1, <1>2, <1>3, <1>4, <1>5, <1>6 DEF RwAct

(* The word a writer leaves when it takes the lock in write_contended. *)
LEMMA WriteLockedFields ==
  ASSUME NEW s \in StateWord, NEW b \in BOOLEAN
  PROVE  /\ WithWriters(WithCount(s, WRITE_LOCKED), b).n = WRITE_LOCKED
         /\ WithWriters(WithCount(s, WRITE_LOCKED), b).r = s.r
         /\ WithWriters(WithCount(s, WRITE_LOCKED), b).w = b
         /\ WRITE_LOCKED # 0
<1>1. WRITE_LOCKED \in 0..WRITE_LOCKED /\ WRITE_LOCKED # 0
  BY RwLockAssumption DEF WRITE_LOCKED
<1>2. /\ WithCount(s, WRITE_LOCKED) \in StateWord
      /\ WithCount(s, WRITE_LOCKED).n = WRITE_LOCKED
      /\ WithCount(s, WRITE_LOCKED).r = s.r
  BY Zenon, <1>1, WithCountFields
<1> QED
  BY <1>1, <1>2, WithWritersFields

(* What every step does to the word. *)
LEMMA WordStep ==
  ASSUME RwInv, NEW t \in Threads, RwAct(t)
  PROVE  WordChange(t)
<1> USE DEF At, To, Loaded
<1>0. /\ WRITE_LOCKED \in 0..WRITE_LOCKED /\ WRITE_LOCKED # 0
      /\ state \in StateWord /\ state.n \in 0..WRITE_LOCKED
      /\ state.n < MAX_READERS => state.n + 1 \in 0..WRITE_LOCKED /\ state.n + 1 # 0
      /\ MAX_READERS \in Nat \ {0}
  BY StateWordFields, RwLockAssumption DEF WRITE_LOCKED, RwTypeOK, RwInv
<1>1. ASSUME is_read_lockable(state), state' = ReadLocked, pc[t] # "wloop"
      PROVE  TakeWord(t)
  <2>1. state.n + 1 \in 0..WRITE_LOCKED /\ state.n + 1 # 0
    BY <1>0, <1>1 DEF is_read_lockable
  <2>2. state'.n = state.n + 1 /\ state'.r = state.r /\ state'.w = state.w
    BY Zenon, <1>0, <1>1, <2>1, WithCountFields DEF ReadLocked
  <2> QED
    BY Zenon, <1>1, <2>1, <2>2 DEF TakeWord
<1>2. ASSUME state' = WithCount(state, WRITE_LOCKED), pc[t] # "wloop" PROVE TakeWord(t)
  BY Zenon, <1>0, <1>2, WithCountFields DEF TakeWord
<1>3. CASE RwCall(t)
  BY Zenon, <1>1, <1>2, <1>3
  DEF RwCall, try_read, read, try_write, write_fast, write, WordChange
<1>4. CASE read_unlock(t)
  <2>1. state.n # 0 /\ state.n <= MAX_READERS
    BY <1>4, HeldWord DEF read_unlock, readers, WordCountsHolders, RwInv
  <2>2. state.n - 1 \in 0..WRITE_LOCKED /\ state.n \in 1..MAX_READERS
    BY <1>0, <2>1, StateWordFields
  <2>3. state.r => state.w
    BY Zenon, <2>2 DEF RwInv, ReadersWaitBehindWriters, has_readers_waiting, has_writers_waiting
  <2>4. state'.r = state.r /\ state'.w = state.w
    BY Zenon, <1>0, <1>4, <2>2, WithCountFields DEF read_unlock
  <2>5. pc \in [Threads -> RwPC] /\ st \in [Threads -> StateWord]
    BY Zenon DEF RwInv, RwTypeOK
  <2> QED
    BY Zenon, <1>4, <2>3, <2>4, <2>5
    DEF read_unlock, WordChange, LeaveWord, is_unlocked, has_writers_waiting
<1>5. CASE write_unlock(t)
  <2>1. state.n = WRITE_LOCKED
    BY Zenon, <1>5, HeldWord DEF write_unlock, writers, RwInv
  <2>2. state.n - WRITE_LOCKED \in 0..WRITE_LOCKED
    BY <1>0, <2>1, StateWordFields
  <2>4. state'.r = state.r /\ state'.w = state.w
    BY Zenon, <1>0, <1>5, <2>2, WithCountFields DEF write_unlock
  <2>5. pc \in [Threads -> RwPC] /\ st \in [Threads -> StateWord]
    BY Zenon DEF RwInv, RwTypeOK
  <2> QED
    BY Zenon, <1>5, <2>4, <2>5
    DEF write_unlock, WordChange, LeaveWord, has_readers_waiting, has_writers_waiting
<1>6. CASE read_contended_mark(t)
  <2>1. CASE state = st[t]
    <3>1. ~ state.r /\ (state.n = 0 => state.w)
      BY <1>0, <1>6, <2>1 DEF read_contended_mark, MustWait, is_read_lockable,
           has_readers_waiting, has_writers_waiting
    <3>2. state'.n = state.n /\ state'.w = state.w /\ state'.r
      BY Zenon, <1>0, <1>6, <2>1, WithReadersFields DEF read_contended_mark
    <3> QED
      BY Zenon, <1>6, <3>1, <3>2 DEF read_contended_mark, WordChange, MarkReaders
  <2>2. CASE state # st[t]
    BY Zenon, <1>6, <2>2 DEF read_contended_mark, WordChange
  <2> QED
    BY Zenon, <2>1, <2>2
<1>7. CASE ReadStep(t)
  BY Zenon, <1>1, <1>6, <1>7 DEF ReadStep, read_fast, read_slow, spin_read,
       read_contended_lock, read_contended_panic, read_contended_wait, read_syscall,
       read_woken, WordChange, RwInv, FastPathLockable
<1>8. CASE write_contended_lock(t)
  <2>1. CASE state = st[t]
    <3>1. (state.w \/ others[t]) \in BOOLEAN
      OBVIOUS
    <3>2. /\ state'.n = WRITE_LOCKED /\ state'.r = state.r
          /\ state'.w = (state.w \/ others[t])
      BY <1>0, <1>8, <2>1, <3>1, WriteLockedFields DEF write_contended_lock
    <3> QED
      BY Zenon, <1>0, <3>2 DEF WordChange, TakeWord
  <2>2. CASE state # st[t]
    BY Zenon, <1>8, <2>2 DEF write_contended_lock, WordChange
  <2> QED
    BY Zenon, <2>1, <2>2
<1>9. CASE write_contended_mark(t)
  <2>1. CASE state = st[t]
    <3>1. state.n # 0
      BY Zenon, <1>9, <2>1 DEF write_contended_mark, is_unlocked
    <3>2. state'.n = state.n /\ state'.r = state.r /\ state'.w
      BY Zenon, <1>0, <1>9, <2>1, WithWritersFields DEF write_contended_mark
    <3> QED
      BY Zenon, <3>1, <3>2 DEF WordChange, TakeWord
  <2>2. CASE state # st[t]
    BY Zenon, <1>9, <2>2 DEF write_contended_mark, WordChange
  <2> QED
    BY Zenon, <2>1, <2>2
<1>10. CASE WriteStep(t)
  BY Zenon, <1>8, <1>9, <1>10 DEF WriteStep, spin_write, write_contended_seq,
       write_contended_check, write_contended_wait, write_syscall, write_woken, WordChange
<1>11. CASE wake_only_writers(t) \/ wake_both(t) \/ wake_readers(t)
  <2>1. CASE state = st[t]
    <3>1. /\ WithWriters(state, FALSE).n = state.n /\ WithWriters(state, FALSE).r = state.r
          /\ ~ WithWriters(state, FALSE).w
          /\ ~ WithReaders(state, FALSE).r /\ WithReaders(state, FALSE).w = state.w
      BY <1>0, WithWritersFields, WithReadersFields
    <3>2. pc \in [Threads -> RwPC] /\ st \in [Threads -> StateWord]
      BY Zenon DEF RwInv, RwTypeOK
    <3>3. CASE wake_only_writers(t)
      BY Zenon, <2>1, <3>1, <3>2, <3>3
      DEF wake_only_writers, OnlyWriters, is_unlocked, WordChange, TakeWriters
    <3>4. CASE wake_both(t)
      BY Zenon, <2>1, <3>1, <3>2, <3>4
      DEF wake_both, BothWaiting, is_unlocked, WordChange, TakeWriters, locals
    <3>5. CASE wake_readers(t)
      BY Zenon, <2>1, <3>1, <3>2, <3>5
      DEF wake_readers, OnlyReaders, is_unlocked, WordChange, TakeReaders
    <3> QED
      BY Zenon, <1>11, <3>3, <3>4, <3>5
  <2>2. CASE state # st[t]
    BY Zenon, <1>11, <2>2 DEF wake_only_writers, wake_both, wake_readers, WordChange
  <2> QED
    BY Zenon, <2>1, <2>2
<1>12. CASE WakeStep(t)
  BY Zenon, <1>11, <1>12 DEF WakeStep, wake_writer_notify, wake_writer, wake_all_readers,
       WordChange
<1>13. CASE RwKernel(t)
  BY Zenon, <1>13 DEF RwKernel, wait_interrupted, wait_spurious, WordChange
<1> QED
  BY Zenon, <1>3, <1>4, <1>5, <1>7, <1>10, <1>12, <1>13 DEF RwAct, RwUnlock

(* A writer that looks at the word goes on doing so while it is unlocked. *)
LEMMA AlertStep ==
  ASSUME RwTypeOK, NEW t \in Threads, RwAct(t), Alert(t), state' = state, state.n = 0
  PROVE  Alert(t)'
<1> USE DEF RwTypeOK, At, To, Loaded, locals, sleepers, Alert
<1>1. t \notin rSleepers \union wSleepers
  BY Zenon
<1>2. CASE WriteStep(t)
  <2>1. CASE write_contended_lock(t) \/ write_contended_mark(t)
    <3>1. CASE state # st[t]
      BY Zenon, <2>1, <3>1 DEF write_contended_lock, write_contended_mark
    <3>2. CASE state = st[t]
      <4>1. WithWriters(WithCount(state, WRITE_LOCKED), state.w \/ others[t]).n # 0
        <5>1. (state.w \/ others[t]) \in BOOLEAN
          OBVIOUS
        <5> QED
          BY Zenon, <5>1, WriteLockedFields
      <4> QED
        BY Zenon, <2>1, <3>2, <4>1 DEF write_contended_lock, write_contended_mark, is_unlocked
    <3> QED
      BY Zenon, <3>1, <3>2
  <2> QED
    BY Zenon, <1>2, <2>1 DEF WriteStep, spin_write, write_contended_seq,
         write_contended_check, write_contended_wait, write_syscall, write_woken, is_unlocked
<1>3. CASE RwKernel(t)
  BY Zenon, <1>1, <1>3 DEF RwKernel, wait_interrupted, wait_spurious
<1> QED
  BY Zenon, <1>2, <1>3 DEF RwAct, RwCall, try_read, read, try_write, write_fast, write,
       RwUnlock, read_unlock, write_unlock, ReadStep, read_fast, read_slow, spin_read,
       read_contended_lock, read_contended_panic, read_contended_mark, read_contended_wait,
       read_syscall, read_woken, WakeStep, wake_only_writers, wake_both, wake_readers,
       wake_writer_notify, wake_writer, wake_all_readers

(* A thread that is in charge stays so, or has woken a writer. *)
LEMMA InChargeStep ==
  ASSUME RwTypeOK, NEW t \in Threads, RwAct(t), InCharge(t), state' = state,
         state.n = 0, state.r \/ state.w
  PROVE  InCharge(t)' \/ \E u \in Threads : Alert(u)'
<1> USE DEF At, To, Loaded
<1>0. /\ state \in StateWord /\ pc \in [Threads -> RwPC] /\ st \in [Threads -> StateWord]
      /\ rSleepers \subseteq {u \in Threads : pc[u] = "rasleep"}
      /\ wSleepers \subseteq {u \in Threads : pc[u] = "wasleep"}
  BY Zenon DEF RwTypeOK
<1>1. WakeStep(t) /\ pc[t] \in {"wake", "notify", "wakewriter"}
  <2>1. pc[t] \in {"wake", "notify", "wakewriter"}
    BY Zenon DEF InCharge
  <2>2. t \notin rSleepers \union wSleepers
    BY Zenon, <1>0, <2>1
  <2> QED
    BY Zenon, <2>1, <2>2 DEF RwAct, RwCall, try_read, read, try_write, write_fast, write,
         RwUnlock, read_unlock, write_unlock, ReadStep, read_fast, read_slow, spin_read,
         read_contended_lock, read_contended_panic, read_contended_mark,
         read_contended_wait, read_syscall, read_woken, WriteStep, spin_write,
         write_contended_lock, write_contended_mark, write_contended_seq,
         write_contended_check, write_contended_wait, write_syscall, write_woken, RwKernel,
         wait_interrupted, wait_spurious
<1>2. CASE pc[t] = "wake"
  <2>1. CASE st[t] = state
    <3>1. /\ ~ WithWriters(state, FALSE).w /\ ~ WithReaders(state, FALSE).r
      BY <1>0, WithWritersFields, WithReadersFields
    <3> QED
      BY Zenon, <1>1, <1>2, <2>1, <3>1 DEF WakeStep, wake_only_writers, wake_both,
           wake_readers, wake_writer_notify, wake_writer, wake_all_readers, OnlyWriters,
           OnlyReaders, BothWaiting
  <2>2. CASE st[t] # state
    <3>1. OnlyWriters(st[t]) /\ BothWaiting(state)
      BY Zenon, <1>2, <2>2 DEF InCharge, BothWaiting, is_unlocked
    <3>2. pc'[t] = "wake" /\ st'[t] = state
      BY Zenon, <1>0, <1>1, <1>2, <2>2, <3>1 DEF WakeStep, wake_only_writers, wake_both,
           wake_readers, wake_writer_notify, wake_writer, wake_all_readers, OnlyWriters,
           OnlyReaders, BothWaiting
    <3> QED
      BY Zenon, <3>2 DEF InCharge
  <2> QED
    BY Zenon, <2>1, <2>2
<1>3. CASE pc[t] = "notify"
  <2>1. pc'[t] = "wakewriter" /\ st'[t] = st[t]
    BY Zenon, <1>0, <1>1, <1>3 DEF WakeStep, wake_only_writers, wake_both,
         wake_readers, wake_writer_notify, wake_writer, wake_all_readers, locals
  <2> QED
    BY Zenon, <1>3, <2>1 DEF InCharge
<1>4. CASE pc[t] = "wakewriter"
  <2>1. wake_writer(t) /\ BothWaiting(st[t]) /\ ~ state.w
    BY Zenon, <1>1, <1>4 DEF WakeStep, wake_only_writers, wake_both,
         wake_readers, wake_writer_notify, wake_all_readers, InCharge
  <2>2. CASE pc' = [pc EXCEPT ![t] = "idle"] /\ WokeSomeone(wSleepers)
    <3>1. PICK u \in wSleepers : wSleepers' = wSleepers \ {u}
      BY Zenon, <2>1, <2>2 DEF wake_writer, futex_wake, WokeSomeone
    <3>2. u \in Threads /\ u # t /\ pc'[u] = "wasleep" /\ u \notin wSleepers'
      BY Zenon, <1>0, <1>4, <2>2, <3>1
    <3> QED
      BY Zenon, <3>2 DEF Alert
  <2>3. CASE /\ pc' = [pc EXCEPT ![t] = "wake"]
             /\ st' = [st EXCEPT ![t] = [n |-> 0, r |-> TRUE, w |-> FALSE]]
    <3>1. state = [n |-> 0, r |-> TRUE, w |-> FALSE]
      BY <1>0, <2>1 DEF StateWord
    <3> QED
      BY Zenon, <1>0, <2>3, <3>1 DEF InCharge
  <2>4. ~ OnlyWriters(st[t])
    BY Zenon, <2>1 DEF OnlyWriters, BothWaiting
  <2> QED
    BY Zenon, <2>1, <2>2, <2>3, <2>4 DEF wake_writer
<1> QED
  BY Zenon, <1>1, <1>2, <1>3, <1>4

(* The waiting bits of an unlocked word stay attended. *)
LEMMA AttendedStep ==
  ASSUME RwInv, BitsAttended, NEW t \in Threads, RwAct(t)
  PROVE  BitsAttended'
<1> SUFFICES ASSUME state'.n = 0, state'.r \/ state'.w
             PROVE  \E u \in Threads : Alert(u)' \/ InCharge(u)'
  BY Zenon DEF BitsAttended, is_unlocked
<1>0. RwTypeOK
  BY Zenon DEF RwInv
<1>1. RwFrame(t)
  BY Zenon, <1>0, RwFrameStep
<1>2. \A u \in Threads : u # t /\ Alert(u) => Alert(u)'
  BY Zenon, <1>1 DEF RwFrame, Alert
<1>3. CASE state' = state
  <2>1. PICK u \in Threads : Alert(u) \/ InCharge(u)
    BY Zenon, <1>3 DEF BitsAttended, is_unlocked
  <2>2. CASE u # t
    <3>1. InCharge(u) => InCharge(u)'
      BY Zenon, <1>1, <1>3, <2>2 DEF RwFrame, InCharge, OnlyWriters, BothWaiting
    <3> QED
      BY Zenon, <1>2, <2>1, <2>2, <3>1
  <2>3. CASE u = t /\ Alert(t)
    BY Zenon, <1>0, <1>3, <2>3, AlertStep
  <2>4. CASE u = t /\ InCharge(t)
    BY Zenon, <1>0, <1>3, <2>4, InChargeStep
  <2> QED
    BY Zenon, <2>1, <2>2, <2>3, <2>4
<1>4. CASE LeaveWord(t)
  BY Zenon, <1>4 DEF LeaveWord, InCharge
<1>5. CASE MarkReaders(t)
  <2>1. state.n = 0 /\ state.w /\ ~ state.r /\ state'.r /\ state'.w /\ pc[t] = "rloop"
    BY Zenon, <1>5 DEF MarkReaders
  <2>2. PICK u \in Threads : Alert(u) \/ InCharge(u)
    BY Zenon, <2>1 DEF BitsAttended, is_unlocked
  <2>3. u # t
    BY Zenon, <2>1, <2>2 DEF Alert, InCharge
  <2>4. ASSUME InCharge(u) PROVE InCharge(u)'
    <3>1. pc[u] = "wake" /\ st[u] = state /\ OnlyWriters(st[u])
      BY Zenon, <2>1, <2>4 DEF InCharge, OnlyWriters, is_unlocked
    <3>2. pc'[u] = "wake" /\ OnlyWriters(st'[u])
      BY Zenon, <1>1, <2>3, <3>1 DEF RwFrame
    <3> QED
      BY Zenon, <2>1, <3>2 DEF InCharge, OnlyWriters
  <2> QED
    BY Zenon, <1>2, <2>2, <2>3, <2>4
<1>6. CASE TakeWriters(t)
  BY Zenon, <1>6 DEF TakeWriters, InCharge, BothWaiting
<1> QED
  BY Zenon, <1>3, <1>4, <1>5, <1>6, WordStep DEF WordChange, TakeWord, TakeReaders

(* How a reader falls asleep, and how all are woken. *)
LEMMA ReadersFlow ==
  ASSUME RwTypeOK, ReadersMarked, NEW t \in Threads, RwAct(t)
  PROVE  /\ pc'[t] \in {"rsyscall", "rasleep"} => st'[t].r
         /\ t \in rSleepers' => t \in rSleepers \/ state'.r
         /\ pc[t] = "wakereaders" => rSleepers' = {}
<1> USE DEF RwTypeOK, At, To, Loaded, locals, sleepers
<1>0. pc[t] \in {"rsyscall", "rasleep"} => st[t].r
  BY Zenon DEF ReadersMarked
<1>1. CASE RwCall(t)
  BY Zenon, <1>1 DEF RwCall, try_read, read, try_write, write_fast, write
<1>2. CASE RwUnlock(t)
  BY Zenon, <1>2 DEF RwUnlock, read_unlock, write_unlock
<1>3. CASE ReadStep(t)
  BY Zenon, <1>0, <1>3 DEF ReadStep, read_fast, read_slow, spin_read, read_contended_lock,
       read_contended_panic, read_contended_mark, read_contended_wait, read_syscall,
       read_woken, has_readers_waiting
<1>4. CASE WriteStep(t)
  BY Zenon, <1>4 DEF WriteStep, spin_write, write_contended_lock, write_contended_mark,
       write_contended_seq, write_contended_check, write_contended_wait, write_syscall,
       write_woken
<1>5. CASE WakeStep(t)
  BY Zenon, <1>5 DEF WakeStep, wake_only_writers, wake_both, wake_readers,
       wake_writer_notify, wake_writer, wake_all_readers, futex_wake_all
<1>6. CASE RwKernel(t)
  BY Zenon, <1>0, <1>6 DEF RwKernel, wait_interrupted, wait_spurious
<1> HIDE DEF RwTypeOK
<1> QED
  BY Zenon, <1>1, <1>2, <1>3, <1>4, <1>5, <1>6 DEF RwAct

(* A reader falls asleep behind its bit; the bit goes before they are woken. *)
LEMMA MarkedStep ==
  ASSUME RwInv, RwTypeOK', ReadersMarked, NEW t \in Threads, RwAct(t)
  PROVE  ReadersMarked'
<1>1. RwTypeOK
  BY Zenon DEF RwInv
<1>2. RwFrame(t)
  BY Zenon, <1>1, RwFrameStep
<1>3. /\ pc'[t] \in {"rsyscall", "rasleep"} => st'[t].r
      /\ t \in rSleepers' => t \in rSleepers \/ state'.r
      /\ pc[t] = "wakereaders" => rSleepers' = {}
  BY Zenon, <1>1, ReadersFlow
<1>4. state.r => state'.r \/ pc'[t] = "wakereaders"
  BY Zenon, WordStep DEF WordChange, TakeWord, LeaveWord, MarkReaders, TakeWriters,
       TakeReaders
<1>5. ASSUME rSleepers' # {} PROVE state'.r \/ \E u \in Threads : pc'[u] = "wakereaders"
  <2>1. CASE rSleepers = {}
    <3>1. PICK u \in rSleepers' : u \in Threads
      BY Zenon, <1>5 DEF RwTypeOK
    <3> QED
      BY Zenon, <1>2, <1>3, <2>1, <3>1 DEF RwFrame
  <2>2. ASSUME NEW u \in Threads, pc[u] = "wakereaders" PROVE pc'[u] = "wakereaders"
    BY Zenon, <1>2, <1>3, <1>5, <2>2 DEF RwFrame
  <2> QED
    BY Zenon, <1>4, <2>1, <2>2 DEF ReadersMarked
<1> QED
  BY Zenon, <1>2, <1>3, <1>5 DEF ReadersMarked, RwFrame

-------------------------------------------------------------------------------
(* How a writer waits: what it has noted, and how it goes to sleep. *)
WriterFlow(t) ==
  /\ pc'[t] \in {"wcheck", "wwait", "wsyscall", "wasleep"} => others'[t]
  /\ seq'[t] \in {seq[t], writer_notify}
  /\ Dozing(t)' => state'.w \/ (Dozing(t) /\ seq'[t] = seq[t])
  /\ writer_notify' = writer_notify \/ pc[t] = "notify"
  /\ pc[t] = "notify" => pc'[t] = "wakewriter" /\ wake_writer_notify(t)
  /\ pc[t] = "wakewriter" /\ wSleepers # {} => \E u \in wSleepers : u \notin wSleepers'

(* Every step of a thread is one of them. *)
LEMMA WriterFlowStep ==
  ASSUME RwTypeOK, WritersCovered, NEW t \in Threads, RwAct(t)
  PROVE  WriterFlow(t)
<1> USE DEF RwTypeOK, At, To, Loaded, locals, sleepers, Dozing, WriterFlow
<1>0. pc[t] \in {"wcheck", "wwait", "wsyscall", "wasleep"} => others[t]
  BY Zenon DEF WritersCovered
<1>1. CASE RwCall(t)
  BY Zenon, <1>1 DEF RwCall, try_read, read, try_write, write_fast, write
<1>2. CASE RwUnlock(t)
  BY Zenon, <1>2 DEF RwUnlock, read_unlock, write_unlock
<1>3. CASE ReadStep(t)
  BY Zenon, <1>3 DEF ReadStep, read_fast, read_slow, spin_read, read_contended_lock,
       read_contended_panic, read_contended_mark, read_contended_wait, read_syscall,
       read_woken
<1>4. CASE WriteStep(t)
  BY Zenon, <1>0, <1>4 DEF WriteStep, spin_write, write_contended_lock,
       write_contended_mark, write_contended_seq, write_contended_check,
       write_contended_wait, write_syscall, write_woken, has_writers_waiting
<1>5. CASE WakeStep(t)
  BY Zenon, <1>5 DEF WakeStep, wake_only_writers, wake_both, wake_readers,
       wake_writer_notify, wake_writer, wake_all_readers, futex_wake
<1>6. CASE RwKernel(t)
  BY Zenon, <1>0, <1>6 DEF RwKernel, wait_interrupted, wait_spurious
<1> HIDE DEF RwTypeOK, WriterFlow, Dozing
<1> QED
  BY Zenon, <1>1, <1>2, <1>3, <1>4, <1>5, <1>6 DEF RwAct

(* A passing writer goes on, or leaves the writers' bit on. *)
LEMMA PassingStep ==
  ASSUME RwTypeOK, NEW t \in Threads, RwAct(t), Passing(t)
  PROVE  Passing(t)' \/ state'.w
<1> USE DEF RwTypeOK, At, To, Loaded, locals, sleepers, Alert, Passing
<1>1. t \notin rSleepers \union wSleepers
  BY Zenon
<1>2. CASE WriteStep(t)
  <2>1. CASE write_contended_lock(t)
    <3>1. CASE state = st[t]
      <4>1. (state.w \/ others[t]) = TRUE
        OBVIOUS
      <4> QED
        BY Zenon, <2>1, <3>1, <4>1, WriteLockedFields DEF write_contended_lock
    <3>2. CASE state # st[t]
      BY Zenon, <2>1, <3>2 DEF write_contended_lock
    <3> QED
      BY Zenon, <3>1, <3>2
  <2>2. CASE write_contended_mark(t)
    <3>1. WithWriters(state, TRUE).w
      BY Zenon, WithWritersFields
    <3> QED
      BY Zenon, <2>2, <3>1 DEF write_contended_mark
  <2> QED
    BY Zenon, <1>2, <2>1, <2>2 DEF WriteStep, spin_write, write_contended_seq,
         write_contended_check, write_contended_wait, write_syscall, write_woken,
         has_writers_waiting
<1>3. CASE RwKernel(t)
  BY Zenon, <1>1, <1>3 DEF RwKernel, wait_interrupted, wait_spurious
<1> QED
  BY Zenon, <1>2, <1>3 DEF RwAct, RwCall, try_read, read, try_write, write_fast, write,
       RwUnlock, read_unlock, write_unlock, ReadStep, read_fast, read_slow, spin_read,
       read_contended_lock, read_contended_panic, read_contended_mark, read_contended_wait,
       read_syscall, read_woken, WakeStep, wake_only_writers, wake_both, wake_readers,
       wake_writer_notify, wake_writer, wake_all_readers

(* No writer that waits is left uncovered, as long as the counter goes up. *)
LEMMA CoveredStep ==
  ASSUME RwInv, RwTypeOK', WritersCovered, NoWrap, NEW t \in Threads, RwAct(t)
  PROVE  WritersCovered'
<1>1. RwTypeOK
  BY Zenon DEF RwInv
<1>2. RwFrame(t) /\ WordChange(t) /\ WriterFlow(t)
  BY Zenon, <1>1, RwFrameStep, WordStep, WriterFlowStep
<1>3. /\ writer_notify \in Nat /\ writer_notify' \in Nat
      /\ \A u \in Threads : seq[u] \in Nat /\ seq'[u] \in Nat /\ seq[u] <= writer_notify
  BY <1>1, RwLockAssumption DEF RwTypeOK, WritersCovered
<1>4. \A u \in Threads : seq'[u] \in {seq[u], writer_notify}
  BY Zenon, <1>2 DEF RwFrame, WriterFlow
<1>5. /\ pc[t] = "notify" => pc'[t] = "wakewriter" /\ writer_notify' > writer_notify
      /\ pc[t] # "notify" => writer_notify' = writer_notify
  BY Zenon, <1>2 DEF WriterFlow, NoWrap
<1>6. \A u \in Threads : seq'[u] <= writer_notify'
  BY <1>3, <1>4, <1>5
<1>7. pc[t] = "notify" => \A u \in Threads : seq'[u] # writer_notify'
  BY <1>3, <1>4, <1>5
<1>8. \A u \in Threads :
        pc'[u] \in {"wcheck", "wwait", "wsyscall", "wasleep"} => others'[u]
  BY Zenon, <1>2 DEF RwFrame, WriterFlow, WritersCovered
<1>9. \A u \in Threads : Passing(u) => Passing(u)' \/ state'.w
  <2>1. ASSUME NEW u \in Threads, u # t, Passing(u) PROVE Passing(u)'
    <3>1. /\ pc'[u] = pc[u] /\ seq'[u] = seq[u] /\ others'[u] = others[u]
          /\ u \in wSleepers' => u \in wSleepers
      BY Zenon, <1>2, <2>1 DEF RwFrame
    <3>2. seq[u] # writer_notify => seq'[u] # writer_notify'
      BY Zenon, <1>5, <1>7, <3>1
    <3> QED
      BY Zenon, <2>1, <3>1, <3>2 DEF Passing, Alert
  <2> QED
    BY Zenon, <1>1, <2>1, PassingStep
<1>10. ASSUME NEW x \in Threads, Dozing(x)' PROVE Covered(x)'
  <2>1. CASE state'.w
    BY Zenon, <2>1 DEF Covered
  <2>2. CASE ~ state'.w
    <3>1. Dozing(x) /\ seq'[x] = seq[x]
      BY Zenon, <1>2, <1>10, <2>2 DEF RwFrame, WriterFlow, Dozing
    <3>2. CASE state.w
      <4>1. pc'[t] = "notify"
        BY Zenon, <1>2, <2>2, <3>2 DEF WordChange, TakeWord, LeaveWord, MarkReaders,
             TakeWriters, TakeReaders
      <4> QED
        BY Zenon, <4>1 DEF Covered
    <3>3. ASSUME NEW u \in Threads, Passing(u) PROVE Covered(x)'
      BY Zenon, <1>9, <3>3 DEF Covered
    <3>4. ASSUME NEW u \in Threads, pc[u] = "notify" PROVE Covered(x)'
      BY Zenon, <1>2, <1>5, <1>7, <3>4 DEF Covered, RwFrame
    <3>5. ASSUME seq[x] # writer_notify, NEW u \in Threads, pc[u] = "wakewriter"
          PROVE  Covered(x)'
      <4>1. seq'[x] # writer_notify'
        BY Zenon, <1>5, <1>7, <3>1, <3>5
      <4>2. CASE u # t
        BY Zenon, <1>2, <3>5, <4>1, <4>2 DEF Covered, RwFrame
      <4>3. CASE u = t /\ x \notin wSleepers'
        <5>1. pc'[x] \in {"wwait", "wsyscall"}
          BY Zenon, <1>10, <4>3 DEF Dozing
        <5> QED
          BY Zenon, <1>8, <4>1, <5>1 DEF Covered, Passing
      <4>4. CASE u = t /\ x \in wSleepers'
        <5>0. x # t
          BY Zenon, <1>1, <3>1, <3>5, <4>4 DEF Dozing, RwTypeOK
        <5>1. x \in wSleepers
          BY Zenon, <1>2, <4>4, <5>0 DEF RwFrame
        <5>2. PICK v \in wSleepers : v \notin wSleepers'
          BY Zenon, <1>2, <3>5, <4>4, <5>1 DEF WriterFlow
        <5>3. v \in Threads /\ v # t /\ pc[v] = "wasleep"
          BY Zenon, <1>1, <3>5, <4>4 DEF RwTypeOK
        <5>4. pc'[v] = "wasleep"
          BY Zenon, <1>2, <5>3 DEF RwFrame
        <5> QED
          BY Zenon, <1>8, <5>2, <5>3, <5>4 DEF Covered, Passing, Alert
      <4> QED
        BY Zenon, <4>2, <4>3, <4>4
    <3> QED
      BY Zenon, <3>1, <3>2, <3>3, <3>4, <3>5 DEF WritersCovered, Covered
  <2> QED
    BY Zenon, <2>1, <2>2
<1> QED
  BY Zenon, <1>6, <1>8, <1>10 DEF WritersCovered

-------------------------------------------------------------------------------
(***************************************************************************)
(* In an unlocked word a waiting bit is always somebody's business, and    *)
(* a reader sleeps only behind its bit.                                    *)
(***************************************************************************)
THEOREM RwWaitInvariant == RwSpec => []WaitInv
<1>1. RwInit => WaitInv
  <2> SUFFICES ASSUME RwInit PROVE BitsAttended /\ ReadersMarked
    BY Zenon DEF WaitInv
  <2>1. ~ state.r /\ ~ state.w
    BY DEF RwInit
  <2> QED
    BY Zenon, <2>1 DEF RwInit, BitsAttended, ReadersMarked
<1>2. WaitInv /\ RwInv /\ RwInv' /\ [RwNext]_rwVars => WaitInv'
  <2> SUFFICES ASSUME WaitInv, RwInv, RwInv', [RwNext]_rwVars
               PROVE  BitsAttended' /\ ReadersMarked'
    BY Zenon DEF WaitInv
  <2>1. RwInv /\ RwTypeOK' /\ BitsAttended /\ ReadersMarked
    BY Zenon DEF WaitInv, RwInv
  <2>2. ASSUME NEW t \in Threads, RwAct(t) PROVE BitsAttended' /\ ReadersMarked'
    BY Zenon, <2>1, <2>2, AttendedStep, MarkedStep
  <2>3. CASE UNCHANGED rwVars
    BY Zenon, <2>1, <2>3 DEF rwVars, BitsAttended, ReadersMarked, Alert, InCharge
  <2> QED
    BY Zenon, <2>2, <2>3 DEF RwNext, RwAct
<1> QED
  BY <1>1, <1>2, RwInvariant, PTL DEF RwSpec

(***************************************************************************)
(* No sleeping reader is forgotten, however the word changes between the   *)
(* load and the exchange of a waker, and even when writer_notify wraps:    *)
(* the bits of state decide who is woken.                                  *)
(***************************************************************************)
THEOREM RwLosesNoReader == RwSpec => []NoLostReader
<1>1. RwInv /\ WaitInv => NoLostReader
  <2> SUFFICES ASSUME RwInv, WaitInv, rSleepers # {}
               PROVE  \/ \E t \in Threads : pc[t] = "wakereaders"
                      \/ /\ has_readers_waiting(state)
                         /\ is_unlocked(state) => Wakers \union AwakeWriters # {}
    BY Zenon DEF NoLostReader
  <2>1. \A t \in Threads : Alert(t) \/ InCharge(t) => t \in Wakers \union AwakeWriters
    BY Zenon DEF Alert, InCharge, Wakers, AwakeWriters, RwInv, RwTypeOK
  <2> QED
    BY Zenon, <2>1 DEF WaitInv, BitsAttended, ReadersMarked, has_readers_waiting
<1> QED
  BY <1>1, RwInvariant, RwWaitInvariant, PTL

(***************************************************************************)
(* No sleeping writer is forgotten as long as writer_notify does not wrap. *)
(* (A writer that stops between loading the counter and futex_wait while   *)
(* Word notifications go by does sleep on a notification it has missed.)   *)
(***************************************************************************)
THEOREM RwLosesNoWriter == RwSpec /\ [][NoWrap]_rwVars => []NoLostWriter
<1>1. RwInit => WritersCovered
  BY RwLockAssumption DEF RwInit, WritersCovered, Dozing
<1>2. WritersCovered /\ RwInv /\ RwInv' /\ [RwNext]_rwVars /\ [NoWrap]_rwVars
        => WritersCovered'
  <2> SUFFICES ASSUME WritersCovered, RwInv, RwInv', [RwNext]_rwVars, [NoWrap]_rwVars
               PROVE  WritersCovered'
    OBVIOUS
  <2>1. CASE UNCHANGED rwVars
    BY Zenon, <2>1 DEF rwVars, WritersCovered, Dozing, Covered, Passing, Alert
  <2>2. CASE RwNext /\ NoWrap
    BY Zenon, <2>2, CoveredStep DEF RwNext, RwAct, RwInv
  <2> QED
    BY Zenon, <2>1, <2>2
<1>3. RwInv /\ WaitInv /\ WritersCovered => NoLostWriter
  <2> SUFFICES ASSUME RwInv, WaitInv, WritersCovered, NEW x \in wSleepers
               PROVE  \/ has_writers_waiting(state) /\ ~is_unlocked(state)
                      \/ Wakers \union AwakeWriters # {}
    BY Zenon DEF NoLostWriter
  <2>1. \A t \in Threads : Alert(t) \/ InCharge(t) \/ Passing(t) =>
          t \in Wakers \union AwakeWriters
    BY Zenon DEF Alert, InCharge, Passing, Wakers, AwakeWriters, RwInv, RwTypeOK
  <2>2. x \in Threads /\ Dozing(x)
    BY Zenon DEF Dozing, RwInv, RwTypeOK
  <2>3. Covered(x)
    BY Zenon, <2>2 DEF WritersCovered
  <2>4. CASE state.w
    BY Zenon, <2>1, <2>4 DEF WaitInv, BitsAttended, has_writers_waiting
  <2> QED
    BY Zenon, <2>1, <2>3, <2>4 DEF Covered, Wakers
<1> QED
  BY <1>1, <1>2, <1>3, RwWaitInvariant, RwInvariant, PTL DEF RwSpec

===============================================================================
