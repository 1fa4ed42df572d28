# Verifying the concurrent parts of the Rust tree

This directory holds TLA+ models of the code in `src/` (the Rust 1.63 tree:
compiler, standard library, tools). The repository is far too large to model as a
whole, so the project is about what a model checker and a prover say most of and a
test says least: the futex-based locks, the thread parkers, `Once`, scoped threads
and channels of `library/std`, by means of which every other concurrent part of the
tree blocks, and the directory of incremental compilation sessions, which compiler
processes share through the file system.

Paths below are relative to `src/library/std/src/` unless they say otherwise.

## 1. Inventory

| Part | State | Operations | What makes it hard |
|---|---|---|---|
| futex calls, `sys/unix/futex.rs` | the kernel's queue of each word | `futex_wait`, `futex_wake`, `futex_wake_all` | spurious returns, `EINTR`, timeouts, a wake before the sleep, FreeBSD not reporting who was woken |
| mutex, `sys/unix/locks/futex.rs` | one word: 0, 1, 2 | `lock`, `try_lock`, `unlock` | the word changes between spin, swap and sleep; one wake for many sleepers |
| condvar, same file, `sync/condvar.rs` | one counter | `wait`, `wait_timeout`, `notify_one`, `notify_all`, `wait_while`, `wait_timeout_while` | a notification between unlock and sleep; a timeout that eats a notification; wrap of the counter |
| barrier, `sync/barrier.rs` | count and generation | `wait` | generations that overlap, spurious wakeups |
| RwLock, `sys/unix/locks/futex_rwlock.rs` | state word and `writer_notify` | `read`, `try_read`, `write`, `try_write`, two unlocks | two words and two queues; decisions from stale snapshots; reader overflow |
| parkers, `sys_common/thread_parker/{futex,generic}.rs` | EMPTY, NOTIFIED, PARKED | `park`, `park_timeout`, `unpark` | unpark before park, timeout racing unpark, the lock taken for its side effect |
| `Once`, `sync/once.rs` | state and queue in one pointer | `call_once`, `call_once_force` | a list of nodes on other threads' stacks; poisoning and retry; stray unparks |
| scoped threads, `thread/{scoped,mod}.rs` | counter, panic flag, packets | `scope`, `spawn`, `join`, drop | the last decrement races the return; failed spawns; unhandled panics; forgotten handles |
| channels, `sync/mpsc/{mod,oneshot,stream,shared}.rs` | a state word; counts, steals, tokens, queues | `send`, `recv`, `try_recv`, `recv_deadline`, clone, drop | three flavours and the switches between them; a count that lags behind its queue; aborted waits |
| synchronous channels, `sync/mpsc/sync.rs` | buffer, blocker, queue of senders | `send`, `try_send`, `recv`, `try_recv`, `recv_deadline`, drop | a rendezvous whose receiver times out; signals sent after the unlock |
| `Mutex`, `RwLock`, poisoning, `OnceLock`, `LazyLock`, reentrant mutex | flag, owner, count | guards | panics inside critical sections |
| `Arc`, thread-local keys | counts, lazily created key | clone, drop, upgrade; create, destroy | the last drop; races to create |
| query jobs, dep graph (`compiler/rustc_query_system`) | latches, waiters, colours | start, wait, resume a cycle | deadlock detection while queries complete |
| incremental session directories (`compiler/rustc_incremental`) | directories and lock files | create, finalize, collect | crashes between the steps |
| codegen coordinator (`compiler/rustc_codegen_ssa`) | work items, job tokens | the message loop | tokens, work and the main thread in every order |
| the rest of the compiler, collections, I/O, tools | | | sequential code over unbounded data, or wrappers of system calls |

What has to be true of the parts modelled so far:

* locks exclude, and a sleeper is never forgotten: while somebody sleeps, the word
  says so or somebody awake will see to it;
* a notification reaches every thread that had committed itself to wait, and a
  predicate loop never returns on the wrong condition;
* a barrier opens for complete groups only, and then for the whole group;
* the park token is neither lost nor invented, whichever parker is built in;
* one initializer at a time; who returns from `call_once` sees it complete; nobody
  touches the stack of a thread that has left;
* `scope` returns after all its threads and reports every panic nobody handled;
* a channel loses, repeats and reorders nothing, whatever packet it is in; it is
  disconnected or empty only when it says so truly, and a receiver with something
  to receive wakes up;
* a rendezvous `send` returns `Ok` only for what a receiver has or is about to have;
* no compiler removes the session directory another one works in or copies from,
  and one finalized directory is left for the next compilation.

## 2. Modules

Each layer is modelled at the grain of single atomic accesses and system calls. It
is shown to implement a small abstract specification, and the layer above is built
on the abstract one, so state spaces do not multiply.

```
Futex ── FutexMutex ──implements──> AbstractLock
   │                                    │
   ├──────────────── FutexCondvar ──────┤
   │                  │     │     └─ GenericParker ──implements──> AbstractParker
   │              WaitWhile Barrier                                     ^
   ├── FutexRwLock ──implements──> AbstractRwLock                       │
   └── FutexParker ──implements─────────────────────────────────────────┘
Once, Scope: over the park token of AbstractParker
ChannelState ── Oneshot ── Counted ── Channel;  SyncChannel: over wait tokens
SessionDir: over files and their locks
```

| Module | Code | Correspondence |
|---|---|---|
| `Futex` | `sys/unix/futex.rs` | A queue is a set of threads; `futex_wake` takes any one, `futex_wake_all` all. `futex_wait` is inlined in its users as `wait_load` (the check before the call), `wait_syscall` (compare and sleep, atomic in the kernel), and the ways it returns: `wait_return`, `wait_interrupted` (EINTR, loops), `wait_timedout`, `wait_spurious`. |
| `FutexMutex` | `Mutex` in `locks/futex.rs` | One action per atomic access. `futex` is the word, `mpc` the control point. The spin of 100 loads is one load that may see any state on its way; the local `state` is kept only as the branch taken. |
| `AbstractLock` | its contract | The set of holders; acquire when empty, release by the holder. |
| `FutexCondvar` | `Condvar` in `locks/futex.rs`, `sys_common/condvar.rs` | `counter`, the value `seen`, and the queue. The mutex is `AbstractLock`. |
| `WaitWhile` | `sync/condvar.rs` | The two predicate loops; the condition is "no token is available". |
| `Barrier` | `sync/barrier.rs` | `count`, `generation_id`, `local_gen`. |
| `FutexRwLock` | `locks/futex_rwlock.rs` | `state` is the record of the count and the two waiting bits; `st` and `seq` are the locals. `compare_exchange_weak` may fail for no reason. The set `ReportsWake` says what `futex_wake` may answer. |
| `AbstractRwLock` | its contract | Readers and writers, within the reader limit. |
| `FutexParker`, `GenericParker` | `sys_common/thread_parker/*` | The word with its wrapping `fetch_sub`; the state with mutex and condvar. |
| `AbstractParker` | documentation of `thread::park` | A token; `park` takes it, `unpark` makes it, `park_timeout` may give up. |
| `Once` | `sync/once.rs` | The tagged pointer is a record of state and queue head. A `Waiter` is named by its thread and is in `live` while its stack frame exists. |
| `Scope` | `thread/scoped.rs`, `spawn_unchecked_`, `Packet`, `JoinInner` in `thread/mod.rs` | Per thread: where its packet is in its life, which of its two `Arc`s exist, the result, who holds the handle. The counter wraps at `Usize`, and `HalfMax` is `usize::MAX / 2`. |
| `ChannelState` | `mpsc/blocking.rs`, and the state of the packets | The variables of all three packets (a stream and a shared packet are entries of functions over their names), the receiver, the senders, and what a blocked receiver's wait token becomes: the current one, a stale one a sender still holds, or none. |
| `Oneshot` | `mpsc/oneshot.rs` | The state word with a token in it; the plain fields `data` and `upgrade`. |
| `Counted` | `mpsc/stream.rs`, `mpsc/shared.rs`, the queue of `mpsc/mpsc_queue.rs` | `cnt`, `steals`, `to_wake`, `port_dropped`, and a queue whose push into a shared packet is two steps, between which a pop is `Inconsistent`. `DISCONNECTED` is below all counts, with room for the `FUDGE` of `shared.rs`. |
| `Channel` | `mpsc/mod.rs` | `Sender` and `Receiver`: the loops around the flavours, `send`'s and `clone`'s upgrades, and drops. A packet that carries a `Receiver` (`GoUp`) drops it in turn, so `port` is the stack of `drop_port` calls of a thread. A panic stops the model. |
| `SyncChannel` | `mpsc/sync.rs` | What happens under the `Mutex` is one step, every signal sent after it another. Messages are numbered per sender. `canceled` points to the `flag` of a sender in a rendezvous. |
| `SessionDir` | `src/compiler/rustc_incremental/src/persist/fs.rs` | One step per file-system call of `prepare_session_directory`, `copy_files`, `finalize_session_directory` and `garbage_collect_session_directories`. A directory is its timestamp, and "none", "working" or "final"; removing one is a step for its files and one for itself. |

The `MC…` modules add clients (how many calls are made, who notifies) and history
variables that only properties read. `MCWaiting` runs the two parkers and
`wait_while` side by side as three kinds of behaviour of one specification; they
share nothing. The operators that are introduced with "A slip" are variants of the
action they precede, with the sort of mistake that code invites; no specification
uses them. They document what each property is there to catch: put in place of the
action, each makes TLC report the property that `PROJECT.json` pairs with it.

Interleaving atomic steps assumes sequential consistency. That is justified here:
mutex, parker and `Once` each keep their protocol in one atomic word, whose
modifications are totally ordered whatever the memory ordering; the condvar's
relaxed counter is ordered by the mutex around it; the RwLock reads
`writer_notify` with Acquire before it looks at `state` again, and writes it with
Release after changing `state`; the queue nodes of `Once` and the packets of a scope
are published with Release and read with Acquire; the channels use `SeqCst` for
their counts and tokens, and what a synchronous channel keeps is under its mutex.

`SessionDir` assumes of the file system that timestamps are distinct and grow, that
a directory is listed in one step, that a lock belongs to an open file (`flock`) and
is dropped with the process, and that unlinking a lock file and dropping its lock are
one step. The clock is read where the code reads it, when a collection comes to an
unfinished directory it has listed (`is_old_enough_to_be_collected` in `gc_open`): a
directory it has found old is old from then on, and so are those before it. The choice
`slow` says whether time may pass at will. If not, a session is never *pending* when it
becomes ten seconds old (`Pending`): it is not in progress, and no collection that
listed it as unfinished before it was finalized has still to come to it.

## 3. Runs

`tlc -config X.cfg M`, with the module and configuration of `PROJECT.json`.

| Run | Instance | Checks |
|---|---|---|
| `mutex` | 3 threads, 2 calls each | `NoLostWakeup`; `ImplementsLock` (AbstractLock, and with it mutual exclusion); `LockReturns` |
| `barrier` | 4 threads, groups of 3, two groups | `Rendezvous`: who leaves does so with a full group; `GroupLeaves` |
| `rwlock` | 3 threads, one call each, at most 2 readers, both answers of `futex_wake` | `ReadersWaitBehindWriters` (the `debug_assert!` of `read_unlock`); `NoLostReader`; `NoLostWriter`; `ImplementsRwLock`; `CallsReturn` |
| `waiting` | futex parker with 3 unparkers, generic parker with 2, both for ever; `wait_while` with 2 consumers (one timed) and 2 producers, one of each calling twice | `ImplementsParker`, `UnparkedReturns` and the same two of the generic parker; `TokensCovered`: no token is stranded while somebody sleeps, timeouts included; `WaitWhileReturns` |
| `once` | 3 threads calling without end, 2 of them with force, 2 failures, stray unparks | `OneInitializer`; `ReturnMeansComplete`; `WalkerAtLiveNode`; `CallsEnd` |
| `scope` | main and 3 threads, the third refused if the others still count, stray unparks | `JoinedUnlessRefused`; `JoinFindsResult`; `UnhandledPanicReported`; `ScopeReturns` |
| `channel` | 2 senders with 2 and 1 messages, one timeout, every pop over `MAX_STEALS` | `ChannelAsserts`; `DroppedPackets`; `LateSendRefused`; `DisconnectedIsFinal`; `EmptyMeansEmpty`; `InOrder`; `RecvReturns` |
| `sync_channel` | 3 senders with 2, 1 and 1 messages, capacity 0 and 1 | `SyncAsserts`; `HandedOver`; `HungUpIsFinal`; `SyncProgress` |
| `session` | 2 processes, any rest of one earlier session, 5 timestamps, `slow` or not | `LiveIsKept`; `UndisturbedCopy`; `NewestKept`; `CollectedWhenAlone`; `SessionEnds` |
| `scope_data` | main and 2 threads | **violated**: `ScopeDataOutlivesUse` |
| `channel_recv` | 2 senders, one timeout, no pop over `MAX_STEALS` | **violated**: `RecvIsNeverEmpty` |
| `session_newest` | 2 processes, `slow` | **violated**: `MostRecentStays` |

**Bounds.** Three threads give a holder, a sleeper and a thread that arrives at the
worst moment, which is what the races here need. The barrier needs a fourth: a
leader with two followers to wake, and an outsider that opens the next generation.
In the RwLock a single call passes its loops as often as the others make it, and
three threads reach a writer and a reader that wait together and a reader count at
its limit. Reader limit and word sizes are constants: the reader limit is small so
that it is reached; the wrapping counters are larger than the number of
notifications that fit in one wait, because a wrap within one wait is a limit of
32-bit futexes that the design accepts. Calls are counted where an unfair lock could
otherwise starve a thread for ever (the mutex, the RwLock, the barrier's spurious
wakeups). In `once` the number of failing closures is bounded for the same reason.

In `channel` the first message of the first sender uses the oneshot packet and its
second the stream, or the shared packet if the sender was cloned before; so every
sequence of packets occurs, with a message in each of them. With `MAX_STEALS` 0 each
pop that follows a steal also goes through the code that settles the steals with the
count, which in the library happens once in a million messages. The receiver calls
as often as it likes; only deadlines that pass while it waits are counted. In
`sync_channel` three senders fill the buffer, the slot of the blocker and the queue
behind it. In `session` two processes meet in every pair of steps, and the earlier
session gives them something to copy, to collect, or that was cut short; five
timestamps are as many as their retries can use.

**Fairness.** Weak fairness of each thread's own steps: the scheduler runs a
runnable thread, a lock holder lets go, a closure ends, a deadline passes. Starting
a call is never fair, save that producers come (`waiting`); they take an unfair
mutex, so this is strong fairness. A scope's user code disposes of its handles.
Signals and spurious wakeups are not fair: nothing relies on them to get out of a
wait. In `session` some process takes a step while there are sessions in progress; no
process has to begin one, or to die. This is less than fairness of each process, and
enough for all sessions to end.

**Deadlock** is checked except in the scope runs (a scope ends; and a handle that has
been forgotten makes `scope` wait for ever, which the code accepts). In the
others, all having ended, or a panic in a channel, is a step that changes nothing.

## 4. Three disagreements

*The scope's data is used after the scope may be gone.* `decrement_num_running_threads`
takes the count to zero and then calls `self.main_thread.unpark()` through a
reference into the frame of `scope` (`thread/scoped.rs:58-59`). The main thread may
see the zero and return between the two. The documentation says the lifetime ends
"after `f` returns and all scoped threads have been joined, but before `scope`
returns" (`thread/scoped.rs:119`). Run `scope_data`; the shortest trace has one
thread.

*A `recv` can reach `unreachable!()`.* A stream's sender pushes its message and then
counts it (`sync/mpsc/stream.rs:113-114`). When the receiver's deadline passes in
between, `abort_selection` adds 2 to the count of -1 and records a steal; the
message that `recv_deadline` then takes is not counted as one, as if the decrement
were still in force. The channel is left with a count of 2, one steal and no
message. The next `recv` therefore does not block, and finds nothing:
`Err(stream::Empty) => unreachable!()` (`sync/mpsc/mod.rs:1171`). Run `channel_recv`.
This is why some assertions in `ChannelAsserts` and `DroppedPackets` are stated for
channels on which no deadline has passed in a wait; the source knows two relatives of
this: the comments at `sync/mpsc/stream.rs:390` (no thread in `to_wake`) and
`sync/mpsc/shared.rs:252`.

*The newest session may be collected.* A collection lists an unfinished directory,
finds it older than ten seconds, and its owner finalizes it before the collection
tries its lock. The removal finds nothing at the old path, which counts as success,
and the lock file goes, which the renamed directory shares. The next collection
removes a directory without a lock file first of all. The documentation says that
collections delete finalized directories "except for the most recent one"
(`persist/fs.rs:50-51`). Run `session_newest`. What is lost is a cache. A short session
is no protection by itself: the age is tested when the collection comes to the
directory, and if ten seconds have passed since the session began, the owner may have
finalized it long before. `NewestKept` shows that nothing else takes the newest
directory away: it holds as long as no session becomes ten seconds old while it is
pending (section 2).

Three more observations, which no run is about:

* A spawn that is refused at the limit is counted off twice: by
  `increment_num_running_threads` (`thread/scoped.rs:50`) and by the packet that is
  dropped (`thread/mod.rs:1338`). `JoinedUnlessRefused` and the theorems about it
  exclude scopes in which this happened. More than `usize::MAX / 2` packets have to
  exist first, so this is a gap in an argument and not something a 64-bit program
  meets.
* A lock file whose directory was never made is not collected, though the comment at
  `persist/fs.rs:734-735` says it is: `extract_timestamp_from_session_dir` does not
  parse names that end in ".lock".
* A collection that dies between removing the files of a finalized directory and the
  directory itself leaves one that a later session can copy from. `NewestKept` says
  that the newest one is never left so.

## 5. Proofs

`tlapm M.tla`. The theorems hold for any set of threads or processes (finite where
they are counted: the RwLock's and those of `wait_while`) and all values of the other
constants that the named assumptions allow.

| Module | Theorems | Inductive invariant |
|---|---|---|
| `FutexMutexProofs` | `MutexInvariant`, `MutexExcludes`, `MutexLosesNoWakeup`, `MutexRefinesLock` | Types, mutual exclusion as "the word is 0 exactly when nobody holds the lock", queued threads are in the system call, and `NoLostWakeup`. |
| `FutexRwLockProofs` | `RwInvariant`, `RwExcludes`, `RwDebugAssert`, `RwRefines` | Types, the word counts the holders, `ReadersWaitBehindWriters`, and that `read` only exchanges a word it found lockable. A lemma sorts all steps into five ways of changing holders and count together; exclusion and refinement both follow from it. |
| the same | `RwWaitInvariant`, `RwLosesNoReader`, `RwLosesNoWriter` | See below, "Those who wait". |
| `WaitingProofs` | `ParkerInvariant`, `ParkerEntry`, `ParkerLosesNoWakeup`, `ParkerRefines`, `WaitingHasParker` | Types, the two properties, the queue is empty unless the owner is asleep, and the word is not EMPTY while it is inside. |
| the same | `GenericInvariant`, `GenericNeverPanics`, `GenericRefines`, `GenericWakeInvariant`, `GenericLosesNoWakeup` | What the atomic can be at each point of `park`; for the wake-ups, see below. |
| the same | `WaitInvariant`, `WaitWhileMeets`, `CoverInvariant`, `NotifyOneIsNotLost` | Who is in the critical section holds the mutex alone, and a consumer that got its token sees one; for the tokens, see below. |
| `BarrierProofs` | `BarrierInvariant`, `BarrierIsRendezvous` | `count` is the remainder and `generation_id` the wrapped quotient of the number of arrivals by `num_threads`; a thread remembers the wrapped number of its group; who reads or writes these holds the mutex alone (`LockedAlone`, which also justifies that `wait_arrive` is one step); who leads arrived last in a group, who follows did not (`Roles`). |
| `OnceProofs` | `OnceInvariant`, `OnceExcludes`, `OnceCompletes`, `OnceWalksLiveNodes`, `OnceUnparksWaiters` | The list part needs no reachability: every pointer to a node (from the word, a walker or a waiting node) is to a node that waits for its signal, and no two pointers are to the same node. So the walker's pointer is the only one left when it signals, and the node may die. |
| `ScopeProofs` | `ScopeInvariant`, `ScopeJoins`, `ScopeReportsPanics`, `ScopeJoinFindsResult` | The life of a packet tied to its `Arc`s, thread and handle (`Lives`); the counter equal to the number of packets that count, and never more than one above the limit (`Countable`). These hold of scopes in which no spawn was refused. What `join` needs (`JoinInv`: the thread's `Arc`, its control point and its result go together) holds of every scope. |
| `SyncChannelProofs` | `SyncInvariant`, `SyncHandsOver`, `SyncHangsUp`, `SyncAssertsHold` | See below. Any number of senders, any capacities. |
| `SessionDirProofs` | `SessionInvariant`, `SessionsAreKept`, `CopiesAreUndisturbed`, `NewestIsKept`, `CollectionInvariant`, `CollectionsAreComplete` | See below. Any number of processes and of sessions, whichever die. |

**Those who wait.** The lost-wakeup theorems follow one pattern. A thread is bound to
sleep, *dozing*, from the moment it reads the counter, well before the kernel queues
it; the invariant speaks of dozing threads, and the property about sleeping ones
follows when the kernel compares the counter with what was read.

* RwLock (`WaitInv`): in an unlocked word with a waiting bit on, some thread is awake
  that will look at the word (`Alert`) or holds a copy of it that obliges it to wake
  somebody (`InCharge`). A reader sleeps only with its bit on, so this is
  `NoLostReader`, wherever the counters wrap. A dozing writer is covered by its bit,
  by a writer that passes the bit on, or by a notification to come
  (`WritersCovered`).
* Generic parker (`GenericWakeInv`): while an owner that has stored PARKED and was
  notified since still holds the mutex, the unparking thread is at `self.lock.lock()`,
  so its notification comes after the owner has read the counter. This is the
  argument of the comment in `unpark`.
* `wait_while` (`CoverInv`): tokens are no more than consumers awake inside their call
  plus producers that have not finished `notify_one`, while somebody sleeps; while
  somebody dozes on the current counter, they are no more than the consumers that
  do not doze plus the producers that have not yet moved the counter on. The second
  is the strengthening: the waiter saw no token when it read the counter, with the
  mutex held.

What is said of writers, of the generic parker and of tokens holds as long as the
32-bit counter has not wrapped (`[][NoWrap]_vars`, a hypothesis of the theorems): a
thread that is held up between reading the counter and sleeping for exactly 2^32
notifications is let to sleep, a limit of futexes. The barrier's theorem needs no such hypothesis, being
about who leaves, and holds also when `generation_id` wraps. It assumes
`num_threads` is not 0, for which there are no groups (the code then lets everybody
lead).

**Synchronous channel.** The invariant has six parts beside types. Who is in the
queue is there once and waits for a slot (`QueueInv`). Who the blocker is decides what
it waits for and what is in the buffer, and a receiver that waits and is not the
blocker has data or a disconnected channel (`BlockInv`). With capacity 0 the buffer
is empty, or holds a message that a waiting receiver was given, or the one of a
rendezvous, on offer or to be taken back (`PairInv`). The buffer holds, in each
sender's order, messages that were not received, and the last acknowledged message
of every sender if that was not (`OrderInv`). `channels` counts the senders that live,
and is zero when the last one disconnects (`LiveInv`). The sixth part is the two
properties themselves, which need the others: Disconnected is final because the
buffer accounts for everything, and a message handed over stays with a receiver that
is in its call because nobody else can take it. The actions are first reduced to
seven ways of changing buffer and blocker (`Move`, `Store`, `Deliver`, `Offer`, `Block`,
`PickUp`, `GiveUp`) and a few that stand for themselves, so that each part goes through
few and short cases.

**Session directories.** `SessInv` holds however long sessions last. Timestamps are
used once; a session about to be locked is unknown to every other process
(`FreshInv`); from then on its lock protects it, since a collection removes only what
it has locked or has found without a lock file, and the lock file of a live session is
there (`LiveInv`). `ShortInv` holds unless `slow`: what is old
and was listed as unfinished, or is being removed as such, has been given up by its
owner, was not finalized and will not be (`AbandonedInv`); so every directory has its lock
file, and none is swept (`LockFileInv`); so what a collection removes are candidates
older than the newest (`NewestInv`), under a lock that excludes those who copy
(`CopyInv`). If a pending session can become old, the race of section 4 breaks the
first link, and with three processes it can also take a source away from a copy that
holds its shared lock; this is why `UndisturbedCopy` is conditional too.

That an undisturbed collection is complete (`CollectedWhenAlone`) needs the converse
about locks: each one is held for the session of its process, as that of a candidate
or of what is being removed, or to copy (`HeldInv`). So processes that have not begun
or have ended hold none, and every finalized directory the lone process has listed can
be locked. Until its listing is done each finalized directory is still listed, about
to be locked or a candidate; from then on each is the newest or is still to be removed
(`AloneInv`). Between the two, `gc_spare` spares the newest candidate, which is
`newest` because that one was kept (`NewestInv`) and therefore listed.

Only model-checked:

* liveness, which is out of this prover's reach;
* `ChannelAsserts`, `DroppedPackets`, `LateSendRefused`, `DisconnectedIsFinal` and
  `EmptyMeansEmpty` of the asynchronous channels, whose counts hold only with the
  sends in progress taken into account, per packet and across upgrades, and only
  until a timeout;
* `InOrder`, which is about the whole sequence received.

## 6. Not modelled

`PROJECT.json` lists each part with its reason. The tree has some 970,000 lines. Most
of them are the compiler, the collections and the tools: sequential programs whose
correctness is a relation between large inputs and outputs, with no small instance
that says much, and for which a model would be a second implementation. This
project keeps to the parts that are about order of events, so that its share of all
lines is and remains small.

Within the modelled parts: the `check` of one mutex per condvar (empty on these
platforms); poisoning, since user code between the calls does not panic except in
`Once` and `scope`; memory that runs out; the value of timeouts (a timeout may happen
at any time); a scoped handle that is sent to another thread or returned from one
(the thread that spawned it disposes of it); recursive `call_once`, which is
documented to deadlock or panic; the node cache of the stream's queue
(`mpsc/spsc_queue.rs`), which changes who frees a node; the abort of a channel that is
cloned more than `isize::MAX` times (`MAX_REFCOUNT`, `mpsc/shared.rs:361`,
`mpsc/sync.rs:360`); errors of the file system other
than a missing file; lost file locks on file systems without them. Windows, wasm, SGX
and pthread-based variants of the locks are different code.

## 7. Plan

In order of importance:

1. Poisoning (`sync/poison.rs`, `mutex.rs`, `rwlock.rs`) over `AbstractLock`, the
   reentrant mutex, `OnceLock` and `LazyLock` over `Once`.
2. `compiler/rustc_query_system`: latches and the deadlock handler of `query/job.rs`,
   then red-green marking.
3. `Arc`; thread-local keys; the obligation forest; the codegen coordinator.
4. Proofs: a count invariant for the stream packet.
