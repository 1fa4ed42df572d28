--------------------------------- MODULE Scope ---------------------------------
(***************************************************************************)
(* Scoped threads: thread::scope and ScopeData                             *)
(* (library/std/src/thread/scoped.rs), with spawn_unchecked_, the Packet   *)
(* shared by a thread and its join handle, and join                        *)
(* (library/std/src/thread/mod.rs).                                        *)
(*                                                                         *)
(* A scope keeps one counter, of the packets that still exist; whoever     *)
(* drops the last reference to a packet decrements it, and whoever takes   *)
(* it to zero unparks the thread that waits in scope.                      *)
(***************************************************************************)
EXTENDS Naturals, FiniteSets

CONSTANTS
  Main,              \* the thread that calls scope
  Children,          \* the threads that may be spawned in the scope
  None,              \* no thread
  HalfMax            \* usize::MAX / 2

ASSUME ScopeAssumption ==
  Main \notin Children /\ None \notin Children \union {Main} /\ HalfMax \in Nat

VARIABLES
  num_running_threads,
  a_thread_panicked,
  token,             \* the park token of Main
  mpc,               \* where Main is in scope
  f_panicked,        \* the closure f has panicked
  packet,            \* where the packet of each child is in its life
  worker,            \* who executes the spawn, or the drop, of the packet
  refs,              \* which of the two Arcs of the packet exist
  result,            \* what the packet holds
  holder,            \* who holds the ScopedJoinHandle
  tpc                \* where each child is

scopeVars == <<num_running_threads, a_thread_panicked, token, mpc, f_panicked,
               packet, worker, refs, result, holder, tpc>>

Actors == Children \union {Main}
Usize == 2 * HalfMax + 2

(***************************************************************************)
(* The life of a packet.                                                   *)
(*   none       the thread has not been spawned                            *)
(*   spawning   counted; the operating system is to start the thread       *)
(*   over       counted over the limit: increment_num_running_threads is   *)
(*              about to take the count back, over_unpark to unpark, and   *)
(*              to panic                                                   *)
(*   live       the thread has been started                                *)
(*   drop       the last Arc is gone, the result is about to be dropped    *)
(*   mark, sub, unpark   in decrement_num_running_threads: about to store  *)
(*              a_thread_panicked, to subtract, to unpark Main             *)
(*   gone       Packet::drop has returned                                  *)
(***************************************************************************)
PacketPC == {"none", "spawning", "over", "over_unpark", "live", "drop", "mark",
             "sub", "unpark", "gone"}

Ended == {"returned", "panicked", "unwound"}

ScopeTypeOK ==
  /\ num_running_threads \in 0..(Usize - 1)
  /\ a_thread_panicked \in BOOLEAN
  /\ token \in BOOLEAN
  /\ mpc \in {"f", "check", "park", "result"} \union Ended
  /\ f_panicked \in BOOLEAN
  /\ packet \in [Children -> PacketPC]
  /\ worker \in [Children -> Actors \union {None}]
  /\ refs \in [Children -> SUBSET {"thread", "handle"}]
  /\ result \in [Children -> {"none", "ok", "err"}]
  /\ holder \in [Children -> Actors \union {None}]
  /\ tpc \in [Children -> {"off", "running", "ended", "exiting", "exited"}]
  /\ \A t \in Children : packet[t] = "live" => refs[t] # {}

ScopeInit ==
  /\ num_running_threads = 0
  /\ a_thread_panicked = FALSE
  /\ token = FALSE
  /\ mpc = "f"
  /\ f_panicked = FALSE
  /\ packet = [t \in Children |-> "none"]
  /\ worker = [t \in Children |-> None]
  /\ refs = [t \in Children |-> {}]
  /\ result = [t \in Children |-> "none"]
  /\ holder = [t \in Children |-> None]
  /\ tpc = [t \in Children |-> "off"]

(* The actor runs user code: f, or the closure of its thread. *)
InUserCode(a) ==
  /\ \A t \in Children : worker[t] # a
  /\ IF a = Main THEN mpc = "f" ELSE tpc[a] = "running"

Holds(a) == \E t \in Children : holder[t] = a

(* The packet moves on; the worker is free again where the code returns. *)
Go(t, from, to) ==
  /\ packet[t] = from
  /\ packet' = [packet EXCEPT ![t] = to]
  /\ worker' = [worker EXCEPT ![t] = IF to \in {"live", "gone"} THEN None ELSE @]

(* One of the Arcs is dropped; with the last one its owner a drops the packet. *)
DropArc(t, which, a) ==
  /\ refs' = [refs EXCEPT ![t] = @ \ {which}]
  /\ packet' = [packet EXCEPT ![t] = IF refs[t] = {which} THEN "drop" ELSE @]
  /\ worker' = [worker EXCEPT ![t] = IF refs[t] = {which} THEN a ELSE @]

-------------------------------------------------------------------------------

(***************************************************************************)
(* spawn_unchecked_ up to increment_num_running_threads: the packet exists *)
(* and its fetch_add is done.                                              *)
(***************************************************************************)
spawn(a, t) ==
  /\ InUserCode(a)
  /\ packet[t] = "none"
  /\ num_running_threads' = (num_running_threads + 1) % Usize
  /\ packet' = [packet EXCEPT
       ![t] = IF num_running_threads > HalfMax THEN "over" ELSE "spawning"]
  /\ worker' = [worker EXCEPT ![t] = a]
  /\ refs' = [refs EXCEPT ![t] = {"thread", "handle"}]
  /\ UNCHANGED <<a_thread_panicked, token, mpc, f_panicked, result, holder, tpc>>

(* fetch_sub, as both callers of decrement_num_running_threads do it. *)
Subtract ==
  num_running_threads' = (num_running_threads + Usize - 1) % Usize

(***************************************************************************)
(* The overflow path: the count is taken back, and the panic drops both    *)
(* Arcs of the packet on its way out of spawn_unchecked_.                  *)
(***************************************************************************)
increment_overflow(t) ==
  /\ Subtract
  /\ Go(t, "over", IF num_running_threads = 1 THEN "over_unpark" ELSE "drop")
  /\ refs' = [refs EXCEPT ![t] = {}]
  /\ UNCHANGED <<a_thread_panicked, token, mpc, f_panicked, result, holder, tpc>>

increment_overflow_unpark(t) ==
  /\ token' = TRUE
  /\ Go(t, "over_unpark", "drop")
  /\ UNCHANGED <<num_running_threads, a_thread_panicked, mpc, f_panicked, refs,
                 result, holder, tpc>>

spawn_started(t) ==
  /\ Go(t, "spawning", "live")
  /\ holder' = [holder EXCEPT ![t] = worker[t]]
  /\ tpc' = [tpc EXCEPT ![t] = "running"]
  /\ UNCHANGED <<num_running_threads, a_thread_panicked, token, mpc, f_panicked,
                 refs, result>>

(* imp::Thread::new fails: the closure and my_packet are dropped. *)
spawn_failed(t) ==
  /\ Go(t, "spawning", "drop")
  /\ refs' = [refs EXCEPT ![t] = {}]
  /\ UNCHANGED <<num_running_threads, a_thread_panicked, token, mpc, f_panicked,
                 result, holder, tpc>>

-------------------------------------------------------------------------------

(* The thread's closure returns or panics; its handles are gone by then. *)
thread_end(t) ==
  /\ InUserCode(t) /\ ~Holds(t)
  /\ result' \in {[result EXCEPT ![t] = r] : r \in {"ok", "err"}}
  /\ tpc' = [tpc EXCEPT ![t] = "ended"]
  /\ UNCHANGED <<num_running_threads, a_thread_panicked, token, mpc, f_panicked,
                 packet, worker, refs, holder>>

(* The main closure of the thread drops their_packet as it returns. *)
thread_release(t) ==
  /\ tpc[t] = "ended"
  /\ DropArc(t, "thread", t)
  /\ tpc' = [tpc EXCEPT ![t] = "exiting"]
  /\ UNCHANGED <<num_running_threads, a_thread_panicked, token, mpc, f_panicked,
                 result, holder>>

thread_exit(t) ==
  /\ tpc[t] = "exiting" /\ worker[t] # t
  /\ tpc' = [tpc EXCEPT ![t] = "exited"]
  /\ UNCHANGED <<num_running_threads, a_thread_panicked, token, mpc, f_panicked,
                 packet, worker, refs, result, holder>>

(* A slip in JoinReady: the end of the closure is taken for that of the thread. *)
JoinAtEndOfClosure(t) == tpc[t] \in {"ended", "exiting", "exited"}

(***************************************************************************)
(* ScopedJoinHandle::join: native.join() waits for the thread, the result  *)
(* is taken out of the packet, and the handle's Arc is dropped.            *)
(***************************************************************************)
JoinReady(t) == tpc[t] = "exited"

join(t) ==
  /\ InUserCode(holder[t]) /\ JoinReady(t)
  /\ result' = [result EXCEPT ![t] = "none"]
  /\ DropArc(t, "handle", holder[t])
  /\ holder' = [holder EXCEPT ![t] = None]
  /\ UNCHANGED <<num_running_threads, a_thread_panicked, token, mpc, f_panicked, tpc>>

drop_handle(t) ==
  /\ InUserCode(holder[t])
  /\ DropArc(t, "handle", holder[t])
  /\ holder' = [holder EXCEPT ![t] = None]
  /\ UNCHANGED <<num_running_threads, a_thread_panicked, token, mpc, f_panicked,
                 result, tpc>>

(* mem::forget of the handle: its Arc is never dropped. *)
forget_handle(t) ==
  /\ InUserCode(holder[t])
  /\ holder' = [holder EXCEPT ![t] = None]
  /\ UNCHANGED <<num_running_threads, a_thread_panicked, token, mpc, f_panicked,
                 packet, worker, refs, result, tpc>>

-------------------------------------------------------------------------------

(* A slip in Packet_drop: the panic is forgotten with the result. *)
DropTheResultFirst(t) ==
  /\ Go(t, "drop", "sub")
  /\ result' = [result EXCEPT ![t] = "none"]
  /\ UNCHANGED <<num_running_threads, a_thread_panicked, token, mpc, f_panicked,
                 refs, holder, tpc>>

(* Packet::drop up to the bookkeeping; dropping the result runs user code. *)
Packet_drop(t) ==
  /\ Go(t, "drop", IF result[t] = "err" THEN "mark" ELSE "sub")
  /\ result' = [result EXCEPT ![t] = "none"]
  /\ UNCHANGED <<num_running_threads, a_thread_panicked, token, mpc, f_panicked,
                 refs, holder, tpc>>

decrement_mark(t) ==
  /\ a_thread_panicked' = TRUE
  /\ Go(t, "mark", "sub")
  /\ UNCHANGED <<num_running_threads, token, mpc, f_panicked, refs, result, holder, tpc>>

(* A slip in decrement_sub: zero is expected where fetch_sub gives one. *)
UnparkOneLate(t) ==
  /\ Subtract
  /\ Go(t, "sub", IF num_running_threads = 0 THEN "unpark" ELSE "gone")
  /\ UNCHANGED <<a_thread_panicked, token, mpc, f_panicked, refs, result, holder, tpc>>

decrement_sub(t) ==
  /\ Subtract
  /\ Go(t, "sub", IF num_running_threads = 1 THEN "unpark" ELSE "gone")
  /\ UNCHANGED <<a_thread_panicked, token, mpc, f_panicked, refs, result, holder, tpc>>

decrement_unpark(t) ==
  /\ token' = TRUE
  /\ Go(t, "unpark", "gone")
  /\ UNCHANGED <<num_running_threads, a_thread_panicked, mpc, f_panicked, refs,
                 result, holder, tpc>>

-------------------------------------------------------------------------------

(* f returns, or its panic is caught; the handles it held are gone by then. *)
scope_f(panics) ==
  /\ InUserCode(Main) /\ ~Holds(Main)
  /\ f_panicked' = panics
  /\ mpc' = "check"
  /\ UNCHANGED <<num_running_threads, a_thread_panicked, token, packet, worker,
                 refs, result, holder, tpc>>

(* A slip in scope_check: a panic is reported without waiting for the rest. *)
ReportPanicAtOnce ==
  /\ mpc = "check"
  /\ mpc' = IF num_running_threads = 0 \/ a_thread_panicked THEN "result" ELSE "park"
  /\ UNCHANGED <<num_running_threads, a_thread_panicked, token, f_panicked,
                 packet, worker, refs, result, holder, tpc>>

(* The loop on num_running_threads. *)
scope_check ==
  /\ mpc = "check"
  /\ mpc' = IF num_running_threads = 0 THEN "result" ELSE "park"
  /\ UNCHANGED <<num_running_threads, a_thread_panicked, token, f_panicked,
                 packet, worker, refs, result, holder, tpc>>

scope_park ==
  /\ mpc = "park" /\ token
  /\ token' = FALSE
  /\ mpc' = "check"
  /\ UNCHANGED <<num_running_threads, a_thread_panicked, f_panicked, packet,
                 worker, refs, result, holder, tpc>>

(* f's panic is resumed, or a thread's reported, or f's value returned. *)
scope_return ==
  /\ mpc = "result"
  /\ mpc' = IF f_panicked THEN "unwound"
            ELSE IF a_thread_panicked THEN "panicked" ELSE "returned"
  /\ UNCHANGED <<num_running_threads, a_thread_panicked, token, f_panicked,
                 packet, worker, refs, result, holder, tpc>>

(* Anyone may unpark Main for a reason of their own. *)
stray_unpark ==
  /\ ~token /\ mpc \notin Ended
  /\ token' = TRUE
  /\ UNCHANGED <<num_running_threads, a_thread_panicked, mpc, f_panicked, packet,
                 worker, refs, result, holder, tpc>>

-------------------------------------------------------------------------------

(* Spawning and dropping, once begun, and the end of a thread. *)
ChildStep(t) ==
  \/ increment_overflow(t) \/ increment_overflow_unpark(t)
  \/ spawn_started(t) \/ spawn_failed(t)
  \/ thread_end(t) \/ thread_release(t) \/ thread_exit(t)
  \/ decrement_mark(t) \/ decrement_sub(t) \/ decrement_unpark(t)

HandleStep(t) == holder[t] # None /\ (join(t) \/ drop_handle(t) \/ forget_handle(t))

MainStep ==
  \/ \E panics \in BOOLEAN : scope_f(panics)
  \/ scope_check \/ scope_park \/ scope_return

ScopeNext ==
  \/ \E a \in Actors, t \in Children : spawn(a, t)
  \/ \E t \in Children : ChildStep(t) \/ Packet_drop(t) \/ HandleStep(t)
  \/ MainStep \/ stray_unpark

ScopeSpec == ScopeInit /\ [][ScopeNext]_scopeVars

-------------------------------------------------------------------------------

(* The packets the counter counts. *)
Counted == {t \in Children : packet[t] \in {"spawning", "over", "live", "drop", "mark", "sub"}}

(***************************************************************************)
(* The counter is the number of packets that still exist, through spawns   *)
(* that fail, handles that are forgotten and threads that spawn others.    *)
(***************************************************************************)
CountsPackets == num_running_threads = Cardinality(Counted)

(***************************************************************************)
(* scope leaves its loop only when every thread spawned in it has ended    *)
(* its closure and the result of each has been dropped or taken: nothing   *)
(* that was borrowed for 'scope is still in use by user code.              *)
(***************************************************************************)
JoinedBeforeReturn ==
  mpc \in {"result"} \union Ended =>
    /\ Counted = {}
    /\ \A t \in Children : tpc[t] \notin {"running", "ended"} /\ result[t] = "none"

(***************************************************************************)
(* join finds what it unwraps: it is the only owner of the packet, and the *)
(* result is there.                                                        *)
(***************************************************************************)
JoinFindsResult ==
  \A t \in Children :
    holder[t] # None /\ JoinReady(t) => refs[t] = {"handle"} /\ result[t] # "none"

(***************************************************************************)
(* "'scope ... ends after f returns and all scoped threads have been       *)
(* joined, but before scope returns": no thread is still inside            *)
(* decrement_num_running_threads, which borrows the ScopeData for 'scope,  *)
(* once scope has returned.                                                *)
(***************************************************************************)
ScopeDataOutlivesUse ==
  mpc \in Ended => \A t \in Children : packet[t] \in {"none", "gone"}

===============================================================================
