--------------------------------- MODULE Once ---------------------------------
(***************************************************************************)
(* std::sync::Once (library/std/src/sync/once.rs): a word that holds the   *)
(* state and, while an initializer runs, the head of a linked list of      *)
(* waiter nodes, which live on the stacks of the waiting threads.          *)
(*                                                                         *)
(* One action per access of the word or of a node.  Waiting threads block  *)
(* on the token the parkers are shown to implement (AbstractParker).  A    *)
(* node is named after its thread: a thread has at most one, and the worst *)
(* case, a new node at the address of the thread's previous one, is the    *)
(* one modelled.                                                           *)
(***************************************************************************)
CONSTANTS
  Threads,           \* the threads that call the Once
  Null               \* the null pointer

ASSUME OnceAssumption == Null \notin Threads

VARIABLES
  word,              \* state_and_queue, as [state, queue]
  node,              \* the waiter nodes
  live,              \* threads whose published node is still on their stack
  token,             \* park tokens
  opc,               \* where each thread is
  force,             \* ignore_poisoning of its call
  cur,               \* its state_and_queue or current_state
  setTo,             \* set_state_on_drop_to of its WaiterQueue
  queue,             \* the node its WaiterQueue::drop has reached
  nxt,               \* the local next of that loop
  target             \* the Thread handle that loop took from a node

onceVars == <<word, node, live, token, opc, force, cur, setTo, queue, nxt, target>>
walkVars == <<queue, nxt, target>>

Pointer == Threads \union {Null}

(* Only a RUNNING word has a queue in its upper bits. *)
Words == [state : {"INCOMPLETE", "POISONED", "COMPLETE"}, queue : {Null}]
           \union [state : {"RUNNING"}, queue : Pointer]

W(s) == [state |-> s, queue |-> Null]

(* The value of a local word, or of a node, that is not in scope. *)
Dead == W("INCOMPLETE")
NoNode == [next |-> Null, signaled |-> FALSE]

(***************************************************************************)
(* The control points of a thread.                                         *)
(*   returned   outside, after a call that ended normally                  *)
(*   out        outside, not yet called or after a call that panicked or   *)
(*              whose closure poisoned the Once                            *)
(*   load       call_inner: about to load the word                         *)
(*   match      call_inner: about to act on cur                            *)
(*   init       inside the closure                                         *)
(*   drop       WaiterQueue::drop, about to swap the word                  *)
(*   read, signal, unpark   its loop: about to copy the node's fields, to  *)
(*              store signaled, to unpark                                  *)
(*   queue      wait: about to put its node into the list                  *)
(*   waiting    wait: about to load signaled                               *)
(*   park       wait: inside thread::park                                  *)
(***************************************************************************)
Outside == {"out", "returned"}
OncePC == Outside \union {"load", "match", "init", "drop", "read", "signal",
                          "unpark", "queue", "waiting", "park"}

OnceTypeOK ==
  /\ word \in Words
  /\ node \in [Threads -> [next : Pointer, signaled : BOOLEAN]]
  /\ live \subseteq Threads
  /\ token \in [Threads -> BOOLEAN]
  /\ opc \in [Threads -> OncePC]
  /\ force \in [Threads -> BOOLEAN]
  /\ cur \in [Threads -> Words]
  /\ setTo \in [Threads -> {"POISONED", "COMPLETE"}]
  /\ queue \in [Threads -> Pointer]
  /\ nxt \in [Threads -> Pointer]
  /\ target \in [Threads -> Pointer]

OnceInit ==
  /\ word = W("INCOMPLETE")
  /\ node = [t \in Threads |-> NoNode]
  /\ live = {}
  /\ token = [t \in Threads |-> FALSE]
  /\ opc = [t \in Threads |-> "out"]
  /\ force = [t \in Threads |-> FALSE]
  /\ cur = [t \in Threads |-> Dead]
  /\ setTo = [t \in Threads |-> "POISONED"]
  /\ queue = [t \in Threads |-> Null]
  /\ nxt = [t \in Threads |-> Null]
  /\ target = [t \in Threads |-> Null]

Go(t, from, to) ==
  /\ opc[t] = from
  /\ opc' = [opc EXCEPT ![t] = to]

-------------------------------------------------------------------------------

(* call_once (f = FALSE) and call_once_force: is_completed, then call_inner. *)
call_once(t, f) ==
  /\ opc[t] \in Outside
  /\ opc' = [opc EXCEPT ![t] = IF word = W("COMPLETE") THEN "returned" ELSE "load"]
  /\ force' = [force EXCEPT ![t] = f]
  /\ UNCHANGED <<word, node, live, token, cur, setTo, walkVars>>

call_inner_load(t) ==
  /\ Go(t, "load", "match")
  /\ cur' = [cur EXCEPT ![t] = word]
  /\ UNCHANGED <<word, node, live, token, force, setTo, walkVars>>

call_inner_complete(t) ==
  /\ cur[t].state = "COMPLETE"
  /\ Go(t, "match", "returned")
  /\ cur' = [cur EXCEPT ![t] = Dead]
  /\ UNCHANGED <<word, node, live, token, force, setTo, walkVars>>

call_inner_poisoned(t) ==
  /\ cur[t].state = "POISONED" /\ ~force[t]
  /\ Go(t, "match", "out")
  /\ cur' = [cur EXCEPT ![t] = Dead]
  /\ UNCHANGED <<word, node, live, token, force, setTo, walkVars>>

(* The thread may try to become the one that runs its closure. *)
MayRun(t) ==
  \/ cur[t].state = "INCOMPLETE"
  \/ cur[t].state = "POISONED" /\ force[t]

(* A slip in call_inner_run: a store instead of the compare_exchange. *)
RunWithoutCompare(t) ==
  /\ MayRun(t)
  /\ word' = W("RUNNING")
  /\ setTo' = [setTo EXCEPT ![t] = "POISONED"]
  /\ Go(t, "match", "init")
  /\ cur' = [cur EXCEPT ![t] = Dead]
  /\ UNCHANGED <<node, live, token, force, walkVars>>

(* compare_exchange(state_and_queue, RUNNING). *)
call_inner_run(t) ==
  /\ MayRun(t)
  /\ \/ /\ word = cur[t]
        /\ word' = W("RUNNING")
        /\ setTo' = [setTo EXCEPT ![t] = "POISONED"]
        /\ Go(t, "match", "init")
        /\ cur' = [cur EXCEPT ![t] = Dead]
     \/ /\ word # cur[t]
        /\ cur' = [cur EXCEPT ![t] = word]
        /\ Go(t, "match", "match")
        /\ UNCHANGED <<word, setTo>>
  /\ UNCHANGED <<node, live, token, force, walkVars>>

call_inner_wait(t) ==
  /\ cur[t].state = "RUNNING"
  /\ Go(t, "match", "queue")
  /\ UNCHANGED <<word, node, live, token, force, cur, setTo, walkVars>>

(***************************************************************************)
(* The closure returns, having called OnceState::poison or not, or panics: *)
(* the WaiterQueue is dropped with the state to leave behind.              *)
(***************************************************************************)
init_return(t) ==
  /\ Go(t, "init", "drop")
  /\ setTo' = [setTo EXCEPT ![t] = "COMPLETE"]
  /\ UNCHANGED <<word, node, live, token, force, cur, walkVars>>

init_fail(t) ==
  /\ Go(t, "init", "drop")
  /\ UNCHANGED <<word, node, live, token, force, cur, setTo, walkVars>>

-------------------------------------------------------------------------------

(* How the call ends when WaiterQueue::drop has reached the null pointer. *)
AfterWalk(t, n) ==
  IF n # Null THEN "read"
  ELSE IF setTo[t] = "COMPLETE" THEN "returned" ELSE "out"

drop_swap(t) ==
  /\ word' = W(setTo[t])
  /\ queue' = [queue EXCEPT ![t] = word.queue]
  /\ Go(t, "drop", AfterWalk(t, word.queue))
  /\ UNCHANGED <<node, live, token, force, cur, setTo, nxt, target>>

(* A slip in walk_read: the waiter is signalled before the copies are made. *)
SignalFirst(t) ==
  /\ Go(t, "read", "signal")
  /\ node' = [node EXCEPT ![queue[t]].signaled = TRUE]
  /\ nxt' = [nxt EXCEPT ![t] = node[queue[t]].next]
  /\ target' = [target EXCEPT ![t] = queue[t]]
  /\ UNCHANGED <<word, live, token, force, cur, setTo, queue>>

(* next and thread are copied out of the node. *)
walk_read(t) ==
  /\ Go(t, "read", "signal")
  /\ nxt' = [nxt EXCEPT ![t] = node[queue[t]].next]
  /\ target' = [target EXCEPT ![t] = queue[t]]
  /\ UNCHANGED <<word, node, live, token, force, cur, setTo, queue>>

(* signaled.store(true): from here on the node may be gone. *)
walk_signal(t) ==
  /\ Go(t, "signal", "unpark")
  /\ node' = [node EXCEPT ![queue[t]].signaled = TRUE]
  /\ queue' = [queue EXCEPT ![t] = nxt[t]]
  /\ nxt' = [nxt EXCEPT ![t] = Null]
  /\ UNCHANGED <<word, live, token, force, cur, setTo, target>>

(* A slip in walk_unpark: the thread is not unparked. *)
SignalOnly(t) ==
  /\ Go(t, "unpark", AfterWalk(t, queue[t]))
  /\ UNCHANGED <<word, node, live, token, force, cur, setTo, walkVars>>

walk_unpark(t) ==
  /\ Go(t, "unpark", AfterWalk(t, queue[t]))
  /\ token' = [token EXCEPT ![target[t]] = TRUE]
  /\ target' = [target EXCEPT ![t] = Null]
  /\ UNCHANGED <<word, node, live, force, cur, setTo, queue, nxt>>

-------------------------------------------------------------------------------

(* The node is filled in and put at the head, if the word is still cur. *)
wait_enqueue(t) ==
  /\ cur[t].state = "RUNNING"
  /\ \/ /\ word = cur[t]
        /\ word' = [state |-> "RUNNING", queue |-> t]
        /\ node' = [node EXCEPT ![t] = [next |-> cur[t].queue, signaled |-> FALSE]]
        /\ live' = live \union {t}
        /\ Go(t, "queue", "waiting")
        /\ cur' = [cur EXCEPT ![t] = Dead]
     \/ /\ word # cur[t]
        /\ cur' = [cur EXCEPT ![t] = word]
        /\ Go(t, "queue", "queue")
        /\ UNCHANGED <<word, node, live>>
  /\ UNCHANGED <<token, force, setTo, walkVars>>

(* Nobody is running any more: wait returns and call_inner loads again. *)
wait_abandon(t) ==
  /\ cur[t].state # "RUNNING"
  /\ Go(t, "queue", "load")
  /\ cur' = [cur EXCEPT ![t] = Dead]
  /\ UNCHANGED <<word, node, live, token, force, setTo, walkVars>>

(* The while loop on signaled; leaving it frees the node. *)
wait_check(t) ==
  /\ Go(t, "waiting", IF node[t].signaled THEN "load" ELSE "park")
  /\ live' = IF node[t].signaled THEN live \ {t} ELSE live
  /\ node' = [node EXCEPT ![t] = IF @.signaled THEN NoNode ELSE @]
  /\ UNCHANGED <<word, token, force, cur, setTo, walkVars>>

(* thread::park returns when it can consume the token. *)
park_return(t) ==
  /\ token[t]
  /\ token' = [token EXCEPT ![t] = FALSE]
  /\ Go(t, "park", "waiting")
  /\ UNCHANGED <<word, node, live, force, cur, setTo, walkVars>>

(* Any holder of a Thread handle may unpark it, for reasons of its own. *)
stray_unpark(t) ==
  /\ ~token[t]
  /\ token' = [token EXCEPT ![t] = TRUE]
  /\ UNCHANGED <<word, node, live, opc, force, cur, setTo, walkVars>>

-------------------------------------------------------------------------------

(* The steps that carry a call on; the closure's own are init_*. *)
OnceStep(t) ==
  \/ call_inner_load(t) \/ call_inner_complete(t) \/ call_inner_poisoned(t)
  \/ call_inner_run(t) \/ call_inner_wait(t)
  \/ drop_swap(t) \/ walk_read(t) \/ walk_signal(t) \/ walk_unpark(t)
  \/ wait_enqueue(t) \/ wait_abandon(t) \/ wait_check(t) \/ park_return(t)

OnceNext ==
  \E t \in Threads :
    \/ \E f \in BOOLEAN : call_once(t, f)
    \/ OnceStep(t) \/ init_return(t) \/ init_fail(t) \/ stray_unpark(t)

OnceSpec == OnceInit /\ [][OnceNext]_onceVars

-------------------------------------------------------------------------------

(* The thread's closure runs, or has run and its outcome is not yet stored. *)
Initializing(t) == opc[t] \in {"init", "drop"}

(***************************************************************************)
(* The word says RUNNING exactly while one thread runs its closure, and    *)
(* there is never a second one.  This is what the assertion of             *)
(* WaiterQueue::drop, "We should only ever see an old state which was      *)
(* RUNNING", relies on.                                                    *)
(***************************************************************************)
OneInitializer ==
  /\ \A s, t \in Threads : Initializing(s) /\ Initializing(t) => s = t
  /\ word.state = "RUNNING" <=> \E t \in Threads : Initializing(t)

(***************************************************************************)
(* A call that ends normally, whether it ran its closure or found it run,  *)
(* leaves a completed Once behind it for ever.                             *)
(***************************************************************************)
ReturnMeansComplete ==
  (\E t \in Threads : opc[t] = "returned") => word = W("COMPLETE")

(***************************************************************************)
(* WaiterQueue::drop reads and writes only nodes that still exist and have *)
(* not been signalled: the node it is at cannot be freed under it, and     *)
(* thread.take().unwrap() finds the handle.                                *)
(***************************************************************************)
WalkerAtLiveNode ==
  \A t \in Threads :
    opc[t] \in {"read", "signal"} =>
      queue[t] \in live /\ ~node[queue[t]].signaled

(***************************************************************************)
(* A thread blocked in park after its node was signalled has the token, or *)
(* the waker has yet to unpark it.                                         *)
(***************************************************************************)
SignalledIsUnparked ==
  \A t \in Threads :
    opc[t] = "park" /\ node[t].signaled =>
      token[t] \/ \E w \in Threads : opc[w] = "unpark" /\ target[w] = t

===============================================================================
