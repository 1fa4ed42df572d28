------------------------------ MODULE OnceProofs ------------------------------
(***************************************************************************)
(* The safety of std::sync::Once for any number of threads.                *)
(*                                                                         *)
(* The argument about the linked list needs no notion of reachability.     *)
(* Every pointer to a node, in the word, in a walking WaiterQueue or in a  *)
(* node that waits for its signal, is to a node that waits for its signal, *)
(* and no two of them are to the same node.  So when the walker signals a  *)
(* node, after which the node may be freed, its own pointer was the only   *)
(* one.                                                                    *)
(***************************************************************************)
EXTENDS Once, TLAPS

(***************************************************************************)
(* The control part of the inductive invariant: who initializes, and what  *)
(* the threads have learnt of completion.                                  *)
(***************************************************************************)
Core ==
  /\ OnceTypeOK
  /\ OneInitializer
  /\ ReturnMeansComplete
  /\ \A t \in Threads :
       opc[t] = "match" /\ cur[t].state = "COMPLETE" => word = W("COMPLETE")
  /\ \A t \in Threads :
       opc[t] \in {"read", "signal", "unpark"} /\ setTo[t] = "COMPLETE" =>
         word = W("COMPLETE")

(* The thread's node is in a list and waits for its signal. *)
Queued(t) == opc[t] \in {"waiting", "park"} /\ ~node[t].signaled

(* The three kinds of pointer to the node n. *)
WordAt(n) == word.queue = n
WalkerAt(w, n) == opc[w] \in {"read", "signal", "unpark"} /\ queue[w] = n
NodeAt(m, n) == Queued(m) /\ node[m].next = n

(* Pointers are to nodes that wait for their signal. *)
PointersLive ==
  \A n \in Threads :
    /\ WordAt(n) => Queued(n)
    /\ \A w \in Threads : WalkerAt(w, n) => Queued(n)
    /\ \A m \in Threads : NodeAt(m, n) => Queued(n)

(* No two pointers are to the same node. *)
PointersDistinct ==
  \A n, v, w \in Threads :
    /\ ~(WordAt(n) /\ WalkerAt(w, n))
    /\ ~(WordAt(n) /\ NodeAt(w, n))
    /\ ~(WalkerAt(v, n) /\ NodeAt(w, n))
    /\ WalkerAt(v, n) /\ WalkerAt(w, n) => v = w
    /\ NodeAt(v, n) /\ NodeAt(w, n) => v = w

(* What the walker has copied is what the node says. *)
WalkerLocals ==
  \A w \in Threads :
    /\ opc[w] \in {"read", "signal"} => queue[w] # Null
    /\ opc[w] = "signal" => nxt[w] = node[queue[w]].next /\ target[w] = queue[w]
    /\ opc[w] = "unpark" => target[w] \in Threads

(***************************************************************************)
(* The list part of the inductive invariant.                               *)
(***************************************************************************)
ListInv ==
  /\ live = {t \in Threads : opc[t] \in {"waiting", "park"}}
  /\ PointersLive
  /\ PointersDistinct
  /\ WalkerLocals

-------------------------------------------------------------------------------

(***************************************************************************)
(* The words the code stores are well formed and different.                *)
(***************************************************************************)
LEMMA WordFacts ==
  /\ \A s \in {"INCOMPLETE", "POISONED", "RUNNING", "COMPLETE"} :
       W(s) \in Words /\ W(s).state = s /\ W(s).queue = Null
  /\ \A t \in Threads :
       LET w == [state |-> "RUNNING", queue |-> t]
       IN  w \in Words /\ w.state = "RUNNING" /\ w.queue = t
  /\ \A w \in Words : w.state = "COMPLETE" => w = W("COMPLETE")
  /\ \A w \in Words : w.queue \in Pointer /\ (w.queue # Null => w.state = "RUNNING")
  BY DEF Words, W, Pointer

(***************************************************************************)
(* A node keeps its type under the two updates the code makes.             *)
(***************************************************************************)
LEMMA NodeFacts ==
  ASSUME node \in [Threads -> [next : Pointer, signaled : BOOLEAN]],
         NEW t \in Threads, NEW p \in Pointer
  PROVE  /\ [node EXCEPT ![t] = [next |-> p, signaled |-> FALSE]]
              \in [Threads -> [next : Pointer, signaled : BOOLEAN]]
         /\ [node EXCEPT ![t].signaled = TRUE]
              \in [Threads -> [next : Pointer, signaled : BOOLEAN]]
         /\ [node EXCEPT ![t] = IF @.signaled THEN NoNode ELSE @]
              \in [Threads -> [next : Pointer, signaled : BOOLEAN]]
  BY DEF NoNode, Pointer

(***************************************************************************)
(* Every step keeps the types.                                             *)
(***************************************************************************)
LEMMA TypeStep ==
  ASSUME OnceTypeOK, ListInv, [OnceNext]_onceVars
  PROVE  OnceTypeOK'
<1> USE DEF OnceTypeOK, OncePC, Outside, Go, walkVars
<1>d. Dead \in Words /\ W("RUNNING") \in Words
  BY WordFacts DEF Dead
<1>1. ASSUME NEW t \in Threads, NEW f \in BOOLEAN, call_once(t, f) PROVE OnceTypeOK'
  BY <1>1 DEF call_once
<1>2. ASSUME NEW t \in Threads, call_inner_load(t) PROVE OnceTypeOK'
  BY <1>2 DEF call_inner_load
<1>3. ASSUME NEW t \in Threads, call_inner_complete(t) \/ call_inner_poisoned(t)
      PROVE OnceTypeOK'
  <2>1. CASE call_inner_complete(t)
    BY <2>1, <1>d DEF call_inner_complete
  <2>2. CASE call_inner_poisoned(t)
    BY <2>2, <1>d DEF call_inner_poisoned
  <2> QED
    BY <1>3, <2>1, <2>2
<1>4. ASSUME NEW t \in Threads, call_inner_run(t) PROVE OnceTypeOK'
  BY <1>4, <1>d, SMTT(30) DEF call_inner_run
<1>5. ASSUME NEW t \in Threads, call_inner_wait(t) PROVE OnceTypeOK'
  BY <1>5 DEF call_inner_wait
<1>6. ASSUME NEW t \in Threads, init_return(t) \/ init_fail(t) PROVE OnceTypeOK'
  BY <1>6 DEF init_return, init_fail
<1>7. ASSUME NEW t \in Threads, drop_swap(t) PROVE OnceTypeOK'
  BY <1>7, WordFacts DEF drop_swap, AfterWalk
<1>8. ASSUME NEW t \in Threads, walk_read(t) PROVE OnceTypeOK'
  <2>1. queue[t] \in Threads
    BY <1>8 DEF walk_read, ListInv, WalkerLocals, Pointer
  <2>2. node[queue[t]].next \in Pointer
    BY <2>1
  <2> QED
    BY <1>8, <2>1, <2>2 DEF walk_read, Pointer
<1>9. ASSUME NEW t \in Threads, walk_signal(t) PROVE OnceTypeOK'
  <2>1. queue[t] \in Threads
    BY <1>9 DEF walk_signal, ListInv, WalkerLocals, Pointer
  <2>2. node' \in [Threads -> [next : Pointer, signaled : BOOLEAN]]
    BY <1>9, <2>1, NodeFacts DEF walk_signal, Pointer
  <2> QED
    BY <1>9, <2>2 DEF walk_signal, Pointer
<1>10. ASSUME NEW t \in Threads, walk_unpark(t) PROVE OnceTypeOK'
  BY <1>10 DEF walk_unpark, AfterWalk, Pointer
<1>11. ASSUME NEW t \in Threads, wait_enqueue(t) PROVE OnceTypeOK'
  <2>1. cur[t].queue \in Pointer
    BY WordFacts
  <2>2. [node EXCEPT ![t] = [next |-> cur[t].queue, signaled |-> FALSE]]
          \in [Threads -> [next : Pointer, signaled : BOOLEAN]]
    BY <2>1, NodeFacts
  <2>3. node' \in [Threads -> [next : Pointer, signaled : BOOLEAN]]
    BY <1>11, <2>2 DEF wait_enqueue
  <2>4. [state |-> "RUNNING", queue |-> t] \in Words
    BY WordFacts
  <2>5. word' \in Words /\ cur' \in [Threads -> Words]
    BY <1>11, <2>4, <1>d DEF wait_enqueue
  <2>6. opc' \in [Threads -> OncePC] /\ live' \subseteq Threads
    BY <1>11 DEF wait_enqueue
  <2> QED
    BY <1>11, <2>3, <2>5, <2>6 DEF wait_enqueue
<1>12. ASSUME NEW t \in Threads, wait_abandon(t) PROVE OnceTypeOK'
  BY <1>12, <1>d DEF wait_abandon
<1>13. ASSUME NEW t \in Threads, wait_check(t) PROVE OnceTypeOK'
  <2>1. node' \in [Threads -> [next : Pointer, signaled : BOOLEAN]]
    BY <1>13, NodeFacts DEF wait_check, Pointer
  <2> QED
    BY <1>13, <2>1 DEF wait_check
<1>14. ASSUME NEW t \in Threads, park_return(t) \/ stray_unpark(t) PROVE OnceTypeOK'
  BY <1>14 DEF park_return, stray_unpark
<1>15. CASE UNCHANGED onceVars
  BY <1>15 DEF onceVars
<1> QED
  BY <1>1, <1>2, <1>3, <1>4, <1>5, <1>6, <1>7, <1>8, <1>9, <1>10, <1>11, <1>12,
     <1>13, <1>14, <1>15
  DEF OnceNext, OnceStep

(* The steps that leave the word alone and start or end no closure. *)
Bystander(t) ==
  \/ call_inner_load(t) \/ call_inner_complete(t) \/ call_inner_poisoned(t)
  \/ call_inner_wait(t) \/ walk_read(t) \/ walk_signal(t) \/ walk_unpark(t)
  \/ wait_abandon(t) \/ wait_check(t) \/ park_return(t) \/ stray_unpark(t)

(***************************************************************************)
(* No step changes a COMPLETE word.                                        *)
(***************************************************************************)
LEMMA CompleteIsFinal ==
  ASSUME Core, [OnceNext]_onceVars, word = W("COMPLETE")
  PROVE  word' = word
<1> USE DEF Core, OnceTypeOK, Go, walkVars
<1>1. word.state = "COMPLETE" /\ word \in Words
  BY WordFacts
<1>2. ASSUME NEW t \in Threads, call_inner_run(t) PROVE word' = word
  BY <1>1, <1>2 DEF call_inner_run, MayRun
<1>3. ASSUME NEW t \in Threads, drop_swap(t) PROVE word' = word
  BY <1>1, <1>3 DEF drop_swap, OneInitializer, Initializing
<1>4. ASSUME NEW t \in Threads, wait_enqueue(t) PROVE word' = word
  BY <1>1, <1>4 DEF wait_enqueue
<1>5. ASSUME NEW t \in Threads, Bystander(t) PROVE word' = word
  BY <1>5 DEF Bystander, call_inner_load, call_inner_complete, call_inner_poisoned,
     call_inner_wait, walk_read, walk_signal, walk_unpark, wait_abandon, wait_check,
     park_return, stray_unpark
<1>6. ASSUME NEW t \in Threads, NEW f \in BOOLEAN,
             call_once(t, f) \/ init_return(t) \/ init_fail(t)
      PROVE word' = word
  BY <1>6 DEF call_once, init_return, init_fail
<1>7. CASE UNCHANGED onceVars
  BY <1>7 DEF onceVars
<1> QED
  BY <1>2, <1>3, <1>4, <1>5, <1>6, <1>7 DEF OnceNext, OnceStep, Bystander

(***************************************************************************)
(* Every step keeps the word RUNNING exactly while one closure runs.       *)
(***************************************************************************)
LEMMA InitializerStep ==
  ASSUME Core, [OnceNext]_onceVars
  PROVE  OneInitializer'
<1> USE DEF Core, OnceTypeOK, OneInitializer, Initializing, Go, walkVars
<1>1. ASSUME NEW t \in Threads, call_inner_run(t) PROVE OneInitializer'
  <2>1. CASE word = cur[t]
    <3>1. word.state # "RUNNING"
      BY <1>1, <2>1 DEF call_inner_run, MayRun
    <3>2. word' = W("RUNNING") /\ opc' = [opc EXCEPT ![t] = "init"]
      BY <1>1, <2>1 DEF call_inner_run
    <3>3. word'.state = "RUNNING"
      BY <3>2, WordFacts
    <3> QED
      BY <3>1, <3>2, <3>3
  <2>2. CASE word # cur[t]
    BY <1>1, <2>2 DEF call_inner_run
  <2> QED
    BY <2>1, <2>2
<1>2. ASSUME NEW t \in Threads, drop_swap(t) PROVE OneInitializer'
  <2>1. word'.state = setTo[t] /\ setTo[t] # "RUNNING"
    BY <1>2, WordFacts DEF drop_swap
  <2>2. \A s \in Threads : Initializing(s) => s = t
    BY <1>2 DEF drop_swap
  <2>3. ~Initializing(t)'
    BY <1>2 DEF drop_swap, AfterWalk
  <2>4. \A s \in Threads : s # t => opc'[s] = opc[s]
    BY <1>2 DEF drop_swap
  <2> QED
    BY <2>1, <2>2, <2>3, <2>4
<1>3. ASSUME NEW t \in Threads, wait_enqueue(t) PROVE OneInitializer'
  <2>1. word'.state = word.state
    BY <1>3, WordFacts DEF wait_enqueue
  <2>2. opc[t] = "queue" /\ opc' \in {[opc EXCEPT ![t] = "waiting"], [opc EXCEPT ![t] = "queue"]}
    BY <1>3 DEF wait_enqueue
  <2> QED
    BY <2>1, <2>2
<1>4. ASSUME NEW t \in Threads, Bystander(t) PROVE OneInitializer'
  <2>1. word' = word
    BY <1>4 DEF Bystander, call_inner_load, call_inner_complete, call_inner_poisoned,
       call_inner_wait, walk_read, walk_signal, walk_unpark, wait_abandon, wait_check,
       park_return, stray_unpark
  <2>2. /\ \A s \in Threads : s # t => opc'[s] = opc[s]
        /\ opc'[t] = opc[t] \/ (~Initializing(t) /\ ~Initializing(t)')
    BY <1>4 DEF Bystander, call_inner_load, call_inner_complete, call_inner_poisoned,
       call_inner_wait, walk_read, walk_signal, walk_unpark, AfterWalk, wait_abandon,
       wait_check, park_return, stray_unpark
  <2> QED
    BY <2>1, <2>2
<1>5. ASSUME NEW t \in Threads, NEW f \in BOOLEAN, call_once(t, f) PROVE OneInitializer'
  BY <1>5 DEF call_once, Outside
<1>6. ASSUME NEW t \in Threads, init_return(t) \/ init_fail(t) PROVE OneInitializer'
  BY <1>6 DEF init_return, init_fail
<1>7. CASE UNCHANGED onceVars
  BY <1>7 DEF onceVars
<1> QED
  BY <1>1, <1>2, <1>3, <1>4, <1>5, <1>6, <1>7 DEF OnceNext, OnceStep, Bystander

(* What a thread knows of completion: the last three conjuncts of Core. *)
Learnt(t) ==
  \/ opc[t] = "returned"
  \/ opc[t] = "match" /\ cur[t].state = "COMPLETE"
  \/ opc[t] \in {"read", "signal", "unpark"} /\ setTo[t] = "COMPLETE"

(***************************************************************************)
(* A step teaches its thread of completion only when the word is COMPLETE. *)
(***************************************************************************)
LEMMA LearntStep ==
  ASSUME Core, OnceNext
  PROVE  \A s \in Threads : Learnt(s)' => Learnt(s) \/ word' = W("COMPLETE")
<1> USE DEF Core, OnceTypeOK, Go, walkVars, Learnt
<1>w. \A w \in Words : w.state = "COMPLETE" => w = W("COMPLETE")
  BY WordFacts
<1>1. ASSUME NEW t \in Threads, NEW f \in BOOLEAN, call_once(t, f), NEW s \in Threads, Learnt(s)'
      PROVE  Learnt(s) \/ word' = W("COMPLETE")
  BY <1>1 DEF call_once
<1>2. ASSUME NEW t \in Threads, call_inner_load(t), NEW s \in Threads, Learnt(s)'
      PROVE  Learnt(s) \/ word' = W("COMPLETE")
  BY <1>2, <1>w DEF call_inner_load
<1>3. ASSUME NEW t \in Threads, call_inner_complete(t) \/ call_inner_poisoned(t),
             NEW s \in Threads, Learnt(s)'
      PROVE  Learnt(s) \/ word' = W("COMPLETE")
  BY <1>3 DEF call_inner_complete, call_inner_poisoned
<1>4. ASSUME NEW t \in Threads, call_inner_run(t), NEW s \in Threads, Learnt(s)'
      PROVE  Learnt(s) \/ word' = W("COMPLETE")
  BY <1>4, <1>w DEF call_inner_run
<1>5. ASSUME NEW t \in Threads, call_inner_wait(t) \/ init_return(t) \/ init_fail(t),
             NEW s \in Threads, Learnt(s)'
      PROVE  Learnt(s) \/ word' = W("COMPLETE")
  BY <1>5 DEF call_inner_wait, init_return, init_fail
<1>6. ASSUME NEW t \in Threads, drop_swap(t), NEW s \in Threads, Learnt(s)'
      PROVE  Learnt(s) \/ word' = W("COMPLETE")
  BY <1>6 DEF drop_swap, AfterWalk
<1>7. ASSUME NEW t \in Threads, walk_read(t) \/ walk_signal(t) \/ walk_unpark(t),
             NEW s \in Threads, Learnt(s)'
      PROVE  Learnt(s) \/ word' = W("COMPLETE")
  BY <1>7 DEF walk_read, walk_signal, walk_unpark, AfterWalk
<1>8. ASSUME NEW t \in Threads, wait_enqueue(t), NEW s \in Threads, Learnt(s)'
      PROVE  Learnt(s) \/ word' = W("COMPLETE")
  BY <1>8 DEF wait_enqueue
<1>9. ASSUME NEW t \in Threads,
             wait_abandon(t) \/ wait_check(t) \/ park_return(t) \/ stray_unpark(t),
             NEW s \in Threads, Learnt(s)'
      PROVE  Learnt(s) \/ word' = W("COMPLETE")
  BY <1>9 DEF wait_abandon, wait_check, park_return, stray_unpark
<1> QED
  BY <1>1, <1>2, <1>3, <1>4, <1>5, <1>6, <1>7, <1>8, <1>9 DEF OnceNext, OnceStep

(***************************************************************************)
(* Every step keeps the control part of the invariant.                     *)
(***************************************************************************)
LEMMA CoreStep ==
  ASSUME Core, ListInv, [OnceNext]_onceVars
  PROVE  Core'
<1>1. OnceTypeOK'
  BY TypeStep DEF Core
<1>2. OneInitializer'
  BY InitializerStep
<1>3. ASSUME NEW s \in Threads, Learnt(s) PROVE word' = W("COMPLETE")
  <2>1. word = W("COMPLETE")
    BY <1>3 DEF Learnt, Core, ReturnMeansComplete
  <2> QED
    BY <2>1, CompleteIsFinal
<1>4. ASSUME NEW s \in Threads, Learnt(s)' PROVE word' = W("COMPLETE")
  <2>1. CASE OnceNext
    BY <1>3, <1>4, <2>1, LearntStep
  <2>2. CASE UNCHANGED onceVars
    BY <1>3, <1>4, <2>2 DEF onceVars, Learnt
  <2> QED
    BY <2>1, <2>2
<1>5. \A s \in Threads : Learnt(s)' => W("COMPLETE") = word'
  BY <1>4
<1> QED
  BY <1>1, <1>2, <1>5 DEF Core, ReturnMeansComplete, Learnt, W

-------------------------------------------------------------------------------

(***************************************************************************)
(* A step that moves no pointer and changes neither who waits for a signal *)
(* nor who walks a list keeps the list part of the invariant.              *)
(***************************************************************************)
LEMMA QuietStep ==
  ASSUME ListInv,
         word'.queue = word.queue,
         live' = live,
         UNCHANGED <<node, queue, nxt, target>>,
         \A x \in Threads :
           /\ opc'[x] \in {"waiting", "park"} <=> opc[x] \in {"waiting", "park"}
           /\ \A k \in {"read", "signal", "unpark"} : opc'[x] = k <=> opc[x] = k
  PROVE  ListInv'
<1>1. /\ \A x \in Threads : Queued(x)' <=> Queued(x)
      /\ \A n \in Threads : WordAt(n)' <=> WordAt(n)
      /\ \A w, n \in Threads : WalkerAt(w, n)' <=> WalkerAt(w, n)
      /\ \A m, n \in Threads : NodeAt(m, n)' <=> NodeAt(m, n)
  BY DEF Queued, WordAt, WalkerAt, NodeAt
<1>2. PointersLive'
  BY <1>1 DEF ListInv, PointersLive
<1>3. PointersDistinct'
  BY <1>1 DEF ListInv, PointersDistinct
<1>4. WalkerLocals'
  BY DEF ListInv, WalkerLocals
<1>5. live' = {t \in Threads : opc'[t] \in {"waiting", "park"}}
  BY DEF ListInv
<1> QED
  BY <1>2, <1>3, <1>4, <1>5 DEF ListInv

(***************************************************************************)
(* WaiterQueue::drop takes the list out of the word: the word's pointer    *)
(* becomes the walker's.                                                   *)
(***************************************************************************)
LEMMA SwapStep ==
  ASSUME Core, ListInv, NEW t \in Threads, drop_swap(t)
  PROVE  ListInv'
<1> USE DEF Core, OnceTypeOK, Go
<1>1. /\ word'.queue = Null /\ Null \notin Threads
      /\ word.queue \in Pointer
      /\ opc[t] = "drop" /\ opc' = [opc EXCEPT ![t] = AfterWalk(t, word.queue)]
      /\ queue' = [queue EXCEPT ![t] = word.queue]
      /\ UNCHANGED <<node, live, nxt, target>>
  BY WordFacts, OnceAssumption DEF drop_swap
<1>2. AfterWalk(t, word.queue) \in {"read", "returned", "out"}
      /\ (AfterWalk(t, word.queue) = "read" <=> word.queue # Null)
  BY DEF AfterWalk
<1>3. /\ \A x \in Threads : Queued(x)' <=> Queued(x)
      /\ \A n \in Threads : ~WordAt(n)'
      /\ \A w, n \in Threads : WalkerAt(w, n)' <=> (WalkerAt(w, n) \/ (w = t /\ WordAt(n)))
      /\ \A m, n \in Threads : NodeAt(m, n)' <=> NodeAt(m, n)
  BY <1>1, <1>2 DEF Queued, WordAt, WalkerAt, NodeAt
<1>4. PointersLive'
  BY <1>3 DEF ListInv, PointersLive
<1>5. PointersDistinct'
  <2>1. \A n \in Threads : ~WalkerAt(t, n)
    BY <1>1 DEF WalkerAt
  <2> QED
    BY <1>3, <2>1 DEF ListInv, PointersDistinct
<1>6. WalkerLocals'
  BY <1>1, <1>2 DEF ListInv, WalkerLocals
<1>7. live' = {x \in Threads : opc'[x] \in {"waiting", "park"}}
  BY <1>1, <1>2 DEF ListInv
<1> QED
  BY <1>4, <1>5, <1>6, <1>7 DEF ListInv

(***************************************************************************)
(* signaled.store(true): the walker moves to the next node.  The node it   *)
(* leaves had no other pointer to it, and its own is the walker's now.     *)
(***************************************************************************)
LEMMA SignalStep ==
  ASSUME Core, ListInv, NEW t \in Threads, walk_signal(t)
  PROVE  ListInv'
<1> USE DEF Core, OnceTypeOK, Go
<1> DEFINE q == queue[t]
<1>1. /\ opc[t] = "signal" /\ opc' = [opc EXCEPT ![t] = "unpark"]
      /\ q \in Threads
      /\ nxt[t] = node[q].next /\ target[t] = q
      /\ queue' = [queue EXCEPT ![t] = nxt[t]]
      /\ nxt' = [nxt EXCEPT ![t] = Null]
      /\ UNCHANGED <<word, live, target>>
  BY DEF walk_signal, ListInv, WalkerLocals, Pointer
<1>2. /\ node' = [node EXCEPT ![q].signaled = TRUE]
      /\ node'[q].signaled
      /\ \A x \in Threads : node'[x].next = node[x].next
      /\ \A x \in Threads : x # q => node'[x] = node[x]
  BY <1>1 DEF walk_signal
<1>3. WalkerAt(t, q) /\ Queued(q)
  BY <1>1 DEF WalkerAt, ListInv, PointersLive
<1>4. /\ \A x \in Threads : Queued(x)' <=> (Queued(x) /\ x # q)
      /\ \A n \in Threads : WordAt(n)' <=> WordAt(n)
      /\ \A w, n \in Threads : w # t => (WalkerAt(w, n)' <=> WalkerAt(w, n))
      /\ \A n \in Threads : WalkerAt(t, n)' <=> NodeAt(q, n)
      /\ \A m, n \in Threads : NodeAt(m, n)' <=> (NodeAt(m, n) /\ m # q)
  <2>1. \A x \in Threads : Queued(x)' <=> (Queued(x) /\ x # q)
    BY <1>1, <1>2 DEF Queued
  <2>2. \A n \in Threads : WordAt(n)' <=> WordAt(n)
    BY <1>1 DEF WordAt
  <2>3. \A w, n \in Threads : w # t => (WalkerAt(w, n)' <=> WalkerAt(w, n))
    BY <1>1 DEF WalkerAt
  <2>4. \A n \in Threads : WalkerAt(t, n)' <=> NodeAt(q, n)
    BY <1>1, <1>3 DEF WalkerAt, NodeAt
  <2>5. \A m, n \in Threads : NodeAt(m, n)' <=> (NodeAt(m, n) /\ m # q)
    BY <1>2, <2>1 DEF NodeAt
  <2> QED
    BY <2>1, <2>2, <2>3, <2>4, <2>5
<1>5. PointersLive'
  <2>1. ASSUME NEW n \in Threads, WordAt(n) PROVE Queued(n) /\ n # q
    BY <1>1, <1>3, <2>1 DEF ListInv, PointersLive, PointersDistinct
  <2>2. ASSUME NEW n \in Threads, NEW w \in Threads, w # t, WalkerAt(w, n)
        PROVE  Queued(n) /\ n # q
    BY <1>1, <1>3, <2>2 DEF ListInv, PointersLive, PointersDistinct
  <2>3. ASSUME NEW n \in Threads, NEW m \in Threads, NodeAt(m, n)
        PROVE  Queued(n) /\ n # q
    BY <1>1, <1>3, <2>3 DEF ListInv, PointersLive, PointersDistinct
  <2> QED
    BY <1>1, <1>4, <2>1, <2>2, <2>3 DEF PointersLive
<1>6. PointersDistinct'
  <2> HIDE DEF q
  <2> QED
    BY <1>1, <1>3, <1>4 DEF ListInv, PointersDistinct
<1>7. WalkerLocals'
  <2>1. ASSUME NEW w \in Threads, w # t
        PROVE  /\ opc'[w] = opc[w] /\ queue'[w] = queue[w] /\ nxt'[w] = nxt[w]
               /\ target'[w] = target[w]
    BY <1>1, <2>1
  <2>2. ASSUME NEW w \in Threads, opc[w] = "signal" PROVE queue[w] \in Threads
    BY <2>2 DEF ListInv, WalkerLocals, Pointer
  <2> QED
    BY <1>1, <1>2, <2>1, <2>2 DEF ListInv, WalkerLocals
<1>8. live' = {x \in Threads : opc'[x] \in {"waiting", "park"}}
  BY <1>1 DEF ListInv
<1> QED
  BY <1>5, <1>6, <1>7, <1>8 DEF ListInv

(***************************************************************************)
(* compare_exchange in wait: the word's pointer becomes the new node's,    *)
(* and the word points to the new node, to which there was no pointer.     *)
(***************************************************************************)
LEMMA EnqueueStep ==
  ASSUME Core, ListInv, NEW t \in Threads, wait_enqueue(t), word = cur[t]
  PROVE  ListInv'
<1> USE DEF Core, OnceTypeOK, Go
<1>1. /\ opc[t] = "queue" /\ opc' = [opc EXCEPT ![t] = "waiting"]
      /\ word'.queue = t
      /\ live' = live \union {t}
      /\ node' = [node EXCEPT ![t] = [next |-> word.queue, signaled |-> FALSE]]
      /\ UNCHANGED <<queue, nxt, target>>
  BY WordFacts DEF wait_enqueue, walkVars
<1>2. /\ node'[t].next = word.queue /\ ~node'[t].signaled
      /\ \A x \in Threads : x # t => node'[x] = node[x]
  BY <1>1
<1>3. /\ ~Queued(t) /\ t \in Threads
      /\ \A n \in Threads : ~WalkerAt(t, n)
  BY <1>1 DEF Queued, WalkerAt
<1>4. /\ \A x \in Threads : Queued(x)' <=> (Queued(x) \/ x = t)
      /\ \A n \in Threads : WordAt(n)' <=> n = t
      /\ \A w, n \in Threads : WalkerAt(w, n)' <=> WalkerAt(w, n)
      /\ \A m, n \in Threads : m # t => (NodeAt(m, n)' <=> NodeAt(m, n))
      /\ \A n \in Threads : NodeAt(t, n)' <=> WordAt(n)
  BY <1>1, <1>2 DEF Queued, WordAt, WalkerAt, NodeAt
<1>5. /\ \A n \in Threads : ~NodeAt(t, n)
      /\ ~WordAt(t)
      /\ \A w \in Threads : ~WalkerAt(w, t) /\ ~NodeAt(w, t)
  BY <1>3 DEF NodeAt, ListInv, PointersLive
<1>6. PointersLive'
  BY <1>3, <1>4 DEF ListInv, PointersLive
<1>7. PointersDistinct'
  BY <1>3, <1>4, <1>5 DEF ListInv, PointersDistinct
<1>8. WalkerLocals'
  <2>1. ASSUME NEW w \in Threads, opc[w] = "signal"
        PROVE  queue[w] \in Threads /\ queue[w] # t
    BY <1>5, <2>1 DEF ListInv, WalkerLocals, Pointer, WalkerAt
  <2> QED
    BY <1>1, <1>2, <2>1 DEF ListInv, WalkerLocals
<1>9. live' = {x \in Threads : opc'[x] \in {"waiting", "park"}}
  BY <1>1 DEF ListInv
<1> QED
  BY <1>6, <1>7, <1>8, <1>9 DEF ListInv

(***************************************************************************)
(* The while loop of wait: a node that is freed was signalled, so that     *)
(* there is no pointer to it any more.                                     *)
(***************************************************************************)
LEMMA CheckStep ==
  ASSUME Core, ListInv, NEW t \in Threads, wait_check(t), node[t].signaled
  PROVE  ListInv'
<1> USE DEF Core, OnceTypeOK, Go
<1>1. /\ opc[t] = "waiting" /\ opc' = [opc EXCEPT ![t] = "load"]
      /\ live' = live \ {t}
      /\ \A x \in Threads : x # t => node'[x] = node[x]
      /\ UNCHANGED <<word, queue, nxt, target>>
  BY DEF wait_check, walkVars
<1>2. ~Queued(t)
  BY DEF Queued
<1>3. /\ \A x \in Threads : Queued(x)' <=> Queued(x)
      /\ \A n \in Threads : WordAt(n)' <=> WordAt(n)
      /\ \A w, n \in Threads : WalkerAt(w, n)' <=> WalkerAt(w, n)
      /\ \A m, n \in Threads : NodeAt(m, n)' <=> NodeAt(m, n)
  BY <1>1, <1>2 DEF Queued, WordAt, WalkerAt, NodeAt
<1>4. PointersLive'
  BY <1>3 DEF ListInv, PointersLive
<1>5. PointersDistinct'
  BY <1>3 DEF ListInv, PointersDistinct
<1>6. WalkerLocals'
  <2>1. ASSUME NEW w \in Threads, opc[w] = "signal"
        PROVE  queue[w] \in Threads /\ queue[w] # t
    BY <1>2, <2>1 DEF ListInv, WalkerLocals, Pointer, WalkerAt, PointersLive
  <2> QED
    BY <1>1, <2>1 DEF ListInv, WalkerLocals
<1>7. live' = {x \in Threads : opc'[x] \in {"waiting", "park"}}
  BY <1>1 DEF ListInv
<1> QED
  BY <1>4, <1>5, <1>6, <1>7 DEF ListInv

(***************************************************************************)
(* The two steps of the walker that leave the nodes alone.                 *)
(***************************************************************************)
LEMMA WalkStep ==
  ASSUME Core, ListInv, NEW t \in Threads, walk_read(t) \/ walk_unpark(t)
  PROVE  ListInv'
<1> USE DEF Core, OnceTypeOK, Go
<1>a. UNCHANGED <<word, node, live, queue>>
  BY DEF walk_read, walk_unpark
<1>1. CASE walk_read(t)
  <2>1. queue[t] \in Threads
    BY <1>1 DEF walk_read, ListInv, WalkerLocals, Pointer
  <2>2. /\ opc[t] = "read" /\ opc' = [opc EXCEPT ![t] = "signal"]
        /\ nxt' = [nxt EXCEPT ![t] = node[queue[t]].next]
        /\ target' = [target EXCEPT ![t] = queue[t]]
    BY <1>1 DEF walk_read
  <2>3. /\ \A x \in Threads : Queued(x)' <=> Queued(x)
        /\ \A n \in Threads : WordAt(n)' <=> WordAt(n)
        /\ \A w, n \in Threads : WalkerAt(w, n)' <=> WalkerAt(w, n)
        /\ \A m, n \in Threads : NodeAt(m, n)' <=> NodeAt(m, n)
    BY <1>a, <2>2 DEF Queued, WordAt, WalkerAt, NodeAt
  <2>4. PointersLive' /\ PointersDistinct'
    BY <2>3 DEF ListInv, PointersLive, PointersDistinct
  <2>5. WalkerLocals'
    BY <1>a, <2>2 DEF ListInv, WalkerLocals
  <2>6. live' = {x \in Threads : opc'[x] \in {"waiting", "park"}}
    BY <1>a, <2>2 DEF ListInv
  <2> QED
    BY <2>4, <2>5, <2>6 DEF ListInv
<1>2. CASE walk_unpark(t)
  <2>1. /\ opc[t] = "unpark" /\ opc' = [opc EXCEPT ![t] = AfterWalk(t, queue[t])]
        /\ target' = [target EXCEPT ![t] = Null]
        /\ nxt' = nxt
    BY <1>2 DEF walk_unpark
  <2>2. /\ AfterWalk(t, queue[t]) \in {"read", "returned", "out"}
        /\ AfterWalk(t, queue[t]) = "read" <=> queue[t] # Null
    BY DEF AfterWalk
  <2>3. /\ \A x \in Threads : Queued(x)' <=> Queued(x)
        /\ \A n \in Threads : WordAt(n)' <=> WordAt(n)
        /\ \A w, n \in Threads : WalkerAt(w, n)' <=> WalkerAt(w, n)
        /\ \A m, n \in Threads : NodeAt(m, n)' <=> NodeAt(m, n)
    BY <1>a, <2>1, <2>2, OnceAssumption DEF Queued, WordAt, WalkerAt, NodeAt
  <2>4. PointersLive' /\ PointersDistinct'
    BY <2>3 DEF ListInv, PointersLive, PointersDistinct
  <2>5. WalkerLocals'
    BY <1>a, <2>1, <2>2 DEF ListInv, WalkerLocals
  <2>6. live' = {x \in Threads : opc'[x] \in {"waiting", "park"}}
    BY <1>a, <2>1, <2>2 DEF ListInv
  <2> QED
    BY <2>4, <2>5, <2>6 DEF ListInv
<1> QED
  BY <1>1, <1>2

(***************************************************************************)
(* Every step keeps the list part of the invariant.                        *)
(***************************************************************************)
LEMMA ListStep ==
  ASSUME Core, ListInv, [OnceNext]_onceVars
  PROVE  ListInv'
<1> USE DEF Core, OnceTypeOK, Go, walkVars
<1>1. ASSUME NEW t \in Threads, NEW f \in BOOLEAN, call_once(t, f) PROVE ListInv'
  BY <1>1, QuietStep DEF call_once, Outside
<1>2. ASSUME NEW t \in Threads,
             \/ call_inner_load(t) \/ call_inner_complete(t)
             \/ call_inner_poisoned(t) \/ call_inner_wait(t)
             \/ init_return(t) \/ init_fail(t) \/ wait_abandon(t)
      PROVE ListInv'
  <2>1. /\ UNCHANGED <<word, node, live, queue, nxt, target>>
        /\ \E k \in {"match", "returned", "out", "queue", "drop", "load"} :
             opc' = [opc EXCEPT ![t] = k]
        /\ opc[t] \in {"load", "match", "init", "queue"}
    BY <1>2 DEF call_inner_load, call_inner_complete, call_inner_poisoned,
                call_inner_wait, init_return, init_fail, wait_abandon
  <2> QED
    BY <2>1, QuietStep
<1>3. ASSUME NEW t \in Threads, call_inner_run(t) PROVE ListInv'
  <2>1. /\ UNCHANGED <<node, live, queue, nxt, target>>
        /\ opc[t] = "match"
        /\ \E k \in {"match", "init"} : opc' = [opc EXCEPT ![t] = k]
    BY <1>3 DEF call_inner_run
  <2>2. word'.queue = word.queue
    BY <1>3, WordFacts DEF call_inner_run, MayRun
  <2> QED
    BY <2>1, <2>2, QuietStep
<1>4. ASSUME NEW t \in Threads, wait_enqueue(t) PROVE ListInv'
  <2>1. CASE word = cur[t]
    BY <1>4, <2>1, EnqueueStep
  <2>2. CASE word # cur[t]
    <3>1. UNCHANGED <<word, node, live, opc, queue, nxt, target>>
      BY <1>4, <2>2 DEF wait_enqueue
    <3> QED
      BY <3>1, QuietStep
  <2> QED
    BY <2>1, <2>2
<1>5. ASSUME NEW t \in Threads, wait_check(t) PROVE ListInv'
  <2>1. CASE node[t].signaled
    BY <1>5, <2>1, CheckStep
  <2>2. CASE ~node[t].signaled
    <3>1. /\ UNCHANGED <<word, live, queue, nxt, target>>
          /\ node' = node
          /\ opc[t] = "waiting" /\ opc' = [opc EXCEPT ![t] = "park"]
      BY <1>5, <2>2 DEF wait_check
    <3> QED
      BY <3>1, QuietStep
  <2> QED
    BY <2>1, <2>2
<1>6. ASSUME NEW t \in Threads, park_return(t) PROVE ListInv'
  BY <1>6, QuietStep DEF park_return
<1>7. ASSUME NEW t \in Threads, stray_unpark(t) PROVE ListInv'
  BY <1>7, QuietStep DEF stray_unpark
<1>8. CASE UNCHANGED onceVars
  BY <1>8, QuietStep DEF onceVars
<1> QED
  BY <1>1, <1>2, <1>3, <1>4, <1>5, <1>6, <1>7, <1>8, SwapStep, SignalStep, WalkStep
  DEF OnceNext, OnceStep

(***************************************************************************)
(* A step that takes no token, ends no unpark and parks no signalled       *)
(* thread keeps the promise of a token.                                    *)
(***************************************************************************)
LEMMA QuietToken ==
  ASSUME SignalledIsUnparked, token' = token, target' = target,
         \A s \in Threads :
           /\ opc'[s] = "park" /\ node'[s].signaled => opc[s] = "park" /\ node[s].signaled
           /\ opc[s] = "unpark" => opc'[s] = "unpark"
  PROVE  SignalledIsUnparked'
<1> SUFFICES ASSUME NEW s \in Threads, opc'[s] = "park", node'[s].signaled
             PROVE  token'[s] \/ \E w \in Threads : opc'[w] = "unpark" /\ target'[w] = s
  BY DEF SignalledIsUnparked
<1>1. token[s] \/ \E w \in Threads : opc[w] = "unpark" /\ target[w] = s
  BY DEF SignalledIsUnparked
<1> QED
  BY <1>1

(***************************************************************************)
(* Every step leaves a parked thread whose node is signalled with a token, *)
(* or with a waker about to give it one.                                   *)
(***************************************************************************)
LEMMA TokenStep ==
  ASSUME Core, ListInv, SignalledIsUnparked, [OnceNext]_onceVars
  PROVE  SignalledIsUnparked'
<1> USE DEF Core, OnceTypeOK, Go, walkVars, SignalledIsUnparked
<1>1. ASSUME NEW t \in Threads, NEW f \in BOOLEAN, call_once(t, f)
      PROVE SignalledIsUnparked'
  BY <1>1 DEF call_once, Outside
<1>2. ASSUME NEW t \in Threads,
             \/ call_inner_load(t) \/ call_inner_complete(t)
             \/ call_inner_poisoned(t) \/ call_inner_wait(t)
             \/ init_return(t) \/ init_fail(t) \/ wait_abandon(t)
             \/ call_inner_run(t) \/ drop_swap(t)
      PROVE SignalledIsUnparked'
  <2>1. /\ UNCHANGED <<node, token, target>>
        /\ opc[t] \notin {"unpark", "park"} /\ opc'[t] # "park"
        /\ \A s \in Threads : s # t => opc'[s] = opc[s]
    <3>1. CASE \/ call_inner_load(t) \/ call_inner_complete(t)
               \/ call_inner_poisoned(t) \/ call_inner_wait(t)
      BY <3>1 DEF call_inner_load, call_inner_complete, call_inner_poisoned,
                  call_inner_wait
    <3>2. CASE init_return(t) \/ init_fail(t) \/ wait_abandon(t)
      BY <3>2 DEF init_return, init_fail, wait_abandon
    <3>3. CASE call_inner_run(t) \/ drop_swap(t)
      BY <3>3 DEF call_inner_run, drop_swap, AfterWalk
    <3> QED
      BY <1>2, <3>1, <3>2, <3>3
  <2>2. \A s \in Threads :
          /\ opc'[s] = "park" => opc[s] = "park"
          /\ opc[s] = "unpark" => opc'[s] = "unpark"
    BY <2>1
  <2> QED
    BY <2>1, <2>2, QuietToken
<1>3. ASSUME NEW t \in Threads, walk_read(t) PROVE SignalledIsUnparked'
  BY <1>3 DEF walk_read
<1>4. ASSUME NEW t \in Threads, walk_signal(t) PROVE SignalledIsUnparked'
  <2>1. queue[t] \in Threads /\ target[t] = queue[t]
    BY <1>4 DEF walk_signal, ListInv, WalkerLocals, Pointer
  <2>2. /\ \A x \in Threads : x # queue[t] => node'[x] = node[x]
        /\ opc' = [opc EXCEPT ![t] = "unpark"] /\ opc[t] = "signal"
        /\ token' = token /\ target' = target
    BY <1>4, <2>1 DEF walk_signal
  <2>3. opc'[t] = "unpark" /\ target'[t] = queue[t]
    BY <2>1, <2>2
  <2>4. ASSUME NEW s \in Threads, opc'[s] = "park", node'[s].signaled, s # queue[t]
        PROVE  token[s] \/ \E w \in Threads : opc'[w] = "unpark" /\ target'[w] = s
    <3>1. opc[s] = "park" /\ node[s].signaled
      BY <2>2, <2>4
    <3>2. \A w \in Threads : opc[w] = "unpark" => opc'[w] = "unpark" /\ target'[w] = target[w]
      BY <2>2
    <3> QED
      BY <3>1, <3>2
  <2> QED
    BY <2>1, <2>2, <2>3, <2>4
<1>5. ASSUME NEW t \in Threads, walk_unpark(t) PROVE SignalledIsUnparked'
  <2>1. target[t] \in Threads
    BY <1>5 DEF walk_unpark, ListInv, WalkerLocals
  <2>2. opc'[t] # "park" /\ \A s \in Threads : s # t => opc'[s] = opc[s]
    BY <1>5 DEF walk_unpark, AfterWalk
  <2> QED
    BY <1>5, <2>1, <2>2 DEF walk_unpark
<1>6. ASSUME NEW t \in Threads, wait_enqueue(t) PROVE SignalledIsUnparked'
  <2>1. /\ UNCHANGED <<token, target>>
        /\ opc[t] = "queue" /\ opc'[t] # "park"
        /\ \A s \in Threads : s # t => opc'[s] = opc[s] /\ node'[s] = node[s]
    BY <1>6 DEF wait_enqueue
  <2>2. \A s \in Threads :
          /\ opc'[s] = "park" => opc[s] = "park" /\ node'[s] = node[s]
          /\ opc[s] = "unpark" => opc'[s] = "unpark"
    BY <2>1
  <2> QED
    BY <2>1, <2>2, QuietToken
<1>7. ASSUME NEW t \in Threads, wait_check(t) PROVE SignalledIsUnparked'
  <2>1. /\ UNCHANGED <<token, target>>
        /\ opc[t] = "waiting" /\ opc'[t] # "unpark"
        /\ opc'[t] = "park" => ~node[t].signaled /\ node'[t] = node[t]
        /\ \A s \in Threads : s # t => opc'[s] = opc[s] /\ node'[s] = node[s]
    BY <1>7 DEF wait_check
  <2> QED
    BY <2>1
<1>8. ASSUME NEW t \in Threads, park_return(t) PROVE SignalledIsUnparked'
  BY <1>8 DEF park_return
<1>9. ASSUME NEW t \in Threads, stray_unpark(t) PROVE SignalledIsUnparked'
  BY <1>9 DEF stray_unpark
<1>10. CASE UNCHANGED onceVars
  BY <1>10 DEF onceVars
<1> HIDE DEF Core, OnceTypeOK, Go, walkVars, SignalledIsUnparked
<1> QED
  BY <1>1, <1>2, <1>3, <1>4, <1>5, <1>6, <1>7, <1>8, <1>9, <1>10
  DEF OnceNext, OnceStep

-------------------------------------------------------------------------------

OnceInv == Core /\ ListInv /\ SignalledIsUnparked

(***************************************************************************)
(* Once keeps its inductive invariant.                                     *)
(***************************************************************************)
THEOREM OnceInvariant == OnceSpec => []OnceInv
<1>1. OnceInit => OnceInv
  <2> SUFFICES ASSUME OnceInit PROVE OnceInv
    OBVIOUS
  <2> USE DEF OnceInit
  <2>1. OnceTypeOK
    BY WordFacts DEF OnceTypeOK, OncePC, Outside, Pointer, Dead, NoNode
  <2>2. word.state = "INCOMPLETE" /\ word.queue = Null
    BY WordFacts
  <2>3. Core
    BY <2>1, <2>2 DEF Core, OneInitializer, Initializing, ReturnMeansComplete
  <2>4. ListInv
    BY <2>2, OnceAssumption DEF ListInv, PointersLive, PointersDistinct, WalkerLocals,
       WordAt, WalkerAt, NodeAt, Queued
  <2> QED
    BY <2>3, <2>4 DEF OnceInv, SignalledIsUnparked
<1>2. OnceInv /\ [OnceNext]_onceVars => OnceInv'
  BY CoreStep, ListStep, TokenStep DEF OnceInv
<1> QED
  BY <1>1, <1>2, PTL DEF OnceSpec

(***************************************************************************)
(* At most one closure runs, and the word says so: neither assertion of    *)
(* call_inner and WaiterQueue::drop can fail.                              *)
(***************************************************************************)
THEOREM OnceExcludes == OnceSpec => []OneInitializer
<1>1. OnceInv => OneInitializer
  BY DEF OnceInv, Core
<1> QED
  BY <1>1, OnceInvariant, PTL

(***************************************************************************)
(* A call that has returned normally leaves a Once that is COMPLETE for    *)
(* ever.                                                                   *)
(***************************************************************************)
THEOREM OnceCompletes == OnceSpec => []ReturnMeansComplete
<1>1. OnceInv => ReturnMeansComplete
  BY DEF OnceInv, Core
<1> QED
  BY <1>1, OnceInvariant, PTL

(***************************************************************************)
(* WaiterQueue::drop only touches nodes that are still on their threads'   *)
(* stacks.                                                                 *)
(***************************************************************************)
THEOREM OnceWalksLiveNodes == OnceSpec => []WalkerAtLiveNode
<1>1. OnceInv => WalkerAtLiveNode
  <2> SUFFICES ASSUME OnceInv, NEW t \in Threads, opc[t] \in {"read", "signal"}
               PROVE  queue[t] \in live /\ ~node[queue[t]].signaled
    BY DEF WalkerAtLiveNode
  <2>1. queue[t] \in Threads
    BY DEF OnceInv, Core, OnceTypeOK, ListInv, WalkerLocals, Pointer
  <2>2. WalkerAt(t, queue[t])
    BY DEF WalkerAt
  <2>3. Queued(queue[t])
    BY <2>1, <2>2 DEF OnceInv, ListInv, PointersLive
  <2> QED
    BY <2>1, <2>3 DEF Queued, OnceInv, ListInv
<1> QED
  BY <1>1, OnceInvariant, PTL

(***************************************************************************)
(* No waiter stays parked for want of an unpark.                           *)
(***************************************************************************)
THEOREM OnceUnparksWaiters == OnceSpec => []SignalledIsUnparked
<1>1. OnceInv => SignalledIsUnparked
  BY DEF OnceInv
<1> QED
  BY <1>1, OnceInvariant, PTL

===============================================================================
