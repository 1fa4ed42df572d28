--------------------------- MODULE SyncChannelProofs ---------------------------
(***************************************************************************)
(* The synchronous channel, for any set of senders, any bound and any      *)
(* number of messages: none of its assertions fails, a rendezvous hands    *)
(* its message over, and Disconnected is final.                            *)
(***************************************************************************)
EXTENDS SyncChannel, FiniteSetTheorems, TLAPS

(* The current token of t has been signalled by nobody, nor is it about to be. *)
Waits(t) == ~ woken[t] /\ \A u \in Threads : t \notin sig[u]

(* In wait, with the data in the buffer or received from it. *)
Paired(s) == spc[s] \in {"blocked", "relock"}

(* The receiver has begun to wait and not yet looked at the buffer again. *)
InWait == rpc \in {"waiting", "woken", "late"}

(* The senders that are counted. *)
Live == {s \in Senders : spc[s] \notin {"none", "last", "gone"}}

SyncTypeOK ==
  /\ cap \in Nat /\ disconnected \in BOOLEAN
  /\ queue \in Seq(Senders) /\ buf \in Seq(Senders \X Nat)
  /\ blocker \in Threads \union {None} /\ canceled \in Senders \union {None}
  /\ flag \in [Senders -> BOOLEAN]
  /\ woken \in [Threads -> BOOLEAN] /\ sig \in [Threads -> SUBSET Threads]
  /\ spc \in [Senders -> {"none", "idle", "acquire", "queued", "blocked", "relock",
                          "last", "gone"}]
  /\ rpc \in {"idle", "waiting", "woken", "late", "gone"}
  /\ acked \in [Senders -> Nat] /\ got \in [Senders -> Nat]

(* A sender is in the queue once, until it is taken out to be signalled. *)
QueueInv ==
  /\ \A i, j \in DOMAIN queue : queue[i] = queue[j] => i = j
  /\ \A i \in DOMAIN queue : spc[queue[i]] = "queued" /\ Waits(queue[i])

(* Who is blocked, on what, and that a receiver is not left to wait. *)
BlockInv ==
  /\ disconnected => blocker = None
  /\ rpc = "gone" => disconnected
  /\ canceled # None => blocker = canceled
  /\ blocker \in Senders =>
       /\ cap = 0 /\ canceled = blocker /\ spc[blocker] = "blocked" /\ ~ flag[blocker]
       /\ Waits(blocker) /\ rpc = "idle" /\ buf = << <<blocker, acked[blocker] + 1>> >>
  /\ blocker = Rx => rpc \in {"waiting", "late"} /\ buf = <<>> /\ Waits(Rx)
  /\ InWait /\ blocker # Rx => buf # <<>> \/ disconnected

(* What the buffer of a channel of capacity 0 holds: a message that the     *)
(* receiver was woken for, one that is offered to it, or one that is to be  *)
(* taken back.                                                              *)
PairInv ==
  /\ cap = 0 =>
       \/ buf = <<>>
       \/ \E s \in Senders : buf = << <<s, acked[s]>> >> /\ InWait /\ ~ Paired(s)
       \/ blocker \in Senders
       \/ \E s \in Senders : Paired(s) /\ flag[s]
  /\ \A s \in Senders : Paired(s) =>
       /\ cap = 0
       /\ flag[s] => rpc = "gone" /\ buf = << <<s, acked[s] + 1>> >>
       /\ ~ flag[s] /\ blocker # s => got[s] = acked[s] + 1

(* The buffer holds what was sent and not received, in the order sent. *)
Ascending ==
  \A i, j \in DOMAIN buf : i < j /\ buf[i][1] = buf[j][1] => buf[i][2] < buf[j][2]

Unreceived ==
  \A i \in DOMAIN buf :
    /\ got[buf[i][1]] < buf[i][2]
    /\ buf[i][2] > acked[buf[i][1]] =>
         Paired(buf[i][1]) /\ buf[i][2] = acked[buf[i][1]] + 1

Accounted ==
  rpc # "gone" =>
    \A s \in Senders : Paired(s) \/ got[s] = acked[s]
                       \/ \E i \in DOMAIN buf : buf[i] = <<s, acked[s]>>

OrderInv == Ascending /\ Unreceived /\ Accounted

(* The count, and what is known when it is zero. *)
LiveInv ==
  /\ IsFiniteSet(Live) /\ channels = Cardinality(Live)
  /\ (\E s \in Senders : spc[s] = "last") \/ (disconnected /\ rpc # "gone") => Live = {}

SyncInv ==
  /\ SyncTypeOK /\ QueueInv /\ BlockInv /\ PairInv /\ OrderInv /\ LiveInv
  /\ HandedOver /\ HungUpIsFinal

-------------------------------------------------------------------------------
(* The steps, by what they do to the state rather than by call. *)

(* A sender goes on in its call, or begins or ends it, and that is all. *)
Move(s) ==
  /\ \/ /\ spc[s] \in {"idle", "acquire"}
        /\ \E pc \in {"idle", "acquire"} : Go(s, pc)
     \/ spc[s] = "queued" /\ woken[s] /\ Go(s, "acquire")
     \/ spc[s] = "blocked" /\ woken[s] /\ Go(s, "relock")
  /\ UNCHANGED <<lockVars, channels, flag, woken, sig, rxVars, acked>>

(* A message is buffered: for later, for a receiver that waits, or for one to come. *)
Store(s) ==
  /\ spc[s] \in {"idle", "acquire"} /\ ~ disconnected
  /\ blocker = None /\ cap # 0
  /\ Enqueue(s) /\ Go(s, "idle") /\ Ok(s)
  /\ UNCHANGED <<cap, disconnected, queue, blocker, canceled, channels, flag, woken, sig,
                 rxVars>>

Deliver(s) ==
  /\ spc[s] \in {"idle", "acquire"} /\ ~ disconnected
  /\ WakeReceiver(s)
  /\ Enqueue(s) /\ Go(s, "idle") /\ Ok(s)
  /\ UNCHANGED <<cap, disconnected, queue, canceled, channels, flag, rxVars>>

Offer(s) ==
  /\ spc[s] = "acquire" /\ ~ disconnected
  /\ blocker = None /\ cap = 0 /\ buf = <<>>
  /\ buf' = << <<s, acked[s] + 1>> >>
  /\ flag' = [flag EXCEPT ![s] = FALSE] /\ canceled' = s /\ blocker' = s
  /\ tokens(s) /\ Go(s, "blocked")
  /\ UNCHANGED <<cap, disconnected, queue, channels, acked, rxVars>>

(* A receiver blocks, takes a message, or returns without one. *)
Block ==
  /\ rpc = "idle" /\ ~ disconnected /\ buf = <<>> /\ blocker = None
  /\ blocker' = Rx /\ tokens(Rx) /\ rpc' = "waiting" /\ result' = "none"
  /\ UNCHANGED <<cap, disconnected, queue, buf, canceled, channels, flag, spc, acked, got>>

PickUp(waited) ==
  /\ rpc \in (IF waited THEN {"woken"} ELSE {"idle", "late"})
  /\ sig[Rx] = {} /\ buf # <<>> /\ blocker # Rx
  /\ Dequeue(waited, blocker)
  /\ UNCHANGED <<channels, flag, woken, spc, acked>>

GiveUp ==
  /\ rpc \in {"idle", "woken", "late"} /\ buf = <<>>
  /\ rpc' = "idle" /\ result' \in {"empty", "disconnected"}
  /\ result' = "disconnected" => disconnected
  /\ blocker' = IF blocker = Rx THEN None ELSE blocker
  /\ UNCHANGED <<cap, disconnected, queue, buf, canceled, channels, flag, woken, sig, spc,
                 acked, got>>

SyncStep ==
  \/ \E u, t \in Threads : signal(u, t)
  \/ \E s \in Senders : \/ Move(s) \/ Store(s) \/ Deliver(s) \/ Offer(s)
                        \/ send_queue(s) \/ send_relock(s)
                        \/ drop_sender(s) \/ drop_chan(s)
                        \/ \E c \in Senders : clone_chan(s, c)
  \/ Block \/ PickUp(TRUE) \/ PickUp(FALSE) \/ GiveUp
  \/ recv_woken \/ drop_port \/ UNCHANGED syncVars

(***************************************************************************)
(* Every step of the specification is one of these.                        *)
(***************************************************************************)
LEMMA StepCases ==
  ASSUME SyncTypeOK, BlockInv, PairInv, [SyncNext]_syncVars
  PROVE  SyncStep
<1>r. blocker \in Senders \union {Rx, None} /\ Rx \in Threads
  BY DEF SyncTypeOK, Threads
<1>1. ASSUME NEW s \in Senders, send(s) \/ send_refused(s) \/ send_woken(s) PROVE Move(s)
  BY <1>1 DEF send, send_refused, send_woken, Move, TxAt
<1>2. ASSUME NEW s \in Senders, send_enqueue(s) PROVE Store(s) \/ Deliver(s) \/ Offer(s)
  <2>1. CASE blocker = None /\ cap = 0
    <3>1. buf \in Seq(Senders \X Nat) /\ Len(buf) < 1
      BY <1>2, <2>1 DEF send_enqueue, capacity, SyncTypeOK
    <3>2. buf = <<>>
      BY <3>1
    <3>3. buf' = << <<s, acked[s] + 1>> >>
      BY <1>2, <3>2 DEF send_enqueue, Enqueue
    <3> QED
      BY <1>2, <2>1, <3>2, <3>3, SyncAssumption DEF send_enqueue, Offer, TxAt, WakeReceiver
  <2>2. CASE ~ (blocker = None /\ cap = 0)
    BY <1>2, <2>2 DEF send_enqueue, Store, Deliver, TxAt, WakeReceiver
  <2> QED
    BY <2>1, <2>2
<1>3. ASSUME NEW s \in Senders, try_send(s) PROVE Store(s) \/ Deliver(s)
  <2>1. spc' = [spc EXCEPT ![s] = "idle"] /\ spc[s] = "idle"
    BY <1>3 DEF try_send, TxAt, SyncTypeOK
  <2> QED
    BY <1>3, <2>1 DEF try_send, Store, Deliver, WakeReceiver, Go
<1>4. ASSUME try_recv PROVE PickUp(FALSE) \/ GiveUp
  BY <1>4 DEF try_recv, PickUp, GiveUp, RxAt, Fail, Return, BlockInv, lockVars
<1>5. ASSUME NEW c, recv(c) PROVE Block \/ PickUp(FALSE) \/ GiveUp
  <2>1. rpc = "idle" => blocker # Rx
    BY DEF BlockInv
  <2>2. buf = <<>> => blocker \notin Senders
    BY DEF BlockInv
  <2>3. CASE ~ disconnected /\ buf = <<>>
    BY <1>5, <1>r, <2>1, <2>2, <2>3 DEF recv, Block, RxAt
  <2>4. CASE buf # <<>>
    BY <1>5, <2>1, <2>4 DEF recv, PickUp, RxAt
  <2>5. CASE disconnected /\ buf = <<>>
    BY <1>5, <2>1, <2>5 DEF recv, GiveUp, RxAt, Fail, Return, lockVars
  <2> QED
    BY <2>3, <2>4, <2>5 DEF SyncTypeOK
<1>6. ASSUME recv_relock(TRUE) PROVE PickUp(TRUE) \/ GiveUp
  BY <1>6 DEF recv_relock, PickUp, GiveUp, RxAt, Return, BlockInv
<1>7. ASSUME recv_relock(FALSE) PROVE PickUp(FALSE) \/ GiveUp
  <2>1. CASE buf # <<>>
    <3>1. blocker # Rx /\ abort_selection = blocker
      BY <2>1 DEF BlockInv, abort_selection
    <3> QED
      BY <1>7, <2>1, <3>1 DEF recv_relock, PickUp, RxAt
  <2>2. CASE buf = <<>>
    BY <1>7, <2>2 DEF recv_relock, GiveUp, RxAt, Return, abort_selection
  <2> QED
    BY <2>1, <2>2
<1>8. AllGone => UNCHANGED syncVars
  BY DEF AllGone
<1>9. Senders \subseteq Threads /\ Rx \in Threads
  BY DEF Threads
<1> QED
  BY <1>1, <1>2, <1>3, <1>4, <1>5, <1>6, <1>7, <1>8, <1>9
  DEF SyncNext, SendStep, RecvStep, Client, SyncStep

(***************************************************************************)
(* What taking the first message of the buffer does.                       *)
(***************************************************************************)
LEMMA PickUpFacts ==
  ASSUME SyncTypeOK, NEW w \in BOOLEAN, PickUp(w)
  PROVE  /\ buf[1][1] \in Senders /\ buf[1][2] \in Nat /\ 1 \in DOMAIN buf
         /\ buf' = Tail(buf) /\ buf' \in Seq(Senders \X Nat)
         /\ got' = [got EXCEPT ![buf[1][1]] = buf[1][2]]
         /\ queue' = IF queue = <<>> THEN queue ELSE Tail(queue)
         /\ sig' = [sig EXCEPT ![Rx] =
                      (IF queue = <<>> THEN {} ELSE {queue[1]})
                        \union (IF cap = 0 /\ ~ w THEN {blocker} \ {None} ELSE {})]
         /\ blocker' = IF cap = 0 /\ ~ w THEN None ELSE blocker
         /\ canceled' = IF cap = 0 /\ ~ w /\ blocker # None THEN None ELSE canceled
         /\ rpc' = "idle" /\ result' = "none"
         /\ UNCHANGED <<cap, disconnected, channels, flag, woken, spc, acked>>
<1>1. buf \in Seq(Senders \X Nat) /\ buf # <<>>
  BY DEF PickUp, SyncTypeOK
<1>2. buf[1] \in Senders \X Nat /\ 1 \in DOMAIN buf /\ Tail(buf) \in Seq(Senders \X Nat)
  BY <1>1
<1>3. buf[1][1] \in Senders /\ buf[1][2] \in Nat
  BY <1>2
<1>4. /\ buf' = Tail(buf) /\ got' = [got EXCEPT ![buf[1][1]] = buf[1][2]]
      /\ rpc' = "idle" /\ result' = "none"
      /\ UNCHANGED <<cap, disconnected, channels, flag, woken, spc, acked>>
  BY DEF PickUp, Dequeue, Receive
<1>5. /\ queue' = IF queue = <<>> THEN queue ELSE Tail(queue)
      /\ sig' = [sig EXCEPT ![Rx] =
                      (IF queue = <<>> THEN {} ELSE {queue[1]})
                        \union (IF cap = 0 /\ ~ w THEN {blocker} \ {None} ELSE {})]
      /\ blocker' = IF cap = 0 /\ ~ w THEN None ELSE blocker
      /\ canceled' = IF cap = 0 /\ ~ w /\ blocker # None THEN None ELSE canceled
  BY DEF PickUp, Dequeue, wakeup_senders
<1> QED
  BY <1>2, <1>3, <1>4, <1>5

(***************************************************************************)
(* To whom a thread sends signals may change.                              *)
(***************************************************************************)
LEMMA SignalTypes ==
  ASSUME NEW T, NEW f \in [T -> SUBSET T], NEW u \in T, NEW S \in SUBSET T
  PROVE  [f EXCEPT ![u] = S] \in [T -> SUBSET T]
OBVIOUS

(***************************************************************************)
(* Every step keeps the types.                                             *)
(***************************************************************************)
LEMMA SyncTypeStep ==
  ASSUME SyncTypeOK, PairInv, SyncStep
  PROVE  SyncTypeOK'
<1>t. Senders \subseteq Threads /\ Rx \in Threads /\ Rx \notin Senders
  BY SyncAssumption DEF Threads
<1> USE DEF SyncTypeOK, lockVars, rxVars
<1>1. ASSUME NEW u \in Threads, NEW t \in Threads, signal(u, t) PROVE SyncTypeOK'
  BY <1>1 DEF signal
<1>2. ASSUME NEW s \in Senders, Move(s) PROVE SyncTypeOK'
  BY <1>2 DEF Move, Go
<1>3. ASSUME NEW s \in Senders, Store(s) \/ Deliver(s) PROVE SyncTypeOK'
  <2>1. <<s, acked[s] + 1>> \in Senders \X Nat /\ acked[s] + 1 \in Nat
    OBVIOUS
  <2>2. buf' = Append(buf, <<s, acked[s] + 1>>)
    BY <1>3 DEF Store, Deliver, Enqueue
  <2>6. buf' \in Seq(Senders \X Nat)
    BY <2>1, <2>2
  <2>3. acked' \in [Senders -> Nat] /\ spc' = [spc EXCEPT ![s] = "idle"]
    BY <1>3, <2>1 DEF Store, Deliver, Ok, Go
  <2>4. /\ sig' = sig \/ sig' = [sig EXCEPT ![s] = sig[s] \union {Rx}]
        /\ blocker' = None
    BY <1>3 DEF Store, Deliver, WakeReceiver
  <2>7. sig' \in [Threads -> SUBSET Threads]
    <3>1. sig[s] \union {Rx} \in SUBSET Threads
      BY <1>t
    <3>2. [sig EXCEPT ![s] = sig[s] \union {Rx}] \in [Threads -> SUBSET Threads]
      BY <3>1, <1>t, SignalTypes
    <3> QED
      BY <3>2, <2>4
  <2>5. UNCHANGED <<cap, disconnected, queue, canceled, flag, woken, rpc, got>>
    BY <1>3 DEF Store, Deliver, WakeReceiver
  <2> QED
    BY <2>3, <2>4, <2>5, <2>6, <2>7
<1>4. ASSUME NEW s \in Senders, Offer(s) PROVE SyncTypeOK'
  <2>1. <<s, acked[s] + 1>> \in Senders \X Nat
    OBVIOUS
  <2>2. buf' \in Seq(Senders \X Nat)
    BY <1>4, <2>1 DEF Offer
  <2> QED
    BY <1>4, <2>2, <1>t DEF Offer, tokens, Go
<1>5. ASSUME NEW s \in Senders, send_queue(s) PROVE SyncTypeOK'
  BY <1>5, <1>t DEF send_queue, tokens, Go
<1>6. ASSUME NEW s \in Senders, send_relock(s) PROVE SyncTypeOK'
  <2>0. spc[s] = "relock"
    BY <1>6 DEF send_relock, TxAt
  <2>1. spc' = [spc EXCEPT ![s] = "idle"]
    BY <1>6 DEF send_relock, Go
  <2>2. UNCHANGED <<cap, disconnected, queue, blocker, canceled, flag, woken, sig, rpc, got>>
    BY <1>6 DEF send_relock
  <2>3. CASE flag[s]
    <3>1. buf' = Tail(buf) /\ acked' = acked
      BY <1>6, <2>3 DEF send_relock
    <3>2. buf # <<>>
      <4>1. buf = << <<s, acked[s] + 1>> >>
        BY <2>0, <2>3, Zenon DEF PairInv, Paired
      <4> QED
        BY <4>1
    <3>3. Tail(buf) \in Seq(Senders \X Nat)
      BY <3>2
    <3> QED
      BY <2>1, <2>2, <3>1, <3>3
  <2>4. CASE ~ flag[s]
    <3>1. buf' = buf /\ acked' = [acked EXCEPT ![s] = acked[s] + 1]
      BY <1>6, <2>4 DEF send_relock, Ok
    <3> QED
      BY <2>1, <2>2, <3>1
  <2> QED
    BY <2>3, <2>4
<1>7. ASSUME NEW s \in Senders, drop_sender(s) \/ drop_chan(s) PROVE SyncTypeOK'
  <2>1. /\ sig' = sig \/ sig' = [sig EXCEPT ![s] = sig[s] \union {Rx}]
        /\ blocker' \in {blocker, None} /\ disconnected' \in {disconnected, TRUE}
        /\ \E pc \in {"last", "gone"} : spc' = [spc EXCEPT ![s] = pc]
    BY <1>7 DEF drop_sender, drop_chan, Go, WakeReceiver
  <2>2. UNCHANGED <<cap, queue, buf, canceled, flag, woken, rpc, acked, got>>
    BY <1>7 DEF drop_sender, drop_chan, WakeReceiver
  <2>3. sig' \in [Threads -> SUBSET Threads]
    <3>1. sig[s] \union {Rx} \in SUBSET Threads
      BY <1>t
    <3>2. [sig EXCEPT ![s] = sig[s] \union {Rx}] \in [Threads -> SUBSET Threads]
      BY <3>1, <1>t, SignalTypes
    <3> QED
      BY <3>2, <2>1
  <2> QED
    BY <2>1, <2>2, <2>3
<1>8. ASSUME NEW s \in Senders, NEW c \in Senders, clone_chan(s, c) PROVE SyncTypeOK'
  BY <1>8 DEF clone_chan, Go
<1>9. ASSUME Block PROVE SyncTypeOK'
  BY <1>9, <1>t DEF Block, tokens
<1>10. ASSUME NEW w \in BOOLEAN, PickUp(w) PROVE SyncTypeOK'
  <2>1. queue # <<>> => queue[1] \in Threads /\ Tail(queue) \in Seq(Senders)
    BY <1>t
  <2>2. queue' \in Seq(Senders)
    BY <2>1, <1>10, PickUpFacts
  <2>3. sig' \in [Threads -> SUBSET Threads]
    <3> DEFINE S == (IF queue = <<>> THEN {} ELSE {queue[1]})
                      \union (IF cap = 0 /\ ~ w THEN {blocker} \ {None} ELSE {})
    <3>1. S \in SUBSET Threads
      BY <2>1
    <3>2. sig' = [sig EXCEPT ![Rx] = S]
      BY <1>10, PickUpFacts
    <3> QED
      BY <3>1, <3>2, <1>t, SignalTypes
  <2>4. got' \in [Senders -> Nat]
    BY <1>10, PickUpFacts
  <2>5. blocker' \in Threads \union {None} /\ canceled' \in Senders \union {None}
    BY <1>10, PickUpFacts
  <2> QED
    BY <1>10, PickUpFacts, <2>2, <2>3, <2>4, <2>5
<1>11. ASSUME GiveUp \/ recv_woken PROVE SyncTypeOK'
  BY <1>11, <1>t DEF GiveUp, recv_woken
<1>12. ASSUME drop_port PROVE SyncTypeOK'
  <2>1. {queue[i] : i \in DOMAIN queue} \subseteq Threads
    BY <1>t
  <2>2. /\ cap' = cap /\ disconnected' = TRUE
        /\ queue' \in {queue, <<>>} /\ buf' \in {buf, <<>>}
        /\ blocker' \in {blocker, None} /\ canceled' \in {canceled, None}
        /\ rpc' = "gone"
        /\ UNCHANGED <<woken, spc, acked, got>>
    BY <1>12 DEF drop_port
  <2>3. flag' \in [Senders -> BOOLEAN]
    <3>1. \/ flag' = flag
          \/ flag' = [s \in Senders |-> flag[s] \/ (blocker = s /\ canceled = s)]
      BY <1>12 DEF drop_port
    <3> QED
      BY <3>1
  <2>4. sig' \in [Threads -> SUBSET Threads]
    <3>1. PICK S \in SUBSET Threads : sig' = sig \/ sig' = [sig EXCEPT ![Rx] = S]
      BY <1>12, <2>1 DEF drop_port
    <3> QED
      BY <3>1, <1>t
  <2>5. <<>> \in Seq(Senders) /\ <<>> \in Seq(Senders \X Nat)
    OBVIOUS
  <2>6. queue' \in Seq(Senders) /\ buf' \in Seq(Senders \X Nat)
    BY <2>2, <2>5
  <2> QED
    BY <2>2, <2>3, <2>4, <2>6
<1>13. ASSUME UNCHANGED syncVars PROVE SyncTypeOK'
  BY <1>13 DEF syncVars
<1> QED
  BY <1>1, <1>2, <1>3, <1>4, <1>5, <1>6, <1>7, <1>8, <1>9, <1>10, <1>11, <1>12, <1>13
  DEF SyncStep

(* A thread is taken out of where it waits, to be signalled. *)
Released(t) ==
  \/ t = blocker /\ blocker' = None
  \/ \E i \in DOMAIN queue : t = queue[i] /\ (queue' = <<>> \/ (queue' = Tail(queue) /\ i = 1))

(***************************************************************************)
(* A thread whose token nobody has signalled goes on to wait unless it is  *)
(* released.                                                               *)
(***************************************************************************)
LEMMA WaitsStep ==
  ASSUME SyncTypeOK, SyncStep, NEW t \in Threads, Waits(t), ~ Released(t)
  PROVE  Waits(t)'
<1>t. Senders \subseteq Threads /\ Rx \in Threads /\ Rx \notin Senders
  BY SyncAssumption DEF Threads
<1>w. ~ woken[t] /\ \A u \in Threads : t \notin sig[u]
  BY DEF Waits
<1>s. sig \in [Threads -> SUBSET Threads] /\ woken \in [Threads -> BOOLEAN]
  BY DEF SyncTypeOK
<1>k. ASSUME UNCHANGED <<woken, sig>> PROVE Waits(t)'
  BY <1>w, <1>k DEF Waits
<1>a. ASSUME woken' = woken, NEW u \in Threads, NEW S, t \notin S,
             sig' = [sig EXCEPT ![u] = S]
      PROVE  Waits(t)'
  BY <1>a, <1>w, <1>s DEF Waits
<1>c. ASSUME NEW u \in Threads, tokens(u) PROVE Waits(t)'
  BY <1>c, <1>w, <1>s DEF Waits, tokens
<1>1. ASSUME NEW u \in Threads, NEW x \in Threads, signal(u, x) PROVE Waits(t)'
  BY <1>1, <1>w, <1>s DEF signal, Waits
<1>2. ASSUME NEW s \in Senders, Move(s) \/ Store(s) \/ send_relock(s) \/ drop_sender(s)
      PROVE  Waits(t)'
  BY <1>2, <1>k DEF Move, Store, send_relock, drop_sender
<1>3. ASSUME NEW s \in Senders, Deliver(s) \/ drop_chan(s) PROVE Waits(t)'
  <2>1. CASE WakeReceiver(s)
    BY <1>a, <1>t, <1>w, <2>1 DEF WakeReceiver, Released
  <2>2. CASE UNCHANGED <<woken, sig>>
    BY <2>2, <1>k
  <2> QED
    BY <1>3, <2>1, <2>2 DEF Deliver, drop_chan
<1>4. ASSUME NEW s \in Senders, Offer(s) \/ send_queue(s) PROVE Waits(t)'
  BY <1>4, <1>c, <1>t DEF Offer, send_queue
<1>5. ASSUME NEW s \in Senders, NEW c \in Senders, clone_chan(s, c) PROVE Waits(t)'
  BY <1>5, <1>k DEF clone_chan
<1>6. ASSUME Block PROVE Waits(t)'
  BY <1>6, <1>c, <1>t DEF Block
<1>7. ASSUME NEW w \in BOOLEAN, PickUp(w) PROVE Waits(t)'
  <2> DEFINE S == (IF queue = <<>> THEN {} ELSE {queue[1]})
                    \union (IF cap = 0 /\ ~ w THEN {blocker} \ {None} ELSE {})
  <2>1. /\ sig' = [sig EXCEPT ![Rx] = S] /\ woken' = woken
        /\ blocker' = IF cap = 0 /\ ~ w THEN None ELSE blocker
        /\ queue' = IF queue = <<>> THEN queue ELSE Tail(queue)
    BY <1>7, PickUpFacts
  <2>2. queue # <<>> => 1 \in DOMAIN queue
    BY DEF SyncTypeOK
  <2>3. t \notin S
    BY <2>1, <2>2 DEF Released
  <2> HIDE DEF S
  <2> QED
    BY <2>1, <2>3, <1>a, <1>t
<1>8. ASSUME GiveUp \/ recv_woken \/ UNCHANGED syncVars PROVE Waits(t)'
  BY <1>8, <1>k DEF GiveUp, recv_woken, syncVars
<1>9. ASSUME drop_port PROVE Waits(t)'
  <2>1. CASE disconnected
    BY <1>9, <2>1, <1>k DEF drop_port
  <2>2. CASE ~ disconnected
    <3> DEFINE S == {queue[i] : i \in DOMAIN queue} \union ({blocker} \ {None})
    <3>1. /\ sig' = [sig EXCEPT ![Rx] = S] /\ woken' = woken
          /\ blocker' = None /\ queue' = <<>>
      BY <1>9, <2>2 DEF drop_port
    <3>2. t \notin S
      BY <3>1 DEF Released
    <3> HIDE DEF S
    <3> QED
      BY <3>1, <3>2, <1>a, <1>t
  <2> QED
    BY <2>1, <2>2
<1> QED
  BY <1>1, <1>2, <1>3, <1>4, <1>5, <1>6, <1>7, <1>8, <1>9 DEF SyncStep


(***************************************************************************)
(* Every step keeps the queue as it should be.                             *)
(***************************************************************************)
LEMMA QueueStep ==
  ASSUME SyncTypeOK, QueueInv, BlockInv, SyncStep
  PROVE  QueueInv'
<1>t. Senders \subseteq Threads /\ Rx \in Threads /\ Rx \notin Senders
  BY SyncAssumption DEF Threads
<1>y. queue \in Seq(Senders) /\ Len(queue) \in Nat /\ DOMAIN queue = 1 .. Len(queue)
  BY DEF SyncTypeOK
<1>q. ASSUME NEW i \in DOMAIN queue
      PROVE  /\ queue[i] \in Senders /\ queue[i] \in Threads /\ queue[i] # blocker
             /\ spc[queue[i]] = "queued" /\ ~ woken[queue[i]] /\ Waits(queue[i])
  <2>1. queue[i] \in Senders /\ spc[queue[i]] = "queued" /\ Waits(queue[i])
    BY <1>y DEF QueueInv
  <2>2. queue[i] # blocker
    BY <2>1 DEF BlockInv
  <2> QED
    BY <2>1, <2>2, <1>t DEF Waits
<1>k. ASSUME queue' = queue, \A x \in Senders : spc[x] = "queued" => spc'[x] = "queued" \/ woken[x]
      PROVE  QueueInv'
  <2>1. ASSUME NEW i \in DOMAIN queue PROVE ~ Released(queue[i])
    <3>1. queue # <<>> /\ queue # Tail(queue)
      <4>1. Len(queue) > 0
        BY <1>y
      <4>2. Len(Tail(queue)) = Len(queue) - 1
        BY <1>y, <4>1
      <4>3. queue # <<>>
        BY <4>1
      <4>4. Len(Tail(queue)) # Len(queue)
        <5> DEFINE m == Len(Tail(queue)) n == Len(queue)
        <5>1. m = n - 1 /\ n \in Nat
          BY <4>2, <1>y
        <5> HIDE DEF m, n
        <5>2. m # n
          BY <5>1
        <5> QED
          BY <5>2 DEF m, n
      <4>5. queue # Tail(queue)
        BY ONLY <4>4, Zenon
      <4> QED
        BY <4>3, <4>5
    <3> QED
      BY <1>k, <3>1, <1>q DEF Released
  <2>2. ASSUME NEW i \in DOMAIN queue PROVE spc'[queue[i]] = "queued" /\ Waits(queue[i])'
    <3>1. spc'[queue[i]] = "queued"
      BY <1>q, <1>k
    <3>2. ASSUME NEW x \in Threads, x = queue[i] PROVE Waits(x)'
      BY <3>2, <2>1, <1>q, WaitsStep
    <3> QED
      BY <3>1, <3>2, <1>q, <1>k
  <2> QED
    BY <2>2, <1>k DEF QueueInv
<1>1. ASSUME NEW u \in Threads, NEW t \in Threads, signal(u, t) PROVE QueueInv'
  BY <1>1, <1>k DEF signal, lockVars
<1>2. ASSUME NEW s \in Senders, Move(s) PROVE QueueInv'
  BY <1>2, <1>k DEF Move, lockVars, Go, SyncTypeOK
<1>3. ASSUME NEW s \in Senders,
             \/ Store(s) \/ Deliver(s) \/ Offer(s) \/ send_relock(s)
             \/ drop_sender(s) \/ drop_chan(s)
      PROVE  QueueInv'
  <2>1. queue' = queue /\ spc[s] # "queued" /\ \E pc : spc' = [spc EXCEPT ![s] = pc]
    BY <1>3 DEF Store, Deliver, Offer, send_relock, drop_sender, drop_chan, Go, TxAt, lockVars
  <2> QED
    BY <2>1, <1>k DEF SyncTypeOK
<1>4. ASSUME NEW s \in Senders, send_queue(s) PROVE QueueInv'
  <2>1. /\ queue' = Append(queue, s) /\ spc[s] = "acquire"
        /\ spc' = [spc EXCEPT ![s] = "queued"] /\ tokens(s)
    BY <1>4 DEF send_queue, TxAt, Go
  <2>2. ASSUME NEW i \in DOMAIN queue PROVE queue[i] # s
    BY <2>1, <1>q
  <2>3. Waits(s)'
    BY <2>1, <1>t DEF tokens, Waits, SyncTypeOK
  <2>4. ASSUME NEW i \in DOMAIN queue PROVE spc'[queue[i]] = "queued" /\ Waits(queue[i])'
    <3>1. spc'[queue[i]] = "queued"
      BY <1>q, <2>1, <2>2 DEF SyncTypeOK
    <3>2. ASSUME NEW x \in Threads, x = queue[i] PROVE Waits(x)'
      <4>1. ~ woken[x] /\ \A u \in Threads : x \notin sig[u]
        BY <1>q, <3>2 DEF Waits
      <4> QED
        BY <4>1, <2>1, <1>t DEF tokens, Waits, SyncTypeOK
    <3>3. queue'[i] = queue[i]
      BY <2>1, <1>y
    <3> QED
      BY <3>1, <3>2, <3>3, <1>q
  <2>5. /\ DOMAIN queue' = 1 .. Len(queue) + 1 /\ queue'[Len(queue) + 1] = s
        /\ \A i \in DOMAIN queue : queue'[i] = queue[i]
    BY <2>1, <1>y
  <2>6. \A i, j \in DOMAIN queue' : queue'[i] = queue'[j] => i = j
    BY <2>2, <2>5, <1>y DEF QueueInv
  <2>7. \A i \in DOMAIN queue' : spc'[queue'[i]] = "queued" /\ Waits(queue[i])'
    <3>1. TAKE i \in DOMAIN queue'
    <3>2. CASE i \in DOMAIN queue
      BY <3>2, <2>4, <2>5
    <3>3. CASE i = Len(queue) + 1
      BY <3>3, <2>1, <2>3, <2>5 DEF SyncTypeOK
    <3> QED
      BY <3>2, <3>3, <2>5, <1>y
  <2> QED
    BY <2>6, <2>7 DEF QueueInv
<1>5. ASSUME NEW s \in Senders, NEW c \in Senders, clone_chan(s, c) PROVE QueueInv'
  BY <1>5, <1>k DEF clone_chan, lockVars, Go, SyncTypeOK
<1>6. ASSUME Block \/ GiveUp \/ recv_woken \/ UNCHANGED syncVars PROVE QueueInv'
  BY <1>6, <1>k DEF Block, GiveUp, recv_woken, syncVars, lockVars
<1>7. ASSUME NEW w \in BOOLEAN, PickUp(w) PROVE QueueInv'
  <2>1. spc' = spc /\ queue' = IF queue = <<>> THEN queue ELSE Tail(queue)
    BY <1>7, PickUpFacts
  <2>2. CASE queue = <<>>
    BY <2>1, <2>2, <1>k
  <2>3. CASE queue # <<>>
    <3>1. /\ DOMAIN queue' = 1 .. Len(queue) - 1 /\ Len(queue) > 0
          /\ \A i \in DOMAIN queue' : i + 1 \in DOMAIN queue /\ queue'[i] = queue[i + 1]
      BY <1>y, <2>1, <2>3
    <3>2. ASSUME NEW i \in DOMAIN queue' PROVE Waits(queue[i])'
      <4>1. ASSUME NEW x \in Threads, x = queue[i + 1] PROVE Waits(x)'
        <5>1. queue' = Tail(queue) /\ i + 1 \in DOMAIN queue /\ i + 1 # 1 /\ queue' # <<>>
          BY <3>1, <2>1, <2>3
        <5>2. ~ Released(x)
          BY <5>1, <4>1, <1>q DEF QueueInv, Released
        <5> QED
          BY <5>1, <5>2, <4>1, <1>q, WaitsStep
      <4> QED
        BY <4>1, <3>1, <1>q
    <3>3. \A i \in DOMAIN queue' : spc'[queue'[i]] = "queued"
      BY <3>1, <2>1, <1>q
    <3>4. \A i, j \in DOMAIN queue' : queue'[i] = queue'[j] => i = j
      BY <3>1 DEF QueueInv
    <3> QED
      BY <3>2, <3>3, <3>4 DEF QueueInv
  <2> QED
    BY <2>2, <2>3
<1>8. ASSUME drop_port PROVE QueueInv'
  <2>1. CASE disconnected
    BY <1>8, <2>1, <1>k DEF drop_port, lockVars
  <2>2. CASE ~ disconnected
    BY <1>8, <2>2 DEF drop_port, QueueInv
  <2> QED
    BY <2>1, <2>2
<1> QED
  BY <1>1, <1>2, <1>3, <1>4, <1>5, <1>6, <1>7, <1>8 DEF SyncStep


(***************************************************************************)
(* Every step keeps who is blocked as it should be.                        *)
(***************************************************************************)
LEMMA BlockStep ==
  ASSUME SyncTypeOK, QueueInv, BlockInv, PairInv, SyncStep
  PROVE  BlockInv'
<1>t. /\ Senders \subseteq Threads /\ Rx \in Threads /\ Rx \notin Senders
      /\ None \notin Senders /\ Rx # None /\ blocker \in Threads \union {None}
      /\ canceled \in Senders \union {None} /\ blocker \in Senders \union {Rx, None}
  BY SyncAssumption DEF Threads, SyncTypeOK
<1>g. ASSUME NEW s \in Senders, Paired(s), flag[s] PROVE rpc = "gone" /\ disconnected
  BY <1>g DEF PairInv, BlockInv
<1>b. ASSUME blocker' = blocker, blocker # None PROVE Waits(blocker)'
  <2>1. Waits(blocker) /\ (blocker \in Senders => spc[blocker] = "blocked")
    BY <1>b, <1>t DEF BlockInv
  <2>2. \A i \in DOMAIN queue : queue[i] \in Senders /\ spc[queue[i]] = "queued"
    BY DEF QueueInv, SyncTypeOK
  <2>3. ~ Released(blocker)
    BY <1>b, <1>t, <2>1, <2>2 DEF Released
  <2>4. ASSUME NEW x \in Threads, x = blocker PROVE Waits(x)'
    BY <2>1, <2>3, <2>4, WaitsStep
  <2> QED
    BY <2>4, <1>b, <1>t
<1>k. ASSUME UNCHANGED <<cap, disconnected, blocker, canceled, buf, rpc>>,
             \A x \in Senders : spc[x] = "blocked" /\ ~ woken[x] =>
               spc'[x] = "blocked" /\ flag'[x] = flag[x] /\ acked'[x] = acked[x]
      PROVE  BlockInv'
  <2>1. blocker \in Senders => spc[blocker] = "blocked" /\ ~ woken[blocker]
    BY DEF BlockInv, Waits
  <2> QED
    BY <2>1, <1>b, <1>k, <1>t DEF BlockInv, InWait
<1>n. ASSUME blocker' = None, canceled' = None, disconnected \/ rpc = "gone" => disconnected',
             rpc' = "gone" => disconnected',
             rpc' \in {"waiting", "woken", "late"} => buf' # <<>> \/ disconnected'
      PROVE  BlockInv'
  BY <1>n, <1>t DEF BlockInv, InWait
<1>1. ASSUME NEW u \in Threads, NEW x \in Threads, signal(u, x) PROVE BlockInv'
  BY <1>1, <1>k DEF signal, lockVars, rxVars
<1>2. ASSUME NEW s \in Senders, Move(s) PROVE BlockInv'
  BY <1>2, <1>k DEF Move, lockVars, rxVars, Go, SyncTypeOK
<1>3. ASSUME NEW s \in Senders, Store(s) \/ Deliver(s) PROVE BlockInv'
  <2>1. blocker' = None /\ canceled' = canceled /\ canceled = None /\ rpc' = rpc
        /\ disconnected' = disconnected /\ ~ disconnected
    BY <1>3, <1>t DEF Store, Deliver, WakeReceiver, BlockInv, rxVars
  <2>2. buf' = Append(buf, <<s, acked[s] + 1>>)
    BY <1>3 DEF Store, Deliver, Enqueue
  <2>3. buf' # <<>>
    BY <2>2 DEF SyncTypeOK
  <2>4. rpc # "gone"
    BY <2>1 DEF BlockInv
  <2> QED
    BY <2>1, <2>3, <2>4, <1>n
<1>4. ASSUME NEW s \in Senders, Offer(s) PROVE BlockInv'
  <2>1. /\ blocker' = s /\ canceled' = s /\ cap' = 0 /\ flag'[s] = FALSE
        /\ spc'[s] = "blocked" /\ rpc' = rpc /\ acked' = acked /\ ~ disconnected'
        /\ buf' = << <<s, acked[s] + 1>> >>
    BY <1>4 DEF Offer, Go, SyncTypeOK, rxVars
  <2>2. rpc = "idle"
    BY <1>4, <1>t DEF Offer, BlockInv, InWait, SyncTypeOK
  <2>3. Waits(s)'
    BY <1>4, <1>t DEF Offer, tokens, Waits, SyncTypeOK
  <2> QED
    BY <2>1, <2>2, <2>3, <1>t DEF BlockInv, InWait
<1>5. ASSUME NEW s \in Senders, send_queue(s) PROVE BlockInv'
  BY <1>5, <1>k DEF send_queue, TxAt, Go, SyncTypeOK, rxVars
<1>6. ASSUME NEW s \in Senders, send_relock(s) PROVE BlockInv'
  <2>0. spc[s] = "relock" /\ spc' = [spc EXCEPT ![s] = "idle"]
    BY <1>6 DEF send_relock, TxAt, Go
  <2>1. CASE flag[s]
    <3>1. rpc = "gone" /\ disconnected
      BY <2>0, <2>1, <1>g DEF Paired
    <3>2. blocker = None /\ canceled = None
      BY <3>1 DEF BlockInv
    <3>3. UNCHANGED <<blocker, canceled, disconnected, rpc>>
      BY <1>6 DEF send_relock, rxVars
    <3> QED
      BY <3>1, <3>2, <3>3, <1>n
  <2>2. CASE ~ flag[s]
    <3>1. buf' = buf /\ acked' = [acked EXCEPT ![s] = acked[s] + 1]
      BY <1>6, <2>2 DEF send_relock, Ok
    <3>2. \A x \in Senders : spc[x] = "blocked" => spc'[x] = "blocked" /\ acked'[x] = acked[x]
      BY <2>0, <3>1 DEF SyncTypeOK
    <3>3. UNCHANGED <<cap, disconnected, blocker, canceled, rpc, flag>>
      BY <1>6 DEF send_relock, rxVars
    <3> QED
      BY <3>1, <3>2, <3>3, <1>k
  <2> QED
    BY <2>1, <2>2
<1>7. ASSUME NEW s \in Senders, drop_sender(s) PROVE BlockInv'
  BY <1>7, <1>k DEF drop_sender, TxAt, Go, SyncTypeOK, lockVars, rxVars
<1>8. ASSUME NEW s \in Senders, drop_chan(s) PROVE BlockInv'
  <2>1. blocker' = None /\ canceled' = canceled /\ disconnected'
    BY <1>8 DEF drop_chan, WakeReceiver, BlockInv
  <2>2. canceled = None
    BY <1>8, <1>t DEF drop_chan, WakeReceiver, BlockInv
  <2> QED
    BY <2>1, <2>2, <1>n
<1>9. ASSUME NEW s \in Senders, NEW c \in Senders, clone_chan(s, c) PROVE BlockInv'
  BY <1>9, <1>k DEF clone_chan, TxAt, Go, SyncTypeOK, lockVars, rxVars
<1>10. ASSUME Block PROVE BlockInv'
  <2>1. /\ blocker' = Rx /\ ~ disconnected' /\ rpc' = "waiting" /\ buf' = <<>>
        /\ canceled' = None
    BY <1>10 DEF Block, BlockInv
  <2>2. Waits(Rx)'
    BY <1>10, <1>t DEF Block, tokens, Waits, SyncTypeOK
  <2> QED
    BY <2>1, <2>2, <1>t DEF BlockInv, InWait
<1>11. ASSUME NEW w \in BOOLEAN, PickUp(w) PROVE BlockInv'
  <2>1. /\ blocker' = IF cap = 0 /\ ~ w THEN None ELSE blocker
        /\ canceled' = IF cap = 0 /\ ~ w /\ blocker # None THEN None ELSE canceled
        /\ rpc' = "idle" /\ UNCHANGED disconnected
    BY <1>11, PickUpFacts
  <2>2. blocker # Rx /\ (w => rpc = "woken")
    BY <1>11 DEF PickUp
  <2>3. blocker' = None /\ canceled' = None
    BY <2>1, <2>2, <1>t DEF BlockInv
  <2> QED
    BY <2>1, <2>3, <1>n DEF BlockInv
<1>12. ASSUME GiveUp PROVE BlockInv'
  <2>1. blocker \notin Senders
    <3>1. buf = <<>>
      BY <1>12 DEF GiveUp
    <3>2. ASSUME blocker \in Senders PROVE FALSE
      <4>1. buf = << <<blocker, acked[blocker] + 1>> >>
        BY <3>2, Zenon DEF BlockInv
      <4> QED
        BY <3>1, <4>1
    <3> QED
      BY <3>2
  <2>2. /\ blocker' = None /\ rpc' = "idle" /\ UNCHANGED <<disconnected, canceled>>
        /\ rpc # "gone"
    BY <1>12, <2>1, <1>t DEF GiveUp
  <2>3. canceled = None
    BY <2>1, <1>t DEF BlockInv
  <2> QED
    BY <2>2, <2>3, <1>n
<1>13. ASSUME recv_woken PROVE BlockInv'
  <2>1. /\ UNCHANGED <<cap, disconnected, blocker, canceled, buf, spc, flag, acked, woken>>
        /\ rpc = "waiting" /\ ((rpc' = "woken" /\ woken[Rx]) \/ rpc' = "late")
    BY <1>13 DEF recv_woken, RxAt, lockVars
  <2>2. blocker \notin Senders /\ (blocker = Rx => ~ woken[Rx])
    BY <2>1 DEF BlockInv, Waits
  <2> QED
    BY <2>1, <2>2, <1>b, <1>t DEF BlockInv, InWait
<1>14. ASSUME drop_port PROVE BlockInv'
  <2>1. /\ blocker' = None /\ canceled' = None /\ disconnected' /\ rpc' = "gone"
    BY <1>14, <1>t DEF drop_port, BlockInv, lockVars
  <2> QED
    BY <2>1, <1>n
<1>15. ASSUME UNCHANGED syncVars PROVE BlockInv'
  BY <1>15, <1>k DEF syncVars, lockVars, rxVars
<1> QED
  BY <1>1, <1>2, <1>3, <1>4, <1>5, <1>6, <1>7, <1>8, <1>9, <1>10, <1>11, <1>12, <1>13, <1>14,
     <1>15
  DEF SyncStep


(***************************************************************************)
(* Every step keeps the rendezvous as they should be.                      *)
(***************************************************************************)
LEMMA PairStep ==
  ASSUME SyncTypeOK, BlockInv, PairInv, SyncStep
  PROVE  PairInv'
<1>t. /\ Senders \subseteq Threads /\ Rx \in Threads /\ Rx \notin Senders
      /\ None \notin Senders /\ Rx # None
  BY SyncAssumption DEF Threads
<1>g. ASSUME NEW s \in Senders, Paired(s), flag[s]
      PROVE  rpc = "gone" /\ disconnected /\ blocker = None /\ buf = << <<s, acked[s] + 1>> >>
  BY <1>g DEF PairInv, BlockInv
<1>e. \A x, q : q = << x >> => q # <<>> /\ Tail(q) = <<>> /\ q[1] = x
  OBVIOUS
<1>k. ASSUME UNCHANGED <<cap, buf, blocker, flag, acked, got>>,
             InWait => InWait', rpc = "gone" => rpc' = "gone",
             \A x \in Senders : Paired(x) <=> Paired(x)'
      PROVE  PairInv'
  BY <1>k DEF PairInv
<1>1. ASSUME NEW u \in Threads, NEW x \in Threads, signal(u, x) PROVE PairInv'
  BY <1>1, <1>k DEF signal, lockVars, rxVars, Paired, InWait
<1>2. ASSUME NEW s \in Senders, Move(s) PROVE PairInv'
  BY <1>2, <1>k DEF Move, lockVars, rxVars, Go, SyncTypeOK, Paired, InWait
<1>3. ASSUME NEW s \in Senders, Store(s) PROVE PairInv'
  <2>1. cap' = cap /\ cap # 0 /\ spc' = [spc EXCEPT ![s] = "idle"]
    BY <1>3 DEF Store, Go
  <2>2. \A x \in Senders : ~ Paired(x)'
    BY <2>1 DEF PairInv, Paired, SyncTypeOK
  <2> QED
    BY <2>1, <2>2 DEF PairInv
<1>4. ASSUME NEW s \in Senders, Deliver(s) PROVE PairInv'
  <2>1. /\ spc' = [spc EXCEPT ![s] = "idle"] /\ ~ Paired(s) /\ blocker = Rx /\ blocker' = None
        /\ acked' = [acked EXCEPT ![s] = acked[s] + 1] /\ rpc' = rpc
        /\ UNCHANGED <<cap, flag, got>>
    BY <1>4 DEF Deliver, Go, Ok, WakeReceiver, Paired, rxVars
  <2>2. buf = <<>> /\ InWait
    BY <2>1 DEF BlockInv, InWait
  <2>3. buf' = << <<s, acked'[s]>> >>
    BY <1>4, <2>1, <2>2 DEF Deliver, Enqueue, SyncTypeOK
  <2>4. ASSUME NEW x \in Senders, Paired(x)'
        PROVE  Paired(x) /\ x # s /\ acked'[x] = acked[x] /\ ~ flag[x]
    BY <2>1, <2>2, <2>4, <1>g, <1>e DEF Paired, SyncTypeOK
  <2>5. ASSUME NEW x \in Senders, Paired(x)'
        PROVE  cap' = 0 /\ ~ flag'[x] /\ got'[x] = acked'[x] + 1
    BY <2>1, <2>4, <2>5, <1>t DEF PairInv
  <2>6. InWait' /\ ~ Paired(s)'
    BY <2>1, <2>2 DEF InWait, Paired, SyncTypeOK
  <2> QED
    BY <2>3, <2>5, <2>6 DEF PairInv
<1>5. ASSUME NEW s \in Senders, Offer(s) PROVE PairInv'
  <2>1. /\ blocker = None /\ blocker' = s /\ ~ disconnected /\ cap' = 0 /\ cap = 0
        /\ spc' = [spc EXCEPT ![s] = "blocked"] /\ flag' = [flag EXCEPT ![s] = FALSE]
        /\ UNCHANGED <<acked, got>>
    BY <1>5 DEF Offer, Go, rxVars
  <2>2. ASSUME NEW x \in Senders, Paired(x)', x # s
        PROVE  Paired(x) /\ ~ flag[x] /\ flag'[x] = flag[x] /\ blocker # x
    BY <2>1, <2>2, <1>g, <1>t DEF Paired, SyncTypeOK
  <2>3. ASSUME NEW x \in Senders, Paired(x)', x # s
        PROVE  ~ flag'[x] /\ got'[x] = acked'[x] + 1
    BY <2>1, <2>2, <2>3 DEF PairInv
  <2>4. ~ flag'[s]
    BY <2>1 DEF SyncTypeOK
  <2> QED
    BY <2>1, <2>3, <2>4 DEF PairInv
<1>6. ASSUME NEW s \in Senders, send_queue(s) PROVE PairInv'
  BY <1>6, <1>k DEF send_queue, TxAt, rxVars, Go, SyncTypeOK, Paired, InWait
<1>7. ASSUME NEW s \in Senders, send_relock(s) PROVE PairInv'
  <2>1. /\ spc[s] = "relock" /\ spc' = [spc EXCEPT ![s] = "idle"]
        /\ UNCHANGED <<cap, blocker, flag, rpc, got>>
    BY <1>7 DEF send_relock, TxAt, Go, rxVars
  <2>2. Paired(s) /\ ~ Paired(s)' /\ \A x \in Senders \ {s} : Paired(x) <=> Paired(x)'
    BY <2>1 DEF Paired, SyncTypeOK
  <2>3. CASE flag[s]
    <3>1. buf = << <<s, acked[s] + 1>> >> /\ buf' = <<>> /\ acked' = acked
      BY <1>7, <2>2, <2>3, <1>g, <1>e DEF send_relock
    <3>2. ASSUME NEW x \in Senders, Paired(x)' PROVE Paired(x) /\ ~ flag[x]
      <4>1. x # s /\ Paired(x)
        BY <2>2, <3>2
      <4>2. ASSUME flag[x] PROVE FALSE
        <5>1. buf[1] = <<x, acked[x] + 1>> /\ buf[1] = <<s, acked[s] + 1>>
          BY <4>1, <4>2, <1>g, <3>1, <1>e
        <5> QED
          BY <5>1, <4>1
      <4> QED
        BY <4>1, <4>2
    <3> QED
      BY <2>1, <3>1, <3>2 DEF PairInv
  <2>4. CASE ~ flag[s]
    <3>1. buf' = buf /\ acked' = [acked EXCEPT ![s] = acked[s] + 1]
      BY <1>7, <2>4 DEF send_relock, Ok
    <3>2. \A x \in Senders \ {s} : acked'[x] = acked[x]
      BY <3>1 DEF SyncTypeOK
    <3>3. InWait <=> InWait'
      BY <2>1 DEF InWait
    <3>4. ASSUME NEW x \in Senders, Paired(x)'
          PROVE  /\ x # s /\ Paired(x) /\ acked'[x] = acked[x]
      BY <3>4, <2>2, <3>2
    <3>5. cap' = 0 =>
            \/ buf' = <<>>
            \/ \E x \in Senders : buf' = << <<x, acked'[x]>> >> /\ InWait' /\ ~ Paired(x)'
            \/ blocker' \in Senders
            \/ \E x \in Senders : Paired(x)' /\ flag'[x]
      BY <2>1, <2>2, <2>4, <3>1, <3>2, <3>3 DEF PairInv
    <3> QED
      BY <2>1, <3>1, <3>4, <3>5 DEF PairInv
  <2> QED
    BY <2>3, <2>4
<1>8. ASSUME NEW s \in Senders, drop_sender(s) PROVE PairInv'
  BY <1>8, <1>k DEF drop_sender, TxAt, lockVars, rxVars, Go, SyncTypeOK, Paired, InWait
<1>9. ASSUME NEW s \in Senders, drop_chan(s) PROVE PairInv'
  <2>1. /\ spc[s] = "last" /\ spc' = [spc EXCEPT ![s] = "gone"]
        /\ UNCHANGED <<cap, buf, flag, acked, got, rpc>>
        /\ blocker \notin Senders /\ blocker' \notin Senders
    BY <1>9, <1>t DEF drop_chan, TxAt, Go, rxVars, WakeReceiver, BlockInv
  <2>2. (InWait <=> InWait') /\ \A x \in Senders : Paired(x) <=> Paired(x)'
    BY <2>1 DEF InWait, Paired, SyncTypeOK
  <2> QED
    BY <2>1, <2>2 DEF PairInv
<1>10. ASSUME NEW s \in Senders, NEW c \in Senders, clone_chan(s, c) PROVE PairInv'
  BY <1>10, <1>k DEF clone_chan, TxAt, lockVars, rxVars, Go, SyncTypeOK, Paired, InWait
<1>11. ASSUME Block \/ GiveUp PROVE PairInv'
  <2>1. /\ buf' = <<>> /\ rpc # "gone"
        /\ blocker' \in Senders => blocker' = blocker
        /\ UNCHANGED <<cap, flag, acked, got, spc>>
    BY <1>11, <1>t DEF Block, GiveUp
  <2>2. ASSUME NEW x \in Senders, Paired(x)' PROVE Paired(x) /\ ~ flag[x]
    BY <2>1, <2>2, <1>g DEF Paired
  <2>3. ASSUME NEW x \in Senders, blocker = x PROVE blocker' = x
    BY <1>11, <1>t, <2>3 DEF Block, GiveUp
  <2> QED
    BY <2>1, <2>2, <2>3 DEF PairInv
<1>12. ASSUME NEW w \in BOOLEAN, PickUp(w) PROVE PairInv'
  <2>1. /\ buf[1][1] \in Senders /\ buf' = Tail(buf)
        /\ got' = [got EXCEPT ![buf[1][1]] = buf[1][2]]
        /\ blocker' = IF cap = 0 /\ ~ w THEN None ELSE blocker
        /\ UNCHANGED <<cap, flag, spc, acked>>
    BY <1>12, PickUpFacts
  <2>2. buf # <<>> /\ rpc # "gone" /\ (w => rpc # "idle")
    BY <1>12 DEF PickUp
  <2>3. ASSUME NEW x \in Senders, Paired(x)'
        PROVE  Paired(x) /\ ~ flag[x] /\ cap = 0
    BY <2>1, <2>2, <2>3, <1>g DEF Paired, PairInv
  <2>4. CASE cap # 0
    BY <2>1, <2>3, <2>4 DEF PairInv
  <2>5. ASSUME NEW s \in Senders, buf = << <<s, acked[s]>> >>, ~ Paired(s) PROVE PairInv'
    <3>1. buf' = <<>> /\ buf[1][1] = s
      BY <2>1, <2>5, <1>e
    <3>2. ASSUME NEW x \in Senders, Paired(x)' PROVE got'[x] = acked'[x] + 1
      <4>1. x # s /\ got'[x] = got[x]
        BY <2>1, <2>3, <2>5, <3>1, <3>2 DEF SyncTypeOK
      <4>2. ASSUME blocker = x PROVE FALSE
        <5>1. buf[1] = <<x, acked[x] + 1>> /\ buf[1] = <<s, acked[s]>>
          BY <4>2, <2>5, <1>e DEF BlockInv
        <5> QED
          BY <5>1, <4>1
      <4> QED
        BY <4>1, <4>2, <2>1, <2>3, <3>2 DEF PairInv
    <3> QED
      BY <3>1, <3>2, <2>1, <2>3 DEF PairInv
  <2>6. ASSUME blocker \in Senders PROVE PairInv'
    <3>1. rpc = "idle" /\ cap = 0 /\ buf = << <<blocker, acked[blocker] + 1>> >>
      BY <2>6 DEF BlockInv
    <3>2. buf' = <<>> /\ buf[1] = <<blocker, acked[blocker] + 1>>
      BY <2>1, <3>1, <1>e
    <3>3. buf[1][1] = blocker /\ buf[1][2] = acked[blocker] + 1
      BY <3>2
    <3>4. ASSUME NEW x \in Senders, Paired(x)' PROVE got'[x] = acked'[x] + 1
      <4>1. CASE x = blocker
        BY <4>1, <2>1, <3>3 DEF SyncTypeOK
      <4>2. CASE x # blocker
        BY <4>2, <2>1, <2>3, <3>3, <3>4 DEF SyncTypeOK, PairInv
      <4> QED
        BY <4>1, <4>2
    <3> QED
      BY <3>2, <3>4, <2>1, <2>3 DEF PairInv
  <2> QED
    BY <2>2, <2>4, <2>5, <2>6, <1>g DEF PairInv
<1>13. ASSUME recv_woken PROVE PairInv'
  BY <1>13, <1>k DEF recv_woken, RxAt, lockVars, Paired, InWait
<1>14. ASSUME drop_port PROVE PairInv'
  <2>1. /\ rpc = "idle" /\ rpc' = "gone" /\ UNCHANGED <<cap, spc, acked, got>>
    BY <1>14 DEF drop_port, RxAt, lockVars
  <2>2. ASSUME NEW x \in Senders, Paired(x)' PROVE Paired(x) /\ ~ flag[x] /\ cap = 0
    BY <2>1, <2>2, <1>g DEF Paired, PairInv
  <2>3. cap = 0 => buf = <<>> \/ blocker \in Senders
    BY <2>1, <1>g DEF PairInv, InWait
  <2>4. CASE disconnected
    <3>1. UNCHANGED <<buf, blocker, flag>> /\ blocker = None
      BY <1>14, <2>4 DEF drop_port, lockVars, BlockInv
    <3> QED
      BY <2>1, <2>2, <2>3, <3>1, <1>t DEF PairInv
  <2>5. CASE ~ disconnected
    <3>1. /\ buf' = (IF cap # 0 THEN <<>> ELSE buf) /\ blocker' = None
          /\ flag' = [s \in Senders |-> flag[s] \/ (blocker = s /\ canceled = s)]
      BY <1>14, <2>5 DEF drop_port
    <3>2. ASSUME NEW x \in Senders, Paired(x)'
          PROVE  (flag'[x] <=> blocker = x) /\ buf' = buf
      BY <3>1, <2>2, <3>2 DEF BlockInv, SyncTypeOK
    <3>3. ASSUME NEW x \in Senders, blocker = x
          PROVE  Paired(x)' /\ buf = << <<x, acked[x] + 1>> >>
      BY <3>3, <2>1 DEF BlockInv, Paired
    <3> QED
      BY <2>1, <2>2, <2>3, <3>1, <3>2, <3>3 DEF PairInv
  <2> QED
    BY <2>4, <2>5
<1>15. ASSUME UNCHANGED syncVars PROVE PairInv'
  BY <1>15, <1>k DEF syncVars, lockVars, rxVars, Paired, InWait
<1> QED
  BY <1>1, <1>2, <1>3, <1>4, <1>5, <1>6, <1>7, <1>8, <1>9, <1>10, <1>11, <1>12, <1>13, <1>14,
     <1>15
  DEF SyncStep


(***************************************************************************)
(* A sender in a rendezvous that is over finds its message received or its *)
(* flag set.                                                               *)
(***************************************************************************)
LEMMA RelockFacts ==
  ASSUME SyncTypeOK, BlockInv, PairInv, NEW s \in Senders, send_relock(s)
  PROVE  \/ /\ rpc = "gone" /\ buf' = <<>> /\ acked' = acked
         \/ /\ got[s] = acked[s] + 1 /\ buf' = buf
            /\ acked' = [acked EXCEPT ![s] = acked[s] + 1]
<1>1. spc[s] = "relock" /\ Paired(s)
  BY DEF send_relock, TxAt, Paired
<1>2. blocker # s
  BY <1>1 DEF BlockInv
<1>3. CASE flag[s]
  <2>1. rpc = "gone" /\ buf = << <<s, acked[s] + 1>> >>
    BY <1>1, <1>3 DEF PairInv
  <2>2. buf' = Tail(buf) /\ acked' = acked
    BY <1>3 DEF send_relock
  <2>3. Tail(buf) = <<>>
    BY <2>1
  <2> QED
    BY <2>1, <2>2, <2>3
<1>4. CASE ~ flag[s]
  BY <1>1, <1>2, <1>4 DEF PairInv, send_relock, Ok
<1> QED
  BY <1>3, <1>4

(***************************************************************************)
(* Every step keeps HandedOver: Ok is decided for a receiver that waits or *)
(* for one that has the message.                                           *)
(***************************************************************************)
LEMMA HandedOverStep ==
  ASSUME SyncTypeOK, BlockInv, PairInv, OrderInv, HandedOver, SyncStep
  PROVE  HandedOver'
<1>t. Rx \notin Senders /\ None \notin Senders /\ Rx # None
  BY SyncAssumption
<1>e. \A x, q : q = << x >> => q # <<>> /\ Tail(q) = <<>> /\ q[1] = x
  OBVIOUS
<1>y. \A x \in Senders : acked[x] \in Nat /\ got[x] \in Nat
  BY DEF SyncTypeOK
<1>k. ASSUME UNCHANGED <<cap, buf, acked, got>>, InWait => InWait' PROVE HandedOver'
  BY <1>k DEF HandedOver, InWait
<1>n. ASSUME cap' = cap, UNCHANGED <<acked, got>>, buf = <<>> \/ ~ InWait PROVE HandedOver'
  <2>1. cap = 0 => \A x \in Senders : ~ acked[x] > got[x]
    BY <1>n, <1>e DEF HandedOver, InWait
  <2> QED
    BY <2>1, <1>n DEF HandedOver
<1>1. ASSUME NEW u \in Threads, NEW x \in Threads, signal(u, x) PROVE HandedOver'
  BY <1>1, <1>k DEF signal, lockVars, rxVars, InWait
<1>2. ASSUME NEW s \in Senders, Move(s) \/ send_queue(s) \/ drop_sender(s) \/ drop_chan(s)
      PROVE  HandedOver'
  BY <1>2, <1>k DEF Move, send_queue, drop_sender, drop_chan, lockVars, rxVars, InWait
<1>3. ASSUME NEW s \in Senders, Store(s) PROVE HandedOver'
  BY <1>3 DEF Store, HandedOver
<1>4. ASSUME NEW s \in Senders, Deliver(s) PROVE HandedOver'
  <2>1. /\ blocker = Rx /\ acked' = [acked EXCEPT ![s] = acked[s] + 1]
        /\ UNCHANGED <<cap, rpc, got>> /\ buf' = Append(buf, <<s, acked[s] + 1>>)
    BY <1>4 DEF Deliver, WakeReceiver, Ok, rxVars, Enqueue
  <2>2. buf = <<>> /\ rpc \in {"waiting", "late"}
    BY <2>1 DEF BlockInv
  <2>3. buf' = << <<s, acked'[s]>> >>
    BY <2>1, <2>2 DEF SyncTypeOK
  <2>4. ASSUME cap = 0, NEW x \in Senders, acked'[x] > got'[x] PROVE x = s
    <3>1. CASE x # s
      <4>1. acked[x] > got[x]
        BY <2>1, <2>4, <3>1 DEF SyncTypeOK
      <4> QED
        BY <4>1, <2>2, <2>4, <1>e DEF HandedOver
    <3> QED
      BY <3>1
  <2> QED
    BY <2>1, <2>2, <2>3, <2>4 DEF HandedOver
<1>5. ASSUME NEW s \in Senders, Offer(s) PROVE HandedOver'
  BY <1>5, <1>n DEF Offer, rxVars
<1>6. ASSUME NEW s \in Senders, send_relock(s) PROVE HandedOver'
  <2>1. UNCHANGED <<cap, rpc, got>>
    BY <1>6 DEF send_relock, rxVars
  <2>2. CASE rpc = "gone" /\ acked' = acked
    BY <2>1, <2>2, <1>n DEF InWait
  <2>3. CASE /\ got[s] = acked[s] + 1 /\ buf' = buf
             /\ acked' = [acked EXCEPT ![s] = acked[s] + 1]
    <3>1. ~ acked'[s] > got'[s] /\ \A x \in Senders \ {s} : acked'[x] = acked[x]
      BY <2>1, <2>3, <1>y DEF SyncTypeOK
    <3> QED
      BY <2>1, <2>3, <3>1 DEF HandedOver
  <2> QED
    BY <1>6, RelockFacts, <2>2, <2>3
<1>7. ASSUME NEW s \in Senders, NEW c \in Senders, clone_chan(s, c) PROVE HandedOver'
  BY <1>7, <1>k DEF clone_chan, lockVars, rxVars, InWait
<1>8. ASSUME Block \/ GiveUp PROVE HandedOver'
  BY <1>8, <1>n DEF Block, GiveUp
<1>9. ASSUME NEW w \in BOOLEAN, PickUp(w) PROVE HandedOver'
  <2> DEFINE b == buf[1][1] k == buf[1][2]
  <2>1. /\ b \in Senders /\ k \in Nat /\ 1 \in DOMAIN buf
        /\ got' = [got EXCEPT ![b] = k] /\ UNCHANGED <<cap, acked>>
    BY <1>9, PickUpFacts
  <2>2. got[b] < k
    BY <2>1 DEF OrderInv, Unreceived
  <2>3. ASSUME cap = 0, NEW x \in Senders PROVE ~ acked'[x] > got'[x]
    <3>1. CASE acked[x] > got[x]
      <4>1. buf[1] = <<x, acked[x]>>
        BY <3>1, <2>3, <1>e DEF HandedOver
      <4>2. b = x /\ k = acked[x]
        BY <4>1
      <4> HIDE DEF b, k
      <4> QED
        BY <4>2, <2>1, <1>y DEF SyncTypeOK
    <3>2. CASE ~ acked[x] > got[x]
      <4> HIDE DEF b, k
      <4> QED
        BY <3>2, <2>1, <2>2, <1>y DEF SyncTypeOK
    <3> QED
      BY <3>1, <3>2
  <2> HIDE DEF b, k
  <2> QED
    BY <2>1, <2>3 DEF HandedOver
<1>10. ASSUME recv_woken \/ UNCHANGED syncVars PROVE HandedOver'
  BY <1>10, <1>k DEF recv_woken, RxAt, syncVars, lockVars, rxVars, InWait
<1>11. ASSUME drop_port PROVE HandedOver'
  BY <1>11, <1>n DEF drop_port, RxAt, InWait, lockVars
<1> QED
  BY <1>1, <1>2, <1>3, <1>4, <1>5, <1>6, <1>7, <1>8, <1>9, <1>10, <1>11 DEF SyncStep


(***************************************************************************)
(* Every step keeps the buffer as it should be.                            *)
(***************************************************************************)
LEMMA OrderStep ==
  ASSUME SyncTypeOK, BlockInv, PairInv, OrderInv, SyncStep
  PROVE  OrderInv'
<1>y. /\ buf \in Seq(Senders \X Nat) /\ Len(buf) \in Nat /\ DOMAIN buf = 1 .. Len(buf)
      /\ \A i \in DOMAIN buf : buf[i][1] \in Senders /\ buf[i][2] \in Nat
      /\ \A x \in Senders : acked[x] \in Nat /\ got[x] \in Nat
  <2>1. buf \in Seq(Senders \X Nat) /\ acked \in [Senders -> Nat] /\ got \in [Senders -> Nat]
    BY DEF SyncTypeOK
  <2>2. \A i \in DOMAIN buf : buf[i] \in Senders \X Nat
    BY <2>1
  <2> QED
    BY <2>1, <2>2
<1>o. Ascending /\ Unreceived /\ Accounted
  BY DEF OrderInv
<1>k. ASSUME UNCHANGED <<buf, acked, got>>, rpc = "gone" => rpc' = "gone",
             \A x \in Senders : Paired(x) <=> Paired(x)'
      PROVE  OrderInv'
  BY <1>o, <1>k, <1>y DEF OrderInv, Ascending, Unreceived, Accounted
<1>1. ASSUME NEW u \in Threads, NEW x \in Threads, signal(u, x) PROVE OrderInv'
  BY <1>1, <1>k DEF signal, lockVars, rxVars, Paired
<1>2. ASSUME NEW s \in Senders, Move(s) \/ send_queue(s) \/ drop_sender(s) \/ drop_chan(s)
      PROVE  OrderInv'
  <2>1. UNCHANGED <<buf, acked, got, rpc>>
    BY <1>2 DEF Move, send_queue, drop_sender, drop_chan, lockVars, rxVars
  <2>2. /\ \E pc : spc' = [spc EXCEPT ![s] = pc]
        /\ spc[s] \in {"blocked", "relock"} <=> spc'[s] \in {"blocked", "relock"}
    BY <1>2 DEF Move, send_queue, drop_sender, drop_chan, Go, TxAt, SyncTypeOK
  <2>3. \A x \in Senders : Paired(x) <=> Paired(x)'
    BY <2>2 DEF Paired, SyncTypeOK
  <2> QED
    BY <2>1, <2>3, <1>k
<1>3. ASSUME NEW s \in Senders, Store(s) \/ Deliver(s) PROVE OrderInv'
  <2>1. /\ spc[s] \in {"idle", "acquire"} /\ ~ disconnected
        /\ spc' = [spc EXCEPT ![s] = "idle"]
        /\ acked' = [acked EXCEPT ![s] = acked[s] + 1] /\ UNCHANGED <<got, rpc>>
        /\ buf' = Append(buf, <<s, acked[s] + 1>>)
    BY <1>3 DEF Store, Deliver, Go, Ok, Enqueue, rxVars
  <2>2. ~ Paired(s) /\ rpc # "gone" /\ \A x \in Senders : Paired(x) <=> Paired(x)'
    BY <2>1 DEF Paired, BlockInv, SyncTypeOK
  <2>3. /\ DOMAIN buf' = 1 .. Len(buf) + 1 /\ buf'[Len(buf) + 1] = <<s, acked[s] + 1>>
        /\ \A i \in DOMAIN buf : i \in DOMAIN buf' /\ buf'[i] = buf[i] /\ i < Len(buf) + 1
    <3>1. <<s, acked[s] + 1>> \in Senders \X Nat
      BY <1>y
    <3>2. /\ Len(buf') = Len(buf) + 1 /\ buf'[Len(buf) + 1] = <<s, acked[s] + 1>>
          /\ \A i \in DOMAIN buf : buf'[i] = buf[i]
      BY <2>1, <1>y, <3>1
    <3>3. DOMAIN buf' = 1 .. Len(buf')
      BY <2>1, <1>y, <3>1
    <3> QED
      BY <3>2, <3>3, <1>y
  <2>4. /\ acked'[s] = acked[s] + 1 /\ \A x \in Senders \ {s} : acked'[x] = acked[x]
        /\ buf'[Len(buf) + 1][1] = s /\ buf'[Len(buf) + 1][2] = acked[s] + 1
    BY <2>1, <2>3 DEF SyncTypeOK
  <2>5. \A i \in DOMAIN buf : buf[i][1] = s => buf[i][2] < acked[s] + 1
    BY <1>o, <2>2, <1>y DEF Unreceived
  <2>6. got[s] < acked[s] + 1
    <3>1. CASE got[s] = acked[s]
      BY <3>1, <1>y
    <3>2. ASSUME NEW i \in DOMAIN buf, buf[i] = <<s, acked[s]>> PROVE got[s] < acked[s] + 1
      <4>1. buf[i][1] = s /\ buf[i][2] = acked[s]
        BY <3>2
      <4>2. got[s] < acked[s]
        BY <1>o, <3>2, <4>1 DEF Unreceived
      <4> QED
        BY <4>2, <1>y
    <3> QED
      BY <1>o, <2>2, <3>1, <3>2 DEF Accounted
  <2>7. \A i, j \in DOMAIN buf' : i < j /\ buf'[i][1] = buf'[j][1] => buf'[i][2] < buf'[j][2]
    <3>1. TAKE i, j \in DOMAIN buf'
    <3>2. HAVE i < j /\ buf'[i][1] = buf'[j][1]
    <3>3. i \in DOMAIN buf
      BY <3>2, <2>3, <1>y
    <3>4. CASE j \in DOMAIN buf
      BY <1>o, <3>2, <3>3, <3>4, <2>3 DEF Ascending
    <3>5. CASE j = Len(buf) + 1
      BY <3>2, <3>3, <3>5, <2>3, <2>4, <2>5
    <3> QED
      BY <3>4, <3>5, <2>3, <1>y
  <2>8. \A i \in DOMAIN buf' :
          /\ got'[buf'[i][1]] < buf'[i][2]
          /\ buf'[i][2] > acked'[buf'[i][1]] =>
               Paired(buf[i][1])' /\ buf'[i][2] = acked'[buf'[i][1]] + 1
    <3>1. TAKE i \in DOMAIN buf'
    <3>2. CASE i \in DOMAIN buf
      <4>1. buf'[i] = buf[i] /\ got' = got
        BY <3>2, <2>1, <2>3
      <4>2. got[buf[i][1]] < buf[i][2]
        BY <1>o, <3>2 DEF Unreceived
      <4>3. CASE buf[i][1] = s
        <5>1. ~ buf[i][2] > acked[s] + 1
          BY <3>2, <4>3, <2>5, <1>y
        <5> QED
          BY <4>1, <4>2, <4>3, <5>1, <2>4
      <4>4. CASE buf[i][1] # s
        <5>1. acked'[buf[i][1]] = acked[buf[i][1]]
          BY <3>2, <4>4, <2>4, <1>y
        <5>2. buf[i][2] > acked[buf[i][1]] =>
                Paired(buf[i][1]) /\ buf[i][2] = acked[buf[i][1]] + 1
          BY <1>o, <3>2 DEF Unreceived
        <5>3. ASSUME NEW x \in Senders, x = buf[i][1], Paired(x) PROVE Paired(x)'
          BY <5>3, <2>2
        <5> QED
          BY <3>2, <4>1, <4>2, <5>1, <5>2, <5>3, <1>y
      <4> QED
        BY <4>3, <4>4
    <3>3. CASE i = Len(buf) + 1
      BY <3>3, <2>1, <2>4, <2>6, <1>y
    <3>4. i \in DOMAIN buf \/ i = Len(buf) + 1
      BY <2>3, <1>y
    <3> QED
      BY <3>2, <3>3, <3>4
  <2>9. \A x \in Senders : \/ Paired(x)' \/ got'[x] = acked'[x]
                           \/ \E i \in DOMAIN buf' : buf'[i] = <<x, acked'[x]>>
    <3>1. TAKE x \in Senders
    <3>2. CASE x = s
      BY <3>2, <2>3, <2>4, <1>y
    <3>3. CASE x # s
      <4>1. acked'[x] = acked[x] /\ got'[x] = got[x]
        BY <3>3, <2>1, <2>4
      <4>2. Paired(x) \/ got[x] = acked[x] \/ \E i \in DOMAIN buf : buf[i] = <<x, acked[x]>>
        BY <1>o, <2>2 DEF Accounted
      <4> QED
        BY <4>1, <4>2, <2>2, <2>3
    <3> QED
      BY <3>2, <3>3
  <2> QED
    BY <2>7, <2>8, <2>9 DEF OrderInv, Ascending, Unreceived, Accounted
<1>4. ASSUME NEW s \in Senders, Offer(s) PROVE OrderInv'
  <2>1. /\ spc[s] = "acquire" /\ spc' = [spc EXCEPT ![s] = "blocked"] /\ ~ disconnected
        /\ buf = <<>> /\ buf' = << <<s, acked[s] + 1>> >> /\ UNCHANGED <<acked, got>>
    BY <1>4 DEF Offer, Go, rxVars
  <2>2. /\ ~ Paired(s) /\ Paired(s)' /\ rpc # "gone"
        /\ \A x \in Senders : Paired(x) => Paired(x)'
    BY <2>1 DEF Paired, BlockInv, SyncTypeOK
  <2>3. \A x \in Senders : Paired(x) \/ got[x] = acked[x]
    <3>1. \A x \in Senders : \/ Paired(x) \/ got[x] = acked[x]
                             \/ \E i \in DOMAIN buf : buf[i] = <<x, acked[x]>>
      BY <1>o, <2>2 DEF Accounted
    <3>2. DOMAIN buf = {}
      BY <2>1
    <3> QED
      BY <3>1, <3>2
  <2>4. /\ DOMAIN buf' = {1} /\ buf'[1][1] = s /\ buf'[1][2] = acked[s] + 1
    BY <2>1
  <2>5. got[s] < acked[s] + 1
    BY <2>2, <2>3, <1>y
  <2>6. \A x \in Senders : Paired(x)' \/ got'[x] = acked'[x]
    BY <2>1, <2>2, <2>3
  <2>7. \A i, j \in DOMAIN buf' : ~ i < j
    BY <2>4
  <2> QED
    <3>1. Ascending'
      BY <2>7 DEF Ascending
    <3>2. Unreceived'
      BY <2>1, <2>2, <2>4, <2>5 DEF Unreceived
    <3>3. Accounted'
      BY <2>6 DEF Accounted
    <3> QED
      BY <3>1, <3>2, <3>3 DEF OrderInv
<1>5. ASSUME NEW s \in Senders, send_relock(s) PROVE OrderInv'
  <2>1. UNCHANGED <<got, rpc>>
    BY <1>5 DEF send_relock, rxVars
  <2>2. CASE rpc = "gone" /\ buf' = <<>>
    <3>1. DOMAIN buf' = {}
      BY <2>2
    <3> QED
      BY <3>1, <2>1, <2>2 DEF OrderInv, Ascending, Unreceived, Accounted
  <2>3. CASE /\ got[s] = acked[s] + 1 /\ buf' = buf
             /\ acked' = [acked EXCEPT ![s] = acked[s] + 1]
    <3>1. \A i \in DOMAIN buf : buf[i][1] # s
      <4>1. SUFFICES ASSUME NEW i \in DOMAIN buf, buf[i][1] = s PROVE FALSE
        OBVIOUS
      <4>2. got[s] < buf[i][2] /\ (buf[i][2] > acked[s] => buf[i][2] = acked[s] + 1)
        BY <1>o, <4>1 DEF Unreceived
      <4>3. buf[i][2] \in Nat /\ acked[s] \in Nat
        BY <4>1, <1>y
      <4> QED
        BY <2>3, <4>2, <4>3
    <3>2. /\ \A x \in Senders \ {s} : acked'[x] = acked[x] /\ (Paired(x) <=> Paired(x)')
          /\ acked'[s] = got[s]
      BY <1>5, <2>3 DEF send_relock, Go, Paired, SyncTypeOK
    <3>3. \A i, j \in DOMAIN buf' : i < j /\ buf'[i][1] = buf'[j][1] => buf'[i][2] < buf'[j][2]
      BY <1>o, <2>3 DEF Ascending
    <3>4. \A i \in DOMAIN buf' :
            /\ got'[buf'[i][1]] < buf'[i][2]
            /\ buf'[i][2] > acked'[buf'[i][1]] =>
                 Paired(buf[i][1])' /\ buf'[i][2] = acked'[buf'[i][1]] + 1
      <4>1. TAKE i \in DOMAIN buf'
      <4>2. i \in DOMAIN buf /\ buf[i][1] \in Senders \ {s}
        BY <2>3, <3>1, <1>y
      <4>3. /\ got[buf[i][1]] < buf[i][2]
            /\ buf[i][2] > acked[buf[i][1]] =>
                 Paired(buf[i][1]) /\ buf[i][2] = acked[buf[i][1]] + 1
        BY <1>o, <4>2 DEF Unreceived
      <4>4. ASSUME NEW x \in Senders \ {s}, x = buf[i][1], Paired(x) PROVE Paired(x)'
        BY <4>4, <3>2
      <4> QED
        BY <4>2, <4>3, <4>4, <2>1, <2>3, <3>2
    <3>5. rpc' # "gone" =>
            \A x \in Senders : \/ Paired(x)' \/ got'[x] = acked'[x]
                               \/ \E i \in DOMAIN buf' : buf'[i] = <<x, acked'[x]>>
      BY <1>o, <2>1, <2>3, <3>2 DEF Accounted
    <3> QED
      BY <3>3, <3>4, <3>5 DEF OrderInv, Ascending, Unreceived, Accounted
  <2> QED
    BY <1>5, RelockFacts, <2>2, <2>3
<1>6. ASSUME NEW s \in Senders, NEW c \in Senders, clone_chan(s, c) PROVE OrderInv'
  BY <1>6, <1>k DEF clone_chan, lockVars, rxVars, Go, Paired, SyncTypeOK
<1>7. ASSUME Block \/ GiveUp \/ recv_woken \/ UNCHANGED syncVars PROVE OrderInv'
  BY <1>7, <1>k DEF Block, GiveUp, recv_woken, RxAt, syncVars, lockVars, rxVars, Paired
<1>8. ASSUME NEW w \in BOOLEAN, PickUp(w) PROVE OrderInv'
  <2> DEFINE b == buf[1][1] k == buf[1][2]
  <2>1. /\ b \in Senders /\ k \in Nat /\ 1 \in DOMAIN buf /\ buf' = Tail(buf)
        /\ got' = [got EXCEPT ![b] = k] /\ UNCHANGED <<acked, spc>>
    BY <1>8, PickUpFacts
  <2>2. rpc # "gone" /\ buf # <<>> /\ \A x : Paired(x) <=> Paired(x)'
    BY <1>8, <2>1 DEF PickUp, Paired
  <2>3. /\ DOMAIN buf' = 1 .. Len(buf) - 1
        /\ \A i \in DOMAIN buf' : i \in Nat /\ i + 1 \in DOMAIN buf /\ buf'[i] = buf[i + 1]
    BY <2>1, <2>2, <1>y
  <2>4. \A i \in DOMAIN buf : i # 1 => i - 1 \in DOMAIN buf' /\ buf'[i - 1] = buf[i]
    BY <2>3, <1>y
  <2>5. \A i, j \in DOMAIN buf' : i < j /\ buf'[i][1] = buf'[j][1] => buf'[i][2] < buf'[j][2]
    <3>1. TAKE i, j \in DOMAIN buf'
    <3>2. HAVE i < j /\ buf'[i][1] = buf'[j][1]
    <3>3. i + 1 < j + 1
      BY <3>2, <2>3
    <3> QED
      BY <1>o, <3>2, <3>3, <2>3 DEF Ascending
  <2>6. \A i \in DOMAIN buf' :
          /\ got'[buf'[i][1]] < buf'[i][2]
          /\ buf'[i][2] > acked'[buf'[i][1]] =>
               Paired(buf[i][1])' /\ buf'[i][2] = acked'[buf'[i][1]] + 1
    <3>1. TAKE i \in DOMAIN buf'
    <3>2. /\ i + 1 \in DOMAIN buf /\ buf'[i] = buf[i + 1] /\ 1 < i + 1
          /\ buf[i + 1][1] \in Senders
      BY <2>3, <1>y
    <3>3. /\ got[buf[i + 1][1]] < buf[i + 1][2]
          /\ buf[i + 1][2] > acked[buf[i + 1][1]] =>
               Paired(buf[i + 1][1]) /\ buf[i + 1][2] = acked[buf[i + 1][1]] + 1
      BY <1>o, <3>2 DEF Unreceived
    <3>4. got'[buf[i + 1][1]] < buf[i + 1][2]
      <4>1. CASE buf[i + 1][1] = b
        <5>1. k < buf[i + 1][2]
          BY <1>o, <4>1, <3>2, <2>1 DEF Ascending
        <5> QED
          BY <4>1, <5>1, <2>1 DEF SyncTypeOK
      <4>2. CASE buf[i + 1][1] # b
        BY <4>2, <3>2, <3>3, <2>1 DEF SyncTypeOK
      <4> QED
        BY <4>1, <4>2
    <3>5. ASSUME NEW x, x = buf[i + 1][1], Paired(x) PROVE Paired(x)'
      BY <3>5, <2>2
    <3> QED
      BY <3>2, <3>3, <3>4, <3>5, <2>1
  <2>7. \A x \in Senders : \/ Paired(x)' \/ got'[x] = acked'[x]
                           \/ \E i \in DOMAIN buf' : buf'[i] = <<x, acked'[x]>>
    <3>1. TAKE x \in Senders
    <3>2. CASE Paired(x)
      BY <3>2, <2>2
    <3>3. ASSUME ~ Paired(x), NEW i \in DOMAIN buf, buf[i] = <<x, acked[x]>>
          PROVE  \/ got'[x] = acked'[x]
                 \/ \E j \in DOMAIN buf' : buf'[j] = <<x, acked'[x]>>
      <4>1. CASE i = 1
        <5>1. b = x /\ k = acked[x]
          BY <4>1, <3>3
        <5> HIDE DEF b, k
        <5> QED
          BY <5>1, <2>1 DEF SyncTypeOK
      <4>2. CASE i # 1
        BY <4>2, <3>3, <2>1, <2>4
      <4> QED
        BY <4>1, <4>2
    <3>4. ASSUME ~ Paired(x), got[x] = acked[x] PROVE got'[x] = acked'[x]
      <4>1. x # b
        <5>1. got[b] < k /\ (k > acked[b] => Paired(b))
          BY <1>o, <2>1 DEF Unreceived
        <5> QED
          BY <5>1, <3>4, <1>y, <2>1
      <4> HIDE DEF b, k
      <4> QED
        BY <4>1, <3>4, <2>1 DEF SyncTypeOK
    <3> QED
      BY <1>o, <3>2, <3>3, <3>4, <2>2 DEF Accounted
  <2> HIDE DEF b, k
  <2> QED
    BY <2>5, <2>6, <2>7 DEF OrderInv, Ascending, Unreceived, Accounted
<1>9. ASSUME drop_port PROVE OrderInv'
  <2>1. /\ buf' = buf \/ buf' = <<>>
        /\ rpc' = "gone" /\ UNCHANGED <<acked, got, spc>>
    BY <1>9 DEF drop_port, lockVars
  <2>2. CASE buf' = buf
    <3>1. \A x \in Senders : Paired(x) <=> Paired(x)'
      BY <2>1 DEF Paired
    <3> QED
      BY <2>1, <2>2, <3>1, <1>k
  <2>3. CASE buf' = <<>>
    <3>1. DOMAIN buf' = {}
      BY <2>3
    <3> QED
      BY <3>1, <2>1 DEF OrderInv, Ascending, Unreceived, Accounted
  <2> QED
    BY <2>1, <2>2, <2>3
<1> QED
  BY <1>1, <1>2, <1>3, <1>4, <1>5, <1>6, <1>7, <1>8, <1>9 DEF SyncStep


(***************************************************************************)
(* Every step keeps the count of the senders.                              *)
(***************************************************************************)
LEMMA LiveStep ==
  ASSUME SyncTypeOK, BlockInv, LiveInv, SyncStep
  PROVE  LiveInv'
<1> DEFINE dead == {"none", "last", "gone"}
<1>f. IsFiniteSet(Live) /\ channels = Cardinality(Live)
  BY DEF LiveInv
<1>l. \A s \in Senders : s \in Live <=> spc[s] \notin dead
  BY DEF Live
<1>k. ASSUME Live' = Live, channels' = channels,
             \A x \in Senders : spc'[x] = "last" => spc[x] = "last",
             disconnected' /\ rpc' # "gone" =>
               (disconnected /\ rpc # "gone") \/ \E x \in Senders : spc[x] = "last"
      PROVE  LiveInv'
  BY <1>k DEF LiveInv
<1>m. ASSUME NEW s \in Senders, NEW pc, pc \notin dead, spc[s] \notin dead,
             spc' = [spc EXCEPT ![s] = pc]
      PROVE  Live' = Live /\ \A x \in Senders : spc'[x] = "last" => spc[x] = "last"
  BY <1>m DEF Live, SyncTypeOK
<1>1. ASSUME NEW u \in Threads, NEW x \in Threads, signal(u, x) PROVE LiveInv'
  BY <1>1, <1>k DEF signal, lockVars, rxVars, Live
<1>2. ASSUME NEW s \in Senders, Move(s) PROVE LiveInv'
  <2>1. UNCHANGED <<channels, disconnected, rpc>>
    BY <1>2 DEF Move, lockVars, rxVars
  <2>2. \E pc : pc \notin dead /\ spc[s] \notin dead /\ spc' = [spc EXCEPT ![s] = pc]
    BY <1>2 DEF Move, Go
  <2> HIDE DEF dead
  <2> QED
    BY <2>1, <2>2, <1>k, <1>m
<1>3. ASSUME NEW s \in Senders,
             Store(s) \/ Deliver(s) \/ Offer(s) \/ send_queue(s) \/ send_relock(s)
      PROVE  LiveInv'
  <2>1. UNCHANGED <<channels, disconnected, rpc>>
    BY <1>3 DEF Store, Deliver, Offer, send_queue, send_relock, rxVars
  <2>2. \E pc : pc \notin dead /\ spc[s] \notin dead /\ spc' = [spc EXCEPT ![s] = pc]
    BY <1>3 DEF Store, Deliver, Offer, send_queue, send_relock, TxAt, Go
  <2> HIDE DEF dead
  <2> QED
    BY <2>1, <2>2, <1>k, <1>m
<1>4. ASSUME NEW s \in Senders, drop_sender(s) PROVE LiveInv'
  <2>1. /\ spc[s] = "idle" /\ channels' = channels - 1
        /\ spc' = [spc EXCEPT ![s] = IF channels = 1 THEN "last" ELSE "gone"]
        /\ UNCHANGED <<disconnected, rpc>>
    BY <1>4 DEF drop_sender, TxAt, Go, lockVars, rxVars
  <2>2. s \in Live /\ Live' = Live \ {s}
    BY <2>1 DEF Live, SyncTypeOK
  <2>3. IsFiniteSet(Live') /\ channels' = Cardinality(Live')
    BY <2>1, <2>2, <1>f, FS_RemoveElement
  <2>4. CASE channels = 1
    <3>1. Cardinality(Live') = 0
      BY <2>1, <2>3, <2>4
    <3>2. Live' = {}
      BY <3>1, <2>3, FS_EmptySet
    <3> QED
      BY <2>3, <3>2 DEF LiveInv
  <2>5. CASE channels # 1
    <3>1. ~ (\E x \in Senders : spc[x] = "last") /\ ~ (disconnected /\ rpc # "gone")
      BY <2>2 DEF LiveInv
    <3>2. \A x \in Senders : spc'[x] # "last"
      BY <3>1, <2>1, <2>5 DEF SyncTypeOK
    <3> QED
      BY <2>1, <2>3, <3>1, <3>2 DEF LiveInv
  <2> QED
    BY <2>4, <2>5
<1>5. ASSUME NEW s \in Senders, drop_chan(s) PROVE LiveInv'
  <2>1. /\ spc[s] = "last" /\ spc' = [spc EXCEPT ![s] = "gone"] /\ channels' = channels
    BY <1>5 DEF drop_chan, TxAt, Go
  <2>2. Live' = Live /\ \A x \in Senders : spc'[x] = "last" => spc[x] = "last"
    BY <2>1 DEF Live, SyncTypeOK
  <2> QED
    BY <2>1, <2>2, <1>k
<1>6. ASSUME NEW s \in Senders, NEW c \in Senders, clone_chan(s, c) PROVE LiveInv'
  <2>1. /\ spc[s] = "idle" /\ spc[c] = "none" /\ channels' = channels + 1
        /\ spc' = [spc EXCEPT ![c] = "idle"] /\ UNCHANGED <<disconnected, rpc>>
    BY <1>6 DEF clone_chan, TxAt, Go, lockVars, rxVars
  <2>2. s \in Live /\ c \notin Live /\ Live' = Live \union {c}
    BY <2>1 DEF Live, SyncTypeOK
  <2>3. IsFiniteSet(Live') /\ channels' = Cardinality(Live')
    BY <2>1, <2>2, <1>f, FS_AddElement
  <2>4. ~ (\E x \in Senders : spc[x] = "last") /\ ~ (disconnected /\ rpc # "gone")
    BY <2>2 DEF LiveInv
  <2>5. \A x \in Senders : spc'[x] # "last"
    BY <2>4, <2>1 DEF SyncTypeOK
  <2> QED
    BY <2>1, <2>3, <2>4, <2>5 DEF LiveInv
<1>7. ASSUME Block \/ GiveUp \/ recv_woken \/ drop_port \/ UNCHANGED syncVars PROVE LiveInv'
  <2>1. UNCHANGED <<channels, spc>>
    BY <1>7 DEF Block, GiveUp, recv_woken, drop_port, syncVars
  <2>2. disconnected' /\ rpc' # "gone" => disconnected /\ rpc # "gone"
    BY <1>7 DEF Block, GiveUp, recv_woken, RxAt, drop_port, syncVars, lockVars, rxVars
  <2>3. Live' = Live
    BY <2>1 DEF Live
  <2> QED
    BY <2>1, <2>2, <2>3, <1>k
<1>8. ASSUME NEW w \in BOOLEAN, PickUp(w) PROVE LiveInv'
  <2>1. UNCHANGED <<channels, spc, disconnected>> /\ rpc # "gone"
    BY <1>8, PickUpFacts DEF PickUp
  <2>2. Live' = Live
    BY <2>1 DEF Live
  <2> QED
    BY <2>1, <2>2, <1>k
<1> QED
  BY <1>1, <1>2, <1>3, <1>4, <1>5, <1>6, <1>7, <1>8 DEF SyncStep

(***************************************************************************)
(* Every step keeps HungUpIsFinal: with all senders gone none comes back,  *)
(* and a receiver that finds the buffer empty has received everything.     *)
(***************************************************************************)
LEMMA HungUpStep ==
  ASSUME SyncTypeOK, OrderInv, LiveInv, HungUpIsFinal, SyncStep
  PROVE  HungUpIsFinal'
<1> DEFINE dead == {"none", "last", "gone"}
<1>d. result = "disconnected" => \A s \in Senders : spc[s] \in dead /\ got[s] = acked[s]
  BY DEF HungUpIsFinal
<1>k. ASSUME UNCHANGED <<got, acked>>,
             result' = "disconnected" => result = "disconnected",
             \A x \in Senders : spc[x] \in dead => spc'[x] \in dead
      PROVE  HungUpIsFinal'
  BY <1>k, <1>d DEF HungUpIsFinal
<1>1. ASSUME NEW u \in Threads, NEW x \in Threads, signal(u, x) PROVE HungUpIsFinal'
  BY <1>1, <1>k DEF signal, rxVars
<1>2. ASSUME NEW s \in Senders, spc[s] \notin dead, result' = result PROVE HungUpIsFinal'
  BY <1>2, <1>d DEF HungUpIsFinal
<1>3. ASSUME NEW s \in Senders,
             \/ Move(s) \/ Store(s) \/ Deliver(s) \/ Offer(s) \/ send_queue(s)
             \/ send_relock(s) \/ drop_sender(s) \/ \E c \in Senders : clone_chan(s, c)
      PROVE  HungUpIsFinal'
  <2>1. spc[s] \notin dead
    BY <1>3 DEF Move, Store, Deliver, Offer, send_queue, send_relock, drop_sender, clone_chan,
                TxAt
  <2>2. result' = result
    BY <1>3 DEF Move, Store, Deliver, Offer, send_queue, send_relock, drop_sender, clone_chan,
                rxVars
  <2> QED
    BY <2>1, <2>2, <1>2
<1>4. ASSUME NEW s \in Senders, drop_chan(s) PROVE HungUpIsFinal'
  BY <1>4, <1>k DEF drop_chan, Go, rxVars, SyncTypeOK
<1>5. ASSUME Block \/ recv_woken \/ drop_port \/ UNCHANGED syncVars PROVE HungUpIsFinal'
  BY <1>5, <1>k DEF Block, recv_woken, drop_port, syncVars, rxVars
<1>6. ASSUME NEW w \in BOOLEAN, PickUp(w) PROVE HungUpIsFinal'
  BY <1>6, PickUpFacts DEF HungUpIsFinal
<1>7. ASSUME GiveUp PROVE HungUpIsFinal'
  <2>1. /\ buf = <<>> /\ rpc # "gone" /\ UNCHANGED <<spc, acked, got>>
        /\ result' = "disconnected" => disconnected
    BY <1>7 DEF GiveUp
  <2>2. disconnected => \A s \in Senders : spc[s] \in dead
    BY <2>1 DEF LiveInv, Live
  <2>3. \A s \in Senders : spc[s] \in dead => got[s] = acked[s]
    BY <2>1 DEF OrderInv, Accounted, Paired
  <2> QED
    BY <2>1, <2>2, <2>3 DEF HungUpIsFinal
<1> QED
  BY <1>1, <1>3, <1>4, <1>5, <1>6, <1>7 DEF SyncStep

-------------------------------------------------------------------------------
(***************************************************************************)
(* What a synchronous channel keeps, whatever its senders and its receiver *)
(* call.                                                                   *)
(***************************************************************************)
THEOREM SyncInvariant == SyncSpec => []SyncInv
<1>1. SyncInit => SyncInv
  <2>1. SUFFICES ASSUME SyncInit PROVE SyncInv
    OBVIOUS
  <2>2. /\ First \in Senders /\ Rx \notin Senders /\ Rx # None /\ None \notin Senders
        /\ Caps \subseteq Nat
    BY SyncAssumption
  <2>3. queue = <<>> /\ buf = <<>> /\ DOMAIN queue = {} /\ DOMAIN buf = {}
    BY <2>1 DEF SyncInit
  <2>4. SyncTypeOK
    <3>1. queue \in Seq(Senders) /\ buf \in Seq(Senders \X Nat)
      BY <2>3
    <3> QED
      BY <2>1, <2>2, <3>1 DEF SyncInit, SyncTypeOK
  <2>5. QueueInv /\ OrderInv
    BY <2>1, <2>3 DEF SyncInit, QueueInv, OrderInv, Ascending, Unreceived, Accounted
  <2>6. BlockInv /\ PairInv
    BY <2>1, <2>2 DEF SyncInit, BlockInv, PairInv, InWait, Paired
  <2>7. LiveInv
    <3>1. Live = {First}
      BY <2>1, <2>2 DEF SyncInit, Live
    <3>2. IsFiniteSet(Live) /\ Cardinality(Live) = 1
      BY <3>1, FS_Singleton
    <3>3. ~ (\E s \in Senders : spc[s] = "last") /\ ~ disconnected /\ channels = 1
      BY <2>1 DEF SyncInit
    <3> QED
      BY <3>2, <3>3 DEF LiveInv
  <2>8. HandedOver /\ HungUpIsFinal
    BY <2>1 DEF SyncInit, HandedOver, HungUpIsFinal
  <2> QED
    BY <2>4, <2>5, <2>6, <2>7, <2>8 DEF SyncInv
<1>2. SyncInv /\ [SyncNext]_syncVars => SyncInv'
  <2>1. SUFFICES ASSUME SyncInv, [SyncNext]_syncVars PROVE SyncInv'
    OBVIOUS
  <2>2. SyncStep
    BY <2>1, StepCases DEF SyncInv
  <2> QED
    BY <2>1, <2>2, SyncTypeStep, QueueStep, BlockStep, PairStep, OrderStep, LiveStep,
       HandedOverStep, HungUpStep
    DEF SyncInv
<1> QED
  BY <1>1, <1>2, PTL DEF SyncSpec

(***************************************************************************)
(* A message that send or try_send reports as sent on a channel of         *)
(* capacity 0 has been received, or a receiver in its call takes it.       *)
(***************************************************************************)
THEOREM SyncHandsOver == SyncSpec => []HandedOver
<1>1. SyncInv => HandedOver
  BY DEF SyncInv
<1> QED
  BY <1>1, SyncInvariant, PTL

(***************************************************************************)
(* recv, try_recv and recv_deadline return Disconnected only when all      *)
(* senders are gone and all that they sent has been received.              *)
(***************************************************************************)
THEOREM SyncHangsUp == SyncSpec => []HungUpIsFinal
<1>1. SyncInv => HungUpIsFinal
  BY DEF SyncInv
<1> QED
  BY <1>1, SyncInvariant, PTL

(***************************************************************************)
(* No assertion of sync.rs fails, and no arm that it calls unreachable is  *)
(* reached.                                                                *)
(***************************************************************************)
THEOREM SyncAssertsHold == SyncSpec => []SyncAsserts
<1>1. SyncInv => SyncAsserts
  <2>1. SUFFICES ASSUME SyncInv PROVE SyncAsserts
    OBVIOUS
  <2>2. /\ SyncTypeOK /\ QueueInv /\ BlockInv /\ PairInv /\ OrderInv /\ LiveInv
    BY <2>1 DEF SyncInv
  <2>t. /\ Rx \notin Senders /\ Rx # None /\ None \notin Senders
        /\ blocker \in Senders \union {Rx, None} /\ canceled \in Senders \union {None}
    BY <2>2, SyncAssumption DEF SyncTypeOK, Threads
  <2>3. /\ RxAt("idle") => blocker # Rx
        /\ RxAt("woken") /\ ~ disconnected => buf # <<>>
        /\ RxAt("late") /\ buf # <<>> => blocker # Rx
        /\ blocker \in Senders => canceled = blocker
    BY <2>2 DEF RxAt, BlockInv, InWait
  <2>4. ASSUME blocker \in Senders PROVE cap = 0 /\ Len(buf) = 1
    <3>1. buf = << <<blocker, acked[blocker] + 1>> >> /\ cap = 0
      BY <2>2, <2>4 DEF BlockInv
    <3> QED
      BY <3>1
  <2>5. buf = <<>> => Len(buf) = 0
    OBVIOUS
  <2>6. RxAt("idle") /\ ~ disconnected /\ buf = <<>> => blocker = None
    BY <2>3, <2>4, <2>5, <2>t
  <2>7. ASSUME NEW s \in Senders
        PROVE  /\ disconnected \/ Len(buf) >= capacity
                    \/ (blocker \in {None, Rx} /\ canceled = None)
               /\ TxAt(s, "last") => disconnected \/ blocker \in {None, Rx}
               /\ TxAt(s, "relock") /\ flag[s] => buf # <<>> /\ buf[1] = <<s, acked[s] + 1>>
    <3>1. blocker \notin Senders => blocker \in {None, Rx} /\ canceled = None
      BY <2>2, <2>t DEF BlockInv
    <3>2. blocker \in Senders => Len(buf) >= capacity
      BY <2>4 DEF capacity
    <3>3. ASSUME TxAt(s, "last"), blocker \in Senders PROVE FALSE
      <4>1. Live = {}
        BY <2>2, <3>3 DEF LiveInv, TxAt
      <4>2. spc[blocker] = "blocked"
        BY <2>2, <3>3 DEF BlockInv
      <4> QED
        BY <3>3, <4>1, <4>2 DEF Live
    <3>4. ASSUME TxAt(s, "relock"), flag[s] PROVE buf # <<>> /\ buf[1] = <<s, acked[s] + 1>>
      <4>1. buf = << <<s, acked[s] + 1>> >>
        BY <2>2, <3>4 DEF PairInv, Paired, TxAt
      <4> QED
        BY <4>1
    <3> QED
      BY <3>1, <3>2, <3>3, <3>4
  <2>8. ASSUME rpc = "gone", \A s \in Senders : spc[s] \in {"none", "gone"}
        PROVE  channels = 0 /\ queue = <<>> /\ canceled = None
    <3>1. Live = {}
      BY <2>8 DEF Live
    <3>2. channels = 0
      BY <2>2, <3>1, FS_EmptySet DEF LiveInv
    <3>3. canceled = None
      BY <2>2, <2>8 DEF BlockInv
    <3>4. queue = <<>>
      <4>1. ASSUME queue # <<>> PROVE FALSE
        <5>1. 1 \in DOMAIN queue /\ queue[1] \in Senders
          BY <2>2, <4>1 DEF SyncTypeOK
        <5> QED
          BY <2>2, <2>8, <5>1 DEF QueueInv
      <4> QED
        BY <4>1
    <3> QED
      BY <3>2, <3>3, <3>4
  <2> QED
    BY <2>3, <2>6, <2>7, <2>8 DEF SyncAsserts
<1> QED
  BY <1>1, SyncInvariant, PTL


===============================================================================
