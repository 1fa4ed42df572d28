------------------------------ MODULE SyncChannel ------------------------------
(***************************************************************************)
(* Synchronous channels (library/std/src/sync/mpsc/sync.rs).  The state is *)
(* in a Mutex, so that what a call does between lock and unlock is one     *)
(* step; the signals that it sends after the unlock are steps of their     *)
(* own.  A thread that waits goes on when its current token is signalled   *)
(* (blocking.rs); the signal of an earlier one has no effect.              *)
(***************************************************************************)
EXTENDS Integers, Sequences, FiniteSets

CONSTANTS
  Senders,           \* the SyncSender handles, each used by one thread
  First,             \* the one that sync_channel returns
  Rx,                \* the thread of the Receiver
  Caps,              \* the bounds that sync_channel may be called with
  MaxMsgs            \* how many messages each sender gets through

None == "none"

ASSUME SyncAssumption ==
  /\ First \in Senders /\ Rx \notin Senders /\ Caps \subseteq Nat
  /\ None \notin Senders \union {Rx} /\ MaxMsgs \in [Senders -> Nat]

VARIABLES
  cap, disconnected, queue, blocker, buf, channels,
  canceled,          \* whose flag State::canceled points to
  flag,              \* the local canceled of each send
  woken,             \* whether the current token of each thread was signalled
  sig,               \* the threads whose current token each thread is to signal
  spc,               \* where each sender is
  rpc, call,         \* where the receiver is, in which call
  acked, got,        \* history: messages sent with Ok, and received
  result             \* and what the last receive returned

lockVars == <<cap, disconnected, queue, blocker, buf, canceled>>
rxVars == <<rpc, call, got, result>>
syncVars == <<lockVars, channels, flag, woken, sig, spc, rxVars, acked>>

Threads == Senders \union {Rx}

capacity == IF cap = 0 THEN 1 ELSE cap

SyncInit ==
  /\ cap \in Caps /\ disconnected = FALSE /\ queue = <<>> /\ blocker = None /\ buf = <<>>
  /\ canceled = None /\ flag = [s \in Senders |-> FALSE] /\ channels = 1
  /\ woken = [t \in Threads |-> FALSE] /\ sig = [t \in Threads |-> {}]
  /\ spc = [s \in Senders |-> IF s = First THEN "idle" ELSE "none"]
  /\ rpc = "idle" /\ call = "none"
  /\ acked = [s \in Senders |-> 0] /\ got = [s \in Senders |-> 0] /\ result = "none"

-------------------------------------------------------------------------------
(* blocking.rs. *)

(* tokens: a new token for thread t; who still holds the last one may drop it. *)
tokens(t) ==
  /\ woken' = [woken EXCEPT ![t] = FALSE]
  /\ sig' = [u \in Threads |-> sig[u] \ {t}]

(* The signals of thread u, in whatever order. *)
signal(u, t) ==
  /\ t \in sig[u]
  /\ sig' = [sig EXCEPT ![u] = @ \ {t}]
  /\ woken' = [woken EXCEPT ![t] = TRUE]
  /\ UNCHANGED <<lockVars, channels, flag, spc, rxVars, acked>>

(* A thread with signals to send goes on with that first. *)
TxAt(s, pc) == spc[s] = pc /\ sig[s] = {}
RxAt(pc) == rpc = pc /\ sig[Rx] = {}

Go(s, pc) == spc' = [spc EXCEPT ![s] = pc]

-------------------------------------------------------------------------------
(* The senders. *)

(* buf.enqueue(t); with the message's number its Ok is also accounted for. *)
Enqueue(s) == buf' = Append(buf, <<s, acked[s] + 1>>)
Ok(s) == acked' = [acked EXCEPT ![s] = @ + 1]

(* A blocked receiver is about to receive what was enqueued. *)
WakeReceiver(s) ==
  /\ blocker = Rx
  /\ blocker' = None
  /\ sig' = [sig EXCEPT ![s] = @ \union {Rx}]
  /\ UNCHANGED woken

send(s) ==
  /\ TxAt(s, "idle") /\ acked[s] < MaxMsgs[s]
  /\ Go(s, "acquire")
  /\ UNCHANGED <<lockVars, channels, flag, woken, sig, rxVars, acked>>

(* acquire_send_slot and what send does with the guard that it returns. *)
send_refused(s) ==
  /\ TxAt(s, "acquire") /\ disconnected
  /\ Go(s, "idle")
  /\ UNCHANGED <<lockVars, channels, flag, woken, sig, rxVars, acked>>

send_enqueue(s) ==
  /\ TxAt(s, "acquire") /\ ~ disconnected /\ Len(buf) < capacity
  /\ Enqueue(s)
  /\ \/ /\ WakeReceiver(s) /\ Go(s, "idle") /\ Ok(s)
        /\ UNCHANGED <<canceled, flag>>
     \/ /\ blocker = None /\ cap # 0
        /\ Go(s, "idle") /\ Ok(s)
        /\ UNCHANGED <<blocker, canceled, flag, woken, sig>>
     \/ /\ blocker = None /\ cap = 0
        /\ flag' = [flag EXCEPT ![s] = FALSE] /\ canceled' = s
        /\ blocker' = s /\ tokens(s)
        /\ Go(s, "blocked")
        /\ UNCHANGED acked
  /\ UNCHANGED <<cap, disconnected, queue, channels, rxVars>>

send_queue(s) ==
  /\ TxAt(s, "acquire") /\ ~ disconnected /\ Len(buf) >= capacity
  /\ queue' = Append(queue, s) /\ tokens(s)
  /\ Go(s, "queued")
  /\ UNCHANGED <<cap, disconnected, blocker, buf, canceled, channels, flag, rxVars, acked>>

(* WaitToken::wait, in acquire_send_slot and in wait. *)
send_woken(s) ==
  /\ woken[s]
  /\ \/ TxAt(s, "queued") /\ Go(s, "acquire")
     \/ TxAt(s, "blocked") /\ Go(s, "relock")
  /\ UNCHANGED <<lockVars, channels, flag, woken, sig, rxVars, acked>>

(* A rendezvous is over: the port went away, or the data was received. *)
send_relock(s) ==
  /\ TxAt(s, "relock")
  /\ IF flag[s] THEN buf' = Tail(buf) /\ UNCHANGED acked ELSE Ok(s) /\ UNCHANGED buf
  /\ Go(s, "idle")
  /\ UNCHANGED <<cap, disconnected, queue, blocker, canceled, channels, flag, woken, sig,
                 rxVars>>

(* A slip: nobody needs to be waiting for what try_send hands over. *)
TrySendUnpaired(s) ==
  /\ TxAt(s, "idle") /\ acked[s] < MaxMsgs[s]
  /\ ~ disconnected /\ Len(buf) # capacity
  /\ \/ WakeReceiver(s)
     \/ blocker = None /\ UNCHANGED <<blocker, woken, sig>>
  /\ Enqueue(s) /\ Ok(s)
  /\ UNCHANGED <<cap, disconnected, queue, canceled, channels, flag, spc, rxVars>>

(* try_send, where it does not return an error. *)
try_send(s) ==
  /\ TxAt(s, "idle") /\ acked[s] < MaxMsgs[s]
  /\ ~ disconnected /\ Len(buf) # capacity
  /\ \/ WakeReceiver(s)
     \/ blocker = None /\ cap # 0 /\ UNCHANGED <<blocker, woken, sig>>
  /\ Enqueue(s) /\ Ok(s)
  /\ UNCHANGED <<cap, disconnected, queue, canceled, channels, flag, spc, rxVars>>

clone_chan(s, c) ==
  /\ TxAt(s, "idle") /\ spc[c] = "none"
  /\ channels' = channels + 1
  /\ Go(c, "idle")
  /\ UNCHANGED <<lockVars, flag, woken, sig, rxVars, acked>>

(* drop_chan: the last of the senders ... *)
drop_sender(s) ==
  /\ TxAt(s, "idle")
  /\ channels' = channels - 1
  /\ Go(s, IF channels = 1 THEN "last" ELSE "gone")
  /\ UNCHANGED <<lockVars, flag, woken, sig, rxVars, acked>>

(* ... disconnects the channel. *)
drop_chan(s) ==
  /\ TxAt(s, "last")
  /\ disconnected' = TRUE
  /\ Go(s, "gone")
  /\ \/ ~ disconnected /\ WakeReceiver(s)
     \/ (disconnected \/ blocker = None) /\ UNCHANGED <<blocker, woken, sig>>
  /\ UNCHANGED <<cap, queue, buf, canceled, channels, flag, rxVars, acked>>

-------------------------------------------------------------------------------
(* The receiver. *)

(* Return r, with nothing received. *)
Return(r) ==
  /\ rpc' = "idle" /\ call' = "none" /\ result' = r
  /\ UNCHANGED got

(* buf.dequeue(), and the message m = <<s, k>> is returned. *)
Receive ==
  /\ buf' = Tail(buf)
  /\ got' = [got EXCEPT ![buf[1][1]] = buf[1][2]]
  /\ rpc' = "idle" /\ call' = "none" /\ result' = "none"

(* A slip: the flag of a sender whose data was received stays registered. *)
ForgetCanceled(waited, b) ==
  LET acks == cap = 0 /\ ~ waited
  IN  /\ queue' = IF queue = <<>> THEN queue ELSE Tail(queue)
      /\ blocker' = IF acks THEN None ELSE b
      /\ sig' = [sig EXCEPT ![Rx] = (IF queue = <<>> THEN {} ELSE {queue[1]})
                                        \union (IF acks THEN {b} \ {None} ELSE {})]
      /\ UNCHANGED canceled

(* A slip: a sender that waits for a slot is woken only with no other to ack. *)
WakeOneSender(waited, b) ==
  LET acks == cap = 0 /\ ~ waited /\ b # None
  IN  /\ queue' = IF queue = <<>> \/ acks THEN queue ELSE Tail(queue)
      /\ blocker' = IF acks THEN None ELSE b
      /\ canceled' = IF acks THEN None ELSE canceled
      /\ sig' = [sig EXCEPT ![Rx] = CASE acks -> {b}
                                        [] ~ acks /\ queue # <<>> -> {queue[1]}
                                        [] OTHER -> {}]

(* wakeup_senders: one that waits for a slot, and for a rendezvous that did *)
(* not begin with a wait of ours the one, b, whose data was received.       *)
wakeup_senders(waited, b) ==
  LET acks == cap = 0 /\ ~ waited
      pending_sender1 == IF queue = <<>> THEN {} ELSE {queue[1]}
      pending_sender2 == IF acks THEN {b} \ {None} ELSE {}
  IN  /\ queue' = IF queue = <<>> THEN queue ELSE Tail(queue)
      /\ blocker' = IF acks THEN None ELSE b
      /\ canceled' = IF pending_sender2 # {} THEN None ELSE canceled
      /\ sig' = [sig EXCEPT ![Rx] = pending_sender1 \union pending_sender2]

Dequeue(waited, b) ==
  /\ Receive /\ wakeup_senders(waited, b)
  /\ UNCHANGED <<cap, disconnected>>

Fail(r) == Return(r) /\ UNCHANGED <<lockVars, sig>>

try_recv ==
  /\ RxAt("idle")
  /\ \/ buf # <<>> /\ Dequeue(FALSE, blocker)
     \/ buf = <<>> /\ Fail(IF disconnected THEN "disconnected" ELSE "empty")
  /\ UNCHANGED <<channels, flag, woken, spc, acked>>

(* recv of call c ("recv", or "deadline" for recv_deadline), up to the wait. *)
recv(c) ==
  /\ RxAt("idle")
  /\ \/ /\ ~ disconnected /\ buf = <<>>
        /\ blocker' = Rx /\ tokens(Rx)
        /\ rpc' = "waiting" /\ call' = c /\ result' = "none"
        /\ UNCHANGED <<cap, disconnected, queue, buf, canceled, got>>
     \/ buf # <<>> /\ Dequeue(FALSE, blocker) /\ UNCHANGED woken
     \/ disconnected /\ buf = <<>> /\ Fail("disconnected") /\ UNCHANGED woken
  /\ UNCHANGED <<channels, flag, spc, acked>>

(* The wait ends: with a signal, or at the deadline. *)
recv_woken ==
  /\ RxAt("waiting")
  /\ \/ woken[Rx] /\ rpc' = "woken"
     \/ call = "deadline" /\ rpc' = "late"
  /\ UNCHANGED <<lockVars, channels, flag, woken, sig, call, got, result, spc, acked>>

(* abort_selection, after a timeout: the blocker that it leaves. *)
abort_selection == IF blocker = Rx THEN None ELSE blocker

(* A slip: the two conditions after the wait in the other order. *)
DisconnectedFirst(waited) ==
  /\ RxAt(IF waited THEN "woken" ELSE "late")
  /\ \/ /\ buf # <<>> /\ ~ disconnected
        /\ Dequeue(waited, IF waited THEN blocker ELSE abort_selection)
     \/ /\ buf = <<>> \/ disconnected
        /\ Return(IF disconnected THEN "disconnected" ELSE "empty")
        /\ blocker' = IF waited THEN blocker ELSE abort_selection
        /\ UNCHANGED <<cap, disconnected, queue, buf, canceled, sig>>
  /\ UNCHANGED <<channels, flag, woken, spc, acked>>

(* recv from the relock on.  After a timeout recv_deadline does not try again. *)
recv_relock(waited) ==
  /\ RxAt(IF waited THEN "woken" ELSE "late")
  /\ \/ buf # <<>> /\ Dequeue(waited, IF waited THEN blocker ELSE abort_selection)
     \/ /\ buf = <<>>
        /\ Return(IF disconnected THEN "disconnected" ELSE "empty")
        /\ blocker' = IF waited THEN blocker ELSE abort_selection
        /\ UNCHANGED <<cap, disconnected, queue, buf, canceled, sig>>
  /\ UNCHANGED <<channels, flag, woken, spc, acked>>

(* drop_port: every sender that waits is released; with capacity 0 the one   *)
(* that waits for its data to be received takes it back.                     *)
drop_port ==
  /\ RxAt("idle")
  /\ rpc' = "gone"
  /\ \/ disconnected /\ UNCHANGED <<lockVars, flag, sig>>
     \/ /\ ~ disconnected
        /\ disconnected' = TRUE
        /\ buf' = IF cap # 0 THEN <<>> ELSE buf
        /\ queue' = <<>> /\ blocker' = None
        /\ canceled' = IF blocker = None THEN canceled ELSE None
        /\ flag' = [s \in Senders |-> flag[s] \/ (blocker = s /\ canceled = s)]
        /\ sig' = [sig EXCEPT ![Rx] = {queue[i] : i \in DOMAIN queue}
                                          \union ({blocker} \ {None})]
        /\ UNCHANGED cap
  /\ UNCHANGED <<channels, woken, call, got, result, spc, acked>>

-------------------------------------------------------------------------------
SendStep(s) ==
  \/ send_refused(s) \/ send_enqueue(s) \/ send_queue(s) \/ send_woken(s) \/ send_relock(s)
  \/ drop_chan(s)
  \/ \E t \in Threads : signal(s, t)

RecvStep ==
  \/ recv_woken \/ \E waited \in BOOLEAN : recv_relock(waited)
  \/ \E t \in Threads : signal(Rx, t)

Client ==
  \/ \E s \in Senders : send(s) \/ try_send(s) \/ drop_sender(s) \/ \E c \in Senders : clone_chan(s, c)
  \/ try_recv \/ \E c \in {"recv", "deadline"} : recv(c)
  \/ drop_port

(* Both ends are gone, and Packet::drop frees the channel. *)
AllGone ==
  /\ rpc = "gone" /\ \A s \in Senders : spc[s] \in {"none", "gone"}
  /\ \A t \in Threads : sig[t] = {}
  /\ UNCHANGED syncVars

SyncNext == (\E s \in Senders : SendStep(s)) \/ RecvStep \/ Client \/ AllGone

(* A thread that is in a call goes on; what is called is the client's choice. *)
SyncFairness == (\A s \in Senders : WF_syncVars(SendStep(s))) /\ WF_syncVars(RecvStep)

SyncSpec == SyncInit /\ [][SyncNext]_syncVars /\ SyncFairness

-------------------------------------------------------------------------------
(* The assertions of sync.rs and its arms that are unreachable: wait and     *)
(* wait_timeout_receiver find no one blocked; a sender with a slot, and the  *)
(* last one on its way out, find no other sender in a rendezvous, and no     *)
(* flag; a sender that is told to take its data back finds it; a receiver    *)
(* that was woken finds data unless all senders are gone; who receives or    *)
(* drops the port does not find itself blocked; a sender in a rendezvous has *)
(* its flag registered; Packet::drop finds no senders, queue or flag.        *)
SyncAsserts ==
  /\ RxAt("idle") => blocker # Rx
  /\ RxAt("idle") /\ ~ disconnected /\ buf = <<>> => blocker = None
  /\ RxAt("woken") /\ ~ disconnected => buf # <<>>
  /\ RxAt("late") /\ buf # <<>> => blocker # Rx
  /\ blocker \in Senders => canceled = blocker
  /\ \A s \in Senders :
       /\ TxAt(s, "acquire") \/ TxAt(s, "idle") =>
            disconnected \/ Len(buf) >= capacity \/ (blocker \in {None, Rx} /\ canceled = None)
       /\ TxAt(s, "last") => disconnected \/ blocker \in {None, Rx}
       /\ TxAt(s, "relock") /\ flag[s] => buf # <<>> /\ buf[1] = <<s, acked[s] + 1>>
  /\ rpc = "gone" /\ (\A s \in Senders : spc[s] \in {"none", "gone"}) =>
       channels = 0 /\ queue = <<>> /\ canceled = None

(* SyncSender::send on a channel of capacity 0 "guarantees that the receiver *)
(* has indeed received the data if this function returns success": when Ok   *)
(* is decided the receiver has the message, or it is in a call that waited   *)
(* and takes it out of the buffer, whether it is woken or times out.         *)
HandedOver ==
  cap = 0 => \A s \in Senders : acked[s] > got[s] =>
    buf = << <<s, acked[s]>> >> /\ rpc \in {"waiting", "woken", "late"}

(* A receive returns Disconnected only when all senders are gone and every   *)
(* message that was sent with Ok has been received.                          *)
HungUpIsFinal ==
  result = "disconnected" =>
    \A s \in Senders : spc[s] \in {"none", "last", "gone"} /\ got[s] = acked[s]

(* No wakeup is lost: with room in the buffer a sender that waits for a slot *)
(* gets on; with the port gone every sender does; with the data received a   *)
(* rendezvous ends; and a receiver with data, or with no senders, returns.   *)
SyncProgress ==
  /\ \A s \in Senders :
       /\ (spc[s] # "idle" /\ disconnected) ~> (spc[s] \in {"none", "idle", "gone"})
       /\ (spc[s] = "blocked" /\ blocker # s) ~> (spc[s] = "idle")
  /\ (queue # <<>> /\ Len(buf) < capacity) ~> (queue = <<>> \/ Len(buf) >= capacity)
  /\ (rpc = "waiting" /\ (buf # <<>> \/ disconnected)) ~> (rpc = "idle")

===============================================================================
