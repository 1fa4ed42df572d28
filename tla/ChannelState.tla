----------------------------- MODULE ChannelState -----------------------------
(***************************************************************************)
(* The state of an asynchronous channel (library/std/src/sync/mpsc): the   *)
(* oneshot packet it starts with, the stream packet it is upgraded to by a *)
(* second send and the shared packet it is upgraded to by a clone, with    *)
(* the threads that work on them, and the tokens of blocking.rs, by which  *)
(* a sender wakes the receiver.                                            *)
(***************************************************************************)
EXTENDS Integers, Sequences

CONSTANTS
  Senders,           \* the Sender handles, each used by one thread
  First,             \* the one that channel() returns
  Rx,                \* the thread of the Receiver
  MaxMsgs,           \* how many messages each of them sends
  MaxTimeouts,       \* how often recv_deadline may run out of time
  MAX_STEALS,        \* 1 << 20, and 5 in the unit tests of the library
  FUDGE              \* 1024

ASSUME ChannelAssumption ==
  /\ First \in Senders /\ Rx \notin Senders
  /\ MaxMsgs \in [Senders -> Nat] /\ MaxTimeouts \in Nat
  /\ MAX_STEALS \in Nat /\ FUDGE \in Nat /\ \A s \in Senders : FUDGE > 4 * MaxMsgs[s]

DISCONNECTED == -2 * FUDGE       \* isize::MIN: below every count and the fudge

VARIABLES
  \* oneshot::Packet
  state, data, upgrade,
  arcs,              \* which sides still hold the Arc of the oneshot packet
  \* stream::Packet and shared::Packet, by name
  cnt, steals, to_wake, queue, port_dropped,
  channels, sender_drain, select_lock,
  \* the receiver, and its current WaitToken
  rpc, rxAt, call, phase, woken, token,
  popped, amount,    \* locals: the message popped, and what to add to cnt
  \* each sender
  spc, sf, op, at, old, tok, held,
  port,              \* the drop_port calls each thread is in, innermost first
  \* history
  sent, got, result,
  due,               \* a message was there when the call began
  timeouts           \* how often recv_deadline has called abort_selection

local == <<popped, amount>>
oneVars == <<state, data, upgrade, arcs>>
countVars == <<cnt, steals, to_wake, queue, port_dropped>>
sharedVars == <<channels, sender_drain, select_lock>>
rxVars == <<rpc, rxAt, call, phase, local>>
wakeVars == <<woken, token>>
txVars == <<spc, sf, op, at, old, tok, held>>
history == <<sent, got, result, due, timeouts>>

channelVars == <<oneVars, countVars, sharedVars, rxVars, wakeVars, txVars, port, history>>

Threads == Senders \union {Rx}
Counted == {"stream", "shared"}
GoUp == <<"GoUp", 0>>        \* the message that carries the port of the shared packet
Tokens == {"cur", "old"}     \* the SignalToken of this recv, and of earlier ones

ChannelInit ==
  /\ state = "EMPTY" /\ data = <<>> /\ upgrade = "NothingSent" /\ arcs = {"tx", "rx"}
  /\ cnt = [p \in Counted |-> 0]
  /\ steals = [p \in Counted |-> 0]
  /\ to_wake = [p \in Counted |-> "EMPTY"]
  /\ queue = [p \in Counted |-> <<>>]
  /\ port_dropped = [p \in Counted |-> FALSE]
  /\ channels = 2 /\ sender_drain = 0 /\ select_lock = "free"
  /\ rpc = "idle" /\ rxAt = "oneshot" /\ call = "none" /\ phase = 1
  /\ popped = <<>> /\ amount = 0
  /\ woken = FALSE /\ token = FALSE
  /\ spc = [s \in Senders |-> IF s = First THEN "idle" ELSE "none"]
  /\ sf = [s \in Senders |-> IF s = First THEN "oneshot" ELSE "shared"]
  /\ op = [s \in Senders |-> "none"]
  /\ at = [s \in Senders |-> "oneshot"]
  /\ old = [s \in Senders |-> "none"]
  /\ tok = [s \in Senders |-> "EMPTY"]
  /\ held = [s \in Senders |-> "EMPTY"]
  /\ port = [a \in Threads |-> <<>>]
  /\ sent = [s \in Senders |-> 0] /\ got = [s \in Senders |-> 0] /\ result = "none"
  /\ due = FALSE /\ timeouts = 0

(* A thread that is inside drop_port goes on with that first. *)
RxAt(pc) == rpc = pc /\ port[Rx] = <<>>
TxAt(s, pc) == spc[s] = pc /\ port[s] = <<>>

(* A send is late if it begins after the Receiver has been dropped. *)
HungUp == rpc = "gone" /\ port[Rx] = <<>>
SendOp == IF HungUp THEN "late" ELSE "send"

(* A drop_port call on packet p, about to begin. *)
DropPort(p) == [p |-> p, pc |-> "flag", steals |-> 0]

-------------------------------------------------------------------------------

(* blocking::tokens: what is left of earlier SignalTokens is out of date. *)
Age(t) == IF t = "cur" THEN "old" ELSE t

tokens ==
  /\ woken' = FALSE
  /\ tok' = [s \in Senders |-> Age(tok[s])]
  /\ held' = [s \in Senders |-> Age(held[s])]
  /\ UNCHANGED token

(* SignalToken::signal: the compare-exchange on woken, ... *)
signal_woken(s) ==
  /\ TxAt(s, "signal")
  /\ woken' = (woken \/ tok[s] = "cur")
  /\ spc' = [spc EXCEPT ![s] = IF tok[s] = "cur" /\ woken THEN "end" ELSE "unpark"]
  /\ tok' = [tok EXCEPT ![s] = "EMPTY"]
  /\ UNCHANGED <<oneVars, countVars, sharedVars, rxVars, token, sf, op, at, old,
                 held, port, history>>

(* ... and unpark. *)
signal_unpark(s) ==
  /\ TxAt(s, "unpark")
  /\ token' = TRUE
  /\ spc' = [spc EXCEPT ![s] = "end"]
  /\ UNCHANGED <<oneVars, countVars, sharedVars, rxVars, woken, sf, op, at, old,
                 tok, held, port, history>>

(* The deadline of recv_deadline passes, wherever the receiver is. *)
deadline_passes ==
  /\ call = "deadline"
  /\ call' = "expired"
  /\ UNCHANGED <<oneVars, countVars, sharedVars, rpc, rxAt, phase, local,
                 wakeVars, txVars, port, history>>

(***************************************************************************)
(* WaitToken::wait and wait_max_until: until woken, or the deadline, park. *)
(***************************************************************************)
wait ==
  /\ RxAt("wait")
  /\ rpc' = IF woken THEN IF rxAt = "oneshot" THEN "try" ELSE "pop"
            ELSE IF call = "expired" THEN "abort" ELSE "park"
  /\ phase' = 2
  /\ timeouts' = timeouts + (IF rpc' = "abort" THEN 1 ELSE 0)
  /\ UNCHANGED <<oneVars, countVars, sharedVars, rxAt, call, local,
                 wakeVars, txVars, port, sent, got, result, due>>

park ==
  /\ RxAt("park")
  /\ \/ token /\ token' = FALSE
     \/ call = "expired" /\ UNCHANGED token
  /\ rpc' = "wait"
  /\ UNCHANGED <<oneVars, countVars, sharedVars, rxAt, call, phase, local,
                 woken, txVars, port, history>>

-------------------------------------------------------------------------------

(***************************************************************************)
(* How a call of the receiver ends.  A flavor's Upgraded makes mod.rs swap *)
(* the new port in, drop the old one and go on with the loop.              *)
(***************************************************************************)
Receive(m) ==
  /\ got' = [got EXCEPT ![m[1]] = m[2]]
  /\ rpc' = "idle" /\ call' = "none" /\ phase' = 1
  /\ UNCHANGED <<rxAt, port, sent, result, due, timeouts>>

Return(r) ==
  /\ result' = r /\ rpc' = "idle" /\ call' = "none" /\ phase' = 1
  /\ UNCHANGED <<rxAt, port, sent, got, due, timeouts>>

(* Empty ends try_recv, has recv_deadline look at the time, and recv panic. *)
ReturnEmpty ==
  \/ call = "try" /\ Return("empty")
  \/ /\ call # "try" /\ rpc' = IF call = "recv" THEN "panic" ELSE "again"
     /\ UNCHANGED <<rxAt, call, phase, port, history>>

Upgraded(p) ==
  /\ rxAt' = p
  /\ port' = [port EXCEPT ![Rx] = <<DropPort(rxAt)>>]
  /\ rpc' = "again"
  /\ UNCHANGED <<call, phase, history>>

===============================================================================
