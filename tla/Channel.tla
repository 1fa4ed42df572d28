-------------------------------- MODULE Channel --------------------------------
(***************************************************************************)
(* Asynchronous channels (library/std/src/sync/mpsc/mod.rs): Sender and    *)
(* Receiver, which start with a oneshot packet and move, each when it gets *)
(* to it, to the stream or shared packet that a second send or a clone     *)
(* puts in its place.                                                      *)
(***************************************************************************)
EXTENDS Counted

CONSTANT Calls       \* how the receiver receives: of "try", "recv", "deadline"

-------------------------------------------------------------------------------
(* The Receiver. *)

(* Where the loops of try_recv, recv and recv_deadline go in a packet. *)
Top(p, c) == IF p # "oneshot" THEN "pop" ELSE IF c = "try" THEN "try" ELSE "load"

receive(c) ==
  /\ RxAt("idle") /\ c \in Calls
  /\ c = "deadline" => timeouts < MaxTimeouts
  /\ call' = c /\ rpc' = Top(rxAt, c) /\ result' = "none"
  /\ due' = (c = "try" /\ \E s \in Senders : got[s] < sent[s] /\ spc[s] \in {"idle", "gone"})
  /\ UNCHANGED <<oneVars, countVars, sharedVars, rxAt, phase, local, wakeVars, txVars, port,
                 sent, got, timeouts>>

(* Past the deadline recv_deadline gives up, though it may have a new port. *)
again ==
  /\ RxAt("again")
  /\ IF call = "expired" THEN rpc' = "idle" /\ call' = "none"
                         ELSE rpc' = Top(rxAt, call) /\ UNCHANGED call
  /\ phase' = 1
  /\ UNCHANGED <<oneVars, countVars, sharedVars, rxAt, local, wakeVars,
                 txVars, port, history>>

drop_receiver ==
  /\ RxAt("idle")
  /\ rpc' = "gone" /\ result' = "none"
  /\ port' = [port EXCEPT ![Rx] = <<DropPort(rxAt)>>]
  /\ UNCHANGED <<oneVars, countVars, sharedVars, rxAt, call, phase, local,
                 wakeVars, txVars, sent, got, due, timeouts>>

-------------------------------------------------------------------------------
(* The Senders. *)

(* A second send on a oneshot makes it a stream. *)
send(s) ==
  /\ TxAt(s, "idle") /\ sent[s] < MaxMsgs[s]
  /\ sf[s] = "oneshot" => upgrade # "NothingSent"
  /\ IF sf[s] = "oneshot"
     THEN /\ oneshot_upgrade(s, "stream", IF state = "DISCONNECTED" THEN "end" ELSE "port")
          /\ op' = [op EXCEPT ![s] = IF state = "DISCONNECTED" THEN "refused" ELSE SendOp]
     ELSE /\ Go(s, "port")
          /\ at' = [at EXCEPT ![s] = sf[s]]
          /\ op' = [op EXCEPT ![s] = SendOp]
          /\ UNCHANGED <<oneVars, sf, old, held, port>>
  /\ UNCHANGED <<countVars, sharedVars, rxVars, wakeVars, tok, history>>

(* The first clone makes it shared: its packet is created with the lock held. *)
clone_upgrade(s) ==
  /\ TxAt(s, "idle") /\ sf[s] # "shared"
  /\ \E c \in Senders : spc[c] = "none"
  /\ select_lock' = s
  /\ op' = [op EXCEPT ![s] = "clone"]
  /\ IF sf[s] = "oneshot"
     THEN oneshot_upgrade(s, "shared", "inherit")
     ELSE /\ Go(s, "port") /\ at' = [at EXCEPT ![s] = "stream"]
          /\ UNCHANGED <<oneVars, sf, old, held, port>>
  /\ UNCHANGED <<countVars, channels, sender_drain, rxVars, wakeVars, tok, history>>

clone_chan(s, c) ==
  /\ TxAt(s, "idle") /\ sf[s] = "shared" /\ spc[c] = "none"
  /\ channels' = channels + 1
  /\ Go(c, "idle")
  /\ UNCHANGED <<oneVars, countVars, sender_drain, select_lock, rxVars, wakeVars, sf,
                 op, at, old, tok, held, port, history>>

(* inherit_blocker: the sleeper's token, count and steals, then the lock. *)
inherit_blocker(s) ==
  /\ TxAt(s, "inherit")
  /\ IF held[s] = "EMPTY" THEN Go(s, "unlock") /\ UNCHANGED to_wake
     ELSE /\ Go(s, IF cnt["shared"] = 0 /\ to_wake["shared"] = "EMPTY"
                   THEN "inherit_cnt" ELSE "panic")
          /\ to_wake' = [to_wake EXCEPT !["shared"] = held[s]]
  /\ held' = [held EXCEPT ![s] = "EMPTY"]
  /\ sf' = [sf EXCEPT ![s] = "shared"]
  /\ old' = [old EXCEPT ![s] = IF sf[s] = "stream" THEN "stream" ELSE @]
  /\ UNCHANGED <<oneVars, cnt, steals, queue, port_dropped, sharedVars, rxVars,
                 wakeVars, op, at, tok, port, history>>

inherit_cnt(s) ==
  /\ TxAt(s, "inherit_cnt")
  /\ cnt' = [cnt EXCEPT !["shared"] = -1]
  /\ Go(s, "inherit_steals")
  /\ UNCHANGED <<oneVars, steals, to_wake, queue, port_dropped, sharedVars, rxVars,
                 wakeVars, sf, op, at, old, tok, held, port, history>>

(* A slip in inherit_steals: the sleeper's next message is not discounted. *)
InheritNoSteals(s) ==
  /\ TxAt(s, "inherit_steals")
  /\ Go(s, "unlock")
  /\ UNCHANGED <<oneVars, countVars, sharedVars, rxVars,
                 wakeVars, sf, op, at, old, tok, held, port, history>>

inherit_steals(s) ==
  /\ TxAt(s, "inherit_steals")
  /\ steals' = [steals EXCEPT !["shared"] = -1]
  /\ Go(s, "unlock")
  /\ UNCHANGED <<oneVars, cnt, to_wake, queue, port_dropped, sharedVars, rxVars,
                 wakeVars, sf, op, at, old, tok, held, port, history>>

inherit_unlock(s) ==
  /\ TxAt(s, "unlock")
  /\ select_lock' = "free"
  /\ Go(s, "end")
  /\ UNCHANGED <<oneVars, countVars, channels, sender_drain, rxVars, wakeVars, sf, op,
                 at, old, tok, held, port, history>>

(* Sender::drop. *)
drop_sender(s) ==
  /\ TxAt(s, "idle")
  /\ op' = [op EXCEPT ![s] = "drop"]
  /\ CASE sf[s] = "oneshot" ->
            oneshot_drop_chan(s) /\ UNCHANGED <<at, channels>>
       [] sf[s] = "stream" ->
            /\ Go(s, "chan_swap") /\ at' = [at EXCEPT ![s] = "stream"]
            /\ UNCHANGED <<oneVars, tok, port, channels>>
       [] sf[s] = "shared" ->
            /\ channels' = channels - 1
            /\ Go(s, IF channels = 1 THEN "chan_swap" ELSE "end")
            /\ at' = [at EXCEPT ![s] = "shared"]
            /\ UNCHANGED <<oneVars, tok, port>>
  /\ UNCHANGED <<countVars, sender_drain, select_lock, rxVars, wakeVars, sf, old, held,
                 history>>

(* Nothing is left of the port of packet p. *)
PortGone(p) ==
  port_dropped[p] /\ \A a \in Threads : \A i \in DOMAIN port[a] : port[a][i].p # p

(***************************************************************************)
(* s drops a Sender, its own or what is left of one in the packet at[s],   *)
(* and the Receiver has been dropped: the last one frees the packet, and   *)
(* what is still in its queue.                                             *)
(***************************************************************************)
LastOf(s) ==
  /\ at[s] \in Counted /\ (op[s] = "drop" \/ at[s] # sf[s]) /\ queue[at[s]] # <<>>
  /\ PortGone(at[s])
  /\ \A r \in Senders \ {s} : HasLeft(r, at[s])

(***************************************************************************)
(* The end of a call.  A send that took the receiver's token out of a      *)
(* oneshot signals it now, and panics if it was refused; then the packet   *)
(* upgraded from is left; then the call returns.                           *)
(***************************************************************************)
finish(s) ==
  /\ TxAt(s, "end")
  /\ \/ /\ held[s] # "EMPTY"
        /\ tok' = [tok EXCEPT ![s] = held[s]] /\ held' = [held EXCEPT ![s] = "EMPTY"]
        /\ Go(s, IF op[s] = "refused" THEN "panic" ELSE "signal")
        /\ UNCHANGED <<oneVars, queue, op, at, old, port>>
     \/ /\ held[s] = "EMPTY" /\ old[s] = "oneshot"
        /\ oneshot_drop_chan(s)
        /\ old' = [old EXCEPT ![s] = "none"]
        /\ UNCHANGED <<queue, op, at, held>>
     \/ /\ held[s] = "EMPTY" /\ old[s] = "stream"
        /\ Go(s, "chan_swap") /\ at' = [at EXCEPT ![s] = "stream"]
        /\ old' = [old EXCEPT ![s] = "none"]
        /\ UNCHANGED <<oneVars, queue, op, tok, held, port>>
     \/ /\ held[s] = "EMPTY" /\ old[s] = "none"
        /\ op' = [op EXCEPT ![s] = "none"]
        /\ \/ op[s] = "drop" /\ Go(s, "gone")
           \/ op[s] \in {"send", "late", "refused"} /\ Go(s, "idle")
           \/ op[s] = "clone" /\ \E c \in Senders :
                /\ spc[c] = "none"
                /\ spc' = [spc EXCEPT ![s] = "idle", ![c] = "idle"]
        /\ at' = [at EXCEPT ![s] = sf[s]]
        /\ ~ LastOf(s)
        /\ UNCHANGED <<oneVars, queue, old, tok, held, port>>
     \/ /\ held[s] = "EMPTY" /\ old[s] = "none" /\ LastOf(s)
        /\ FreePacket(s, at[s], <<>>)
        /\ UNCHANGED <<oneVars, spc, op, at, old, tok, held>>
  /\ UNCHANGED <<cnt, steals, to_wake, port_dropped, sharedVars, rxVars, wakeVars, sf,
                 history>>

-------------------------------------------------------------------------------

RxStep ==
  \/ recv_load \/ recv_cas \/ oneshot_abort_selection \/ oneshot_try_recv \/ oneshot_take
  \/ try_recv_pop \/ try_recv_head \/ try_recv_swap \/ try_recv_bump \/ try_recv_restore
  \/ try_recv_empty \/ try_recv_last
  \/ decrement \/ decrement_sub \/ decrement_redisconnect \/ decrement_unwake
  \/ abort_begin \/ abort_load \/ abort_bump \/ abort_bumped \/ abort_peek
  \/ wait \/ park \/ again

PortStep(a) ==
  oneshot_drop_port(a) \/ drop_port_flag(a) \/ drop_port_cas(a) \/ drop_port_drain(a)

TxStep(s) ==
  \/ send_port(s) \/ send_check(s) \/ send_push(s) \/ send_link(s) \/ send_add(s)
  \/ take_to_wake(s) \/ take_to_wake_clear(s) \/ send_redisconnect(s) \/ stream_pop_own(s)
  \/ drain_enter(s) \/ drain(s) \/ drain_head(s) \/ drain_exit(s) \/ chan_swap(s)
  \/ inherit_blocker(s) \/ inherit_cnt(s) \/ inherit_steals(s) \/ inherit_unlock(s)
  \/ signal_woken(s) \/ signal_unpark(s) \/ finish(s)

(* What the threads that use the channel call, if they do. *)
Client ==
  \/ \E c \in Calls : receive(c)
  \/ drop_receiver
  \/ \E s \in Senders : \/ oneshot_send(s) \/ send(s) \/ clone_upgrade(s) \/ drop_sender(s)
                        \/ \E c \in Senders : clone_chan(s, c)

AllGone ==
  /\ RxAt("gone") /\ \A s \in Senders : spc[s] \in {"none", "gone"}
  /\ UNCHANGED channelVars

(* Past a failed assertion the run is not followed. *)
Panicked == rpc = "panic" \/ \E s \in Senders : spc[s] = "panic"

Halted == Panicked /\ UNCHANGED channelVars

Running ==
  \/ RxStep \/ deadline_passes
  \/ \E s \in Senders : TxStep(s)
  \/ \E a \in Threads : PortStep(a)
  \/ Client \/ AllGone

Next == (~ Panicked /\ Running) \/ Halted

(* A thread that is inside a call runs on; that it makes a call is not given. *)
Fairness ==
  /\ WF_channelVars(RxStep) /\ WF_channelVars(deadline_passes)
  /\ \A s \in Senders : WF_channelVars(TxStep(s))
  /\ \A a \in Threads : WF_channelVars(PortStep(a))

Spec == ChannelInit /\ [][Next]_channelVars /\ Fairness

-------------------------------------------------------------------------------
(* Properties. *)

(* The assertions and unreachable!()s in the calls of the receiver ... *)
ReceiverAsserts ==
  /\ timeouts = 0 => rpc # "panic"
  /\ rpc = "try" => state \notin Tokens
  /\ rpc = "abort" /\ rxAt = "oneshot" => state # "EMPTY"
  /\ rpc = "take" => data # <<>>
  /\ rpc \in {"bump", "restore"} => steals[rxAt] >= 0
  /\ rpc = "sub" => cnt[rxAt] >= 0 \/ cnt[rxAt] = DISCONNECTED
  /\ rpc = "last" /\ queue[rxAt] # <<>> => Reachable(rxAt)
  /\ rpc = "abort_bump" => cnt[rxAt] + amount + 1 >= 0 \/ cnt[rxAt] = DISCONNECTED
  /\ rpc = "abort_take" => to_wake[rxAt] # "EMPTY"
  /\ rpc \in {"abort_take", "abort_spin"} =>
       steals[rxAt] = 0 \/ (rxAt = "shared" /\ steals[rxAt] = -1)
  /\ \A a \in Threads : port[a] # <<>> /\ port[a][1].p = "oneshot" =>
       state \notin Tokens /\ (state = "DATA" => data # <<>>)

(* ... and of the senders. *)
SenderAsserts ==
  /\ channels >= 0
  /\ \A s \in Senders :
       /\ timeouts = 0 => spc[s] # "panic"
       /\ spc[s] = "idle" /\ sf[s] = "oneshot" => upgrade \notin Upgrades
       /\ spc[s] = "idle" /\ sf[s] = "oneshot" /\ upgrade = "NothingSent" =>
            data = <<>> /\ state # "DATA"
       /\ spc[s] = "add" /\ at[s] = "stream" =>
            cnt["stream"] >= -2 \/ cnt["stream"] = DISCONNECTED
       /\ spc[s] = "clear" => tok[s] # "EMPTY"
       /\ spc[s] = "pop_own" => Len(queue["stream"]) <= 1
       /\ spc[s] = "chan_swap" => cnt[at[s]] >= -1 \/ cnt[at[s]] = DISCONNECTED

(***************************************************************************)
(* The assertions of the three flavors hold, and what they mark as         *)
(* unreachable!() is.  Those that a step to "panic" stands for are known   *)
(* to fail after a timeout, not before.                                    *)
(***************************************************************************)
ChannelAsserts == ReceiverAsserts /\ SenderAsserts

(***************************************************************************)
(* The assertions in the Drop of the packets hold, and once a port is gone *)
(* no send leaves anything in the queue, neither data nor a port ("we have *)
(* to make sure *everything* is dropped", drop_port).  Of the stream and   *)
(* the shared packet this is said as long as no recv_deadline has run out  *)
(* of time: after that another assertion may have failed before.           *)
(***************************************************************************)
DroppedPackets ==
  /\ arcs = {} => state = "DISCONNECTED"
  /\ timeouts = 0 => \A p \in Counted : PortGone(p) =>
       /\ (\A s \in Senders : HasLeft(s, p)) =>
            cnt[p] = DISCONNECTED /\ to_wake[p] = "EMPTY" /\ (p = "shared" => channels = 0)
       /\ (\A s \in Senders : spc[s] \in {"none", "idle", "gone"}) => queue[p] = <<>>

(***************************************************************************)
(* A send that begins when the Receiver has been dropped is refused, with  *)
(* whatever packet the channel has then (Sender::send, "This send will     *)
(* fail because the receiver is gone").                                    *)
(***************************************************************************)
LateSendRefused == \A s \in Senders : spc[s] = "end" => op[s] # "late"

(***************************************************************************)
(* Disconnected is only returned when every Sender is gone, or on the last *)
(* steps of its drop, and all that was sent has been received.             *)
(***************************************************************************)
DisconnectedIsFinal ==
  result = "disconnected" =>
    /\ \A s \in Senders : spc[s] \in {"none", "gone"} \/ op[s] = "drop"
    /\ got = sent

(***************************************************************************)
(* try_recv does not return Empty if, when it was called, a message whose  *)
(* send had returned was still to be received, in an older packet or a     *)
(* newer one.                                                              *)
(***************************************************************************)
EmptyMeansEmpty == result = "empty" => ~due

(***************************************************************************)
(* Across the packets, the messages of a sender are received in the order  *)
(* sent, none twice and none skipped.                                      *)
(***************************************************************************)
InOrder ==
  [][\A s \in Senders :
       got'[s] # got[s] => got'[s] = got[s] + 1 /\ got'[s] <= sent[s]]_channelVars

(***************************************************************************)
(* A recv returns once there is a message for it, or no sender is left: no *)
(* wakeup is lost, in a packet or on the way from one to the next.         *)
(***************************************************************************)
RecvReturns ==
  (/\ call = "recv"
   /\ \/ \E s \in Senders : got[s] < sent[s]
      \/ \A s \in Senders : spc[s] \in {"none", "gone"})
    ~> (call = "none" \/ Panicked)

===============================================================================
