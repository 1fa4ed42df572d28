-------------------------------- MODULE Counted --------------------------------
(***************************************************************************)
(* The stream and the shared flavor of a channel (mpsc/stream.rs and       *)
(* mpsc/shared.rs): a queue and a count of its messages, which the         *)
(* receiver takes below zero when it blocks.  The two differ in how a send *)
(* ends on a channel whose port is gone, in abort_selection, and in the    *)
(* queue: in that of shared (mpsc_queue.rs) a push swaps the head first    *)
(* and links its node later, and until then a pop is Inconsistent.         *)
(***************************************************************************)
EXTENDS Oneshot

MinOf(a, b) == IF a < b THEN a ELSE b

(* Queue::pop finds a message that it can reach. *)
Reachable(p) == queue[p] # <<>> /\ queue[p][1].linked

PopFrom(p) == queue' = [queue EXCEPT ![p] = Tail(@)]

(* cnt is below any count: disconnected, and sends that saw it so counted in. *)
IsDisconnected(p, n) ==
  IF p = "stream" THEN n = DISCONNECTED ELSE n < DISCONNECTED + FUDGE

-------------------------------------------------------------------------------
(* The receiver. *)

(***************************************************************************)
(* try_recv has a message: a steal, unless the recv blocked for it.        *)
(***************************************************************************)
Deliver(m) == IF m = GoUp THEN Upgraded("shared") ELSE Receive(m)

Steal(p) == steals' = [steals EXCEPT ![p] = @ + (IF phase = 1 THEN 1 ELSE 0)]

try_recv_pop ==
  /\ RxAt("pop")
  /\ IF Reachable(rxAt)
     THEN /\ PopFrom(rxAt)
          /\ IF steals[rxAt] > MAX_STEALS
             THEN /\ popped' = queue[rxAt][1].m /\ rpc' = "swap"
                  /\ UNCHANGED <<steals, rxAt, call, phase, port, history>>
             ELSE Steal(rxAt) /\ Deliver(queue[rxAt][1].m) /\ UNCHANGED popped
     ELSE /\ rpc' = IF rxAt = "stream" THEN "empty" ELSE "head"
          /\ UNCHANGED <<steals, queue, rxAt, call, phase, popped, port, history>>
  /\ UNCHANGED <<oneVars, cnt, to_wake, port_dropped, sharedVars, amount,
                 wakeVars, txVars>>

(* A slip in try_recv_head: a push under way is taken for an empty queue. *)
InconsistentIsEmpty ==
  /\ RxAt("head")
  /\ rpc' = "empty"
  /\ UNCHANGED <<oneVars, countVars, sharedVars, rxAt, call, phase, local,
                 wakeVars, txVars, port, history>>

(* shared: the second load of pop tells Empty from Inconsistent, which spins. *)
try_recv_head ==
  /\ RxAt("head")
  /\ rpc' = IF queue["shared"] = <<>> THEN "empty" ELSE "pop"
  /\ UNCHANGED <<oneVars, countVars, sharedVars, rxAt, call, phase, local,
                 wakeVars, txVars, port, history>>

(* Too many steals: cnt is swapped out, and lowered by what was stolen. *)
try_recv_swap ==
  /\ RxAt("swap")
  /\ cnt' = [cnt EXCEPT ![rxAt] = 0]
  /\ IF cnt[rxAt] = DISCONNECTED
     THEN rpc' = "restore" /\ UNCHANGED <<steals, amount>>
     ELSE LET m == MinOf(cnt[rxAt], steals[rxAt])
          IN  /\ steals' = [steals EXCEPT ![rxAt] = @ - m]
              /\ amount' = cnt[rxAt] - m
              /\ rpc' = "bump"
  /\ UNCHANGED <<oneVars, to_wake, queue, port_dropped, sharedVars, rxAt, call,
                 phase, popped, wakeVars, txVars, port, history>>

try_recv_bump ==
  /\ RxAt("bump")
  /\ cnt' = [cnt EXCEPT ![rxAt] = @ + amount]
  /\ amount' = 0
  /\ IF cnt[rxAt] = DISCONNECTED
     THEN rpc' = "restore" /\ UNCHANGED <<steals, popped, rxAt, call, phase, port, history>>
     ELSE Steal(rxAt) /\ Deliver(popped) /\ popped' = <<>>
  /\ UNCHANGED <<oneVars, to_wake, queue, port_dropped, sharedVars, 
                 wakeVars, txVars>>

try_recv_restore ==
  /\ RxAt("restore")
  /\ cnt' = [cnt EXCEPT ![rxAt] = DISCONNECTED]
  /\ Steal(rxAt) /\ Deliver(popped) /\ popped' = <<>>
  /\ UNCHANGED <<oneVars, to_wake, queue, port_dropped, sharedVars, amount,
                 wakeVars, txVars>>

(* A slip in try_recv_empty: what came before the disconnection is forgotten. *)
DisconnectedAtOnce ==
  /\ RxAt("empty")
  /\ \/ /\ cnt[rxAt] = DISCONNECTED
        /\ Return("disconnected")
     \/ /\ cnt[rxAt] # DISCONNECTED
        /\ IF call = "try" \/ phase = 2
           THEN ReturnEmpty
           ELSE rpc' = "decrement" /\ UNCHANGED <<rxAt, call, phase, port, history>>
  /\ UNCHANGED <<oneVars, countVars, sharedVars, local, wakeVars, txVars>>

(* Nothing was popped: on to blocking, unless the channel is disconnected. *)
try_recv_empty ==
  /\ RxAt("empty")
  /\ \/ /\ cnt[rxAt] = DISCONNECTED
        /\ rpc' = "last" /\ UNCHANGED <<rxAt, call, phase, port, history>>
     \/ /\ cnt[rxAt] # DISCONNECTED
        /\ IF call = "try" \/ phase = 2
           THEN ReturnEmpty
           ELSE rpc' = "decrement" /\ UNCHANGED <<rxAt, call, phase, port, history>>
  /\ UNCHANGED <<oneVars, countVars, sharedVars, local, wakeVars, txVars>>

(* One more pop, for what was sent before the disconnection. *)
try_recv_last ==
  /\ RxAt("last")
  /\ IF queue[rxAt] = <<>>
     THEN Return("disconnected") /\ UNCHANGED <<queue, steals>>
     ELSE /\ PopFrom(rxAt) /\ Deliver(queue[rxAt][1].m)
          /\ steals' = [steals EXCEPT ![rxAt] = @ - (IF phase = 2 THEN 1 ELSE 0)]
  /\ UNCHANGED <<oneVars, cnt, to_wake, port_dropped, sharedVars, local,
                 wakeVars, txVars>>

-------------------------------------------------------------------------------

(* decrement: the token is installed, ... *)
decrement ==
  /\ RxAt("decrement")
  /\ tokens
  /\ to_wake' = [to_wake EXCEPT ![rxAt] = "cur"]
  /\ rpc' = IF to_wake[rxAt] = "EMPTY" THEN "sub" ELSE "panic"
  /\ UNCHANGED <<oneVars, cnt, steals, queue, port_dropped, sharedVars, rxAt, call,
                 phase, local, spc, sf, op, at, old, port, history>>

(* A slip in decrement_sub: the steals are not taken off the count. *)
ForgetSteals ==
  /\ RxAt("sub")
  /\ cnt' = [cnt EXCEPT ![rxAt] = @ - 1]
  /\ steals' = [steals EXCEPT ![rxAt] = 0]
  /\ rpc' = IF cnt[rxAt] = DISCONNECTED THEN "redisconnect"
            ELSE IF cnt[rxAt] <= 0 THEN "wait" ELSE "unwake"
  /\ UNCHANGED <<oneVars, to_wake, queue, port_dropped, sharedVars, rxAt, call,
                 phase, local, wakeVars, txVars, port, history>>

(* ... the count lowered, by the steals too, and if it shows data, ... *)
decrement_sub ==
  /\ RxAt("sub")
  /\ cnt' = [cnt EXCEPT ![rxAt] = @ - (1 + steals[rxAt])]
  /\ steals' = [steals EXCEPT ![rxAt] = 0]
  /\ rpc' = IF cnt[rxAt] = DISCONNECTED THEN "redisconnect"
            ELSE IF cnt[rxAt] - steals[rxAt] <= 0 THEN "wait" ELSE "unwake"
  /\ UNCHANGED <<oneVars, to_wake, queue, port_dropped, sharedVars, rxAt, call,
                 phase, local, wakeVars, txVars, port, history>>

decrement_redisconnect ==
  /\ RxAt("redisconnect")
  /\ cnt' = [cnt EXCEPT ![rxAt] = DISCONNECTED]
  /\ rpc' = "unwake"
  /\ UNCHANGED <<oneVars, steals, to_wake, queue, port_dropped, sharedVars, rxAt,
                 call, phase, local, wakeVars, txVars, port, history>>

(* ... the token taken back. *)
decrement_unwake ==
  /\ RxAt("unwake")
  /\ to_wake' = [to_wake EXCEPT ![rxAt] = "EMPTY"]
  /\ rpc' = "pop" /\ phase' = 2
  /\ UNCHANGED <<oneVars, cnt, steals, queue, port_dropped, sharedVars, rxAt, call,
                 local, wakeVars, txVars, port, history>>

-------------------------------------------------------------------------------

(***************************************************************************)
(* abort_selection, after the deadline.  shared first goes through         *)
(* select_lock, and then loads the count it has to make up for; stream     *)
(* assumes one steal.                                                      *)
(***************************************************************************)
abort_begin ==
  /\ RxAt("abort") /\ rxAt # "oneshot"
  /\ rxAt = "shared" => select_lock = "free"
  /\ rpc' = IF rxAt = "stream" THEN "abort_bump" ELSE "abort_load"
  /\ amount' = 1
  /\ UNCHANGED <<oneVars, countVars, sharedVars, rxAt, call, phase, popped,
                 wakeVars, txVars, port, history>>

abort_load ==
  /\ RxAt("abort_load")
  /\ amount' = IF cnt["shared"] < 0 /\ cnt["shared"] # DISCONNECTED
              THEN -cnt["shared"] ELSE 0
  /\ rpc' = "abort_bump"
  /\ UNCHANGED <<oneVars, countVars, sharedVars, rxAt, call, phase, popped,
                 wakeVars, txVars, port, history>>

abort_bump ==
  /\ RxAt("abort_bump")
  /\ cnt' = [cnt EXCEPT ![rxAt] = @ + amount + 1]
  /\ rpc' = IF cnt[rxAt] = DISCONNECTED THEN "abort_restore"
            ELSE IF cnt[rxAt] < 0 THEN "abort_take" ELSE "abort_spin"
  /\ UNCHANGED <<oneVars, steals, to_wake, queue, port_dropped, sharedVars, rxAt,
                 call, phase, local, wakeVars, txVars, port, history>>

(* With data, or disconnected, stream peeks for an upgrade. *)
WithData == IF rxAt = "stream" THEN "abort_peek" ELSE "pop"

(***************************************************************************)
(* By the count before: the channel is disconnected, and then the token is *)
(* asserted to be gone; or our token is ours to take back; or a sender is  *)
(* to take it, and we spin until it has.                                   *)
(***************************************************************************)
abort_bumped ==
  /\ \/ /\ RxAt("abort_restore")
        /\ cnt' = [cnt EXCEPT ![rxAt] = DISCONNECTED]
        /\ rpc' = IF to_wake[rxAt] = "EMPTY" THEN WithData ELSE "panic"
        /\ UNCHANGED <<steals, to_wake>>
     \/ /\ RxAt("abort_take")
        /\ to_wake' = [to_wake EXCEPT ![rxAt] = "EMPTY"]
        /\ steals' = [steals EXCEPT ![rxAt] = amount]
        /\ rpc' = "pop"
        /\ UNCHANGED cnt
     \/ /\ RxAt("abort_spin") /\ to_wake[rxAt] = "EMPTY"
        /\ steals' = [steals EXCEPT ![rxAt] = amount]
        /\ rpc' = WithData
        /\ UNCHANGED <<cnt, to_wake>>
  /\ amount' = 0
  /\ UNCHANGED <<oneVars, queue, port_dropped, sharedVars, rxAt, call, phase, popped,
                 wakeVars, txVars, port, history>>

(* stream: there is data, and if it is an upgrade, we take it. *)
abort_peek ==
  /\ RxAt("abort_peek")
  /\ IF queue["stream"] # <<>> /\ queue["stream"][1].m = GoUp
     THEN PopFrom("stream") /\ Upgraded("shared")
     ELSE rpc' = "pop" /\ UNCHANGED <<queue, rxAt, call, phase, port, history>>
  /\ UNCHANGED <<oneVars, cnt, steals, to_wake, port_dropped, sharedVars, 
                 local, wakeVars, txVars>>

-------------------------------------------------------------------------------

(***************************************************************************)
(* drop_port, by the receiver or by whoever drops a port on its way to it. *)
(* The count is exchanged for DISCONNECTED only when it shows that nothing *)
(* is in the queue; otherwise the queue is drained, and with a GoUp the    *)
(* port that it carries is dropped.                                        *)
(***************************************************************************)
InDropPort(a, pc) == port[a] # <<>> /\ port[a][1].p \in Counted /\ port[a][1].pc = pc

drop_port_flag(a) ==
  /\ InDropPort(a, "flag")
  /\ LET p == port[a][1].p
     IN  /\ port_dropped' = [port_dropped EXCEPT ![p] = TRUE]
         /\ port' = [port EXCEPT ![a][1].pc = "cas", ![a][1].steals = steals[p]]
  /\ UNCHANGED <<oneVars, cnt, steals, to_wake, queue, sharedVars, rxVars, wakeVars,
                 txVars, history>>

(* Thread a gives up the last Arc of packet p, which frees what is queued. *)
FreePacket(a, p, frames) ==
  /\ queue' = [queue EXCEPT ![p] = <<>>]
  /\ port' = [port EXCEPT ![a] =
       (IF \E i \in DOMAIN queue[p] : queue[p][i].m = GoUp
        THEN <<DropPort("shared")>> ELSE <<>>) \o frames]

(* Sender s has nothing more to do with packet p: its own, the one it gives *)
(* up, the shared one it makes to clone, or the one it works on.            *)
HasLeft(s, p) ==
  /\ p = "shared" => op[s] # "clone"
  /\ spc[s] \in {"none", "gone"} \/ p \notin {sf[s], old[s]}
  /\ spc[s] \in {"none", "idle", "gone"} \/ at[s] # p

drop_port_cas(a) ==
  /\ InDropPort(a, "cas")
  /\ LET p == port[a][1].p
     IN  IF cnt[p] \in {port[a][1].steals, DISCONNECTED}
         THEN /\ cnt' = [cnt EXCEPT ![p] = DISCONNECTED]
              /\ IF \A s \in Senders : HasLeft(s, p)
                 THEN FreePacket(a, p, Tail(port[a]))
                 ELSE port' = [port EXCEPT ![a] = Tail(@)] /\ UNCHANGED queue
         ELSE port' = [port EXCEPT ![a][1].pc = "drain"] /\ UNCHANGED <<cnt, queue>>
  /\ UNCHANGED <<oneVars, steals, to_wake, port_dropped, sharedVars, rxVars,
                 wakeVars, txVars, history>>

drop_port_drain(a) ==
  /\ InDropPort(a, "drain")
  /\ LET p == port[a][1].p
         f == [port[a][1] EXCEPT !.steals = @ + 1]
     IN  IF Reachable(p)
         THEN /\ PopFrom(p)
              /\ port' = [port EXCEPT ![a] =
                   (IF queue[p][1].m = GoUp THEN <<DropPort("shared")>> ELSE <<>>)
                     \o <<f>> \o Tail(@)]
         ELSE port' = [port EXCEPT ![a][1].pc = "cas"] /\ UNCHANGED queue
  /\ UNCHANGED <<oneVars, cnt, steals, to_wake, port_dropped, sharedVars, rxVars,
                 wakeVars, txVars, history>>

-------------------------------------------------------------------------------
(* The senders.  at[s] is the packet that s works on. *)

Go(s, pc) == spc' = [spc EXCEPT ![s] = pc]

(* s is to upgrade a stream, and not only to send on it. *)
Upgrading(s) == op[s] = "clone" /\ sf[s] = "stream"

Sent(s) == IF Upgrading(s) THEN "inherit" ELSE "end"

(* A slip in send_port: the flag of drop_port is not looked at. *)
SendUngated(s) ==
  /\ TxAt(s, "port")
  /\ Go(s, IF at[s] = "shared" THEN "check" ELSE "push")
  /\ UNCHANGED <<oneVars, countVars, sharedVars, rxVars, wakeVars, sf, op, at, old, tok,
                 held, port, history>>

(* The check that gates a send, or a stream's upgrade, which drops its port. *)
send_port(s) ==
  /\ TxAt(s, "port")
  /\ IF port_dropped[at[s]]
     THEN IF Upgrading(s)
          THEN /\ Go(s, "inherit")
               /\ port' = [port EXCEPT ![s] = <<DropPort("shared")>>]
               /\ UNCHANGED op
          ELSE /\ Go(s, "end")
               /\ op' = [op EXCEPT ![s] = "refused"]
               /\ UNCHANGED port
     ELSE /\ Go(s, IF at[s] = "shared" THEN "check" ELSE "push")
          /\ UNCHANGED <<op, port>>
  /\ UNCHANGED <<oneVars, countVars, sharedVars, rxVars, wakeVars, sf, at, old, tok,
                 held, history>>

send_check(s) ==
  /\ TxAt(s, "check")
  /\ IF IsDisconnected("shared", cnt["shared"])
     THEN Go(s, "end") /\ op' = [op EXCEPT ![s] = "refused"]
     ELSE Go(s, "push") /\ UNCHANGED op
  /\ UNCHANGED <<oneVars, countVars, sharedVars, rxVars, wakeVars, sf, at, old, tok,
                 held, port, history>>

send_push(s) ==
  /\ TxAt(s, "push")
  /\ LET m == IF Upgrading(s) THEN GoUp ELSE <<s, sent[s] + 1>>
     IN  queue' = [queue EXCEPT ![at[s]] = Append(@, [m |-> m, linked |-> at[s] = "stream"])]
  /\ sent' = [sent EXCEPT ![s] = @ + (IF Upgrading(s) THEN 0 ELSE 1)]
  /\ Go(s, IF at[s] = "shared" THEN "link" ELSE "add")
  /\ UNCHANGED <<oneVars, cnt, steals, to_wake, port_dropped, sharedVars, rxVars,
                 wakeVars, sf, op, at, old, tok, held, port, got, result, due, timeouts>>

send_link(s) ==
  /\ TxAt(s, "link")
  /\ queue' = [queue EXCEPT !["shared"] =
       [i \in DOMAIN @ |-> IF @[i].m[1] = s THEN [@[i] EXCEPT !.linked = TRUE] ELSE @[i]]]
  /\ Go(s, "add")
  /\ UNCHANGED <<oneVars, cnt, steals, to_wake, port_dropped, sharedVars, rxVars,
                 wakeVars, sf, op, at, old, tok, held, port, history>>

send_add(s) ==
  /\ TxAt(s, "add")
  /\ cnt' = [cnt EXCEPT ![at[s]] = @ + 1]
  /\ Go(s, IF cnt[at[s]] = -1 THEN "wake"
           ELSE IF IsDisconnected(at[s], cnt[at[s]]) THEN "redisconnect" ELSE Sent(s))
  /\ UNCHANGED <<oneVars, steals, to_wake, queue, port_dropped, sharedVars, rxVars,
                 wakeVars, sf, op, at, old, tok, held, port, history>>

(* take_to_wake: the token is loaded, and to_wake cleared. *)
take_to_wake(s) ==
  /\ TxAt(s, "wake")
  /\ tok' = [tok EXCEPT ![s] = to_wake[at[s]]]
  /\ Go(s, "clear")
  /\ UNCHANGED <<oneVars, countVars, sharedVars, rxVars, wakeVars, sf, op, at, old,
                 held, port, history>>

(* It is signalled, or kept for the shared packet to inherit. *)
take_to_wake_clear(s) ==
  /\ TxAt(s, "clear")
  /\ to_wake' = [to_wake EXCEPT ![at[s]] = "EMPTY"]
  /\ IF Upgrading(s)
     THEN /\ held' = [held EXCEPT ![s] = tok[s]] /\ tok' = [tok EXCEPT ![s] = "EMPTY"]
          /\ Go(s, "inherit")
     ELSE Go(s, "signal") /\ UNCHANGED <<tok, held>>
  /\ UNCHANGED <<oneVars, cnt, steals, queue, port_dropped, sharedVars, rxVars,
                 wakeVars, sf, op, at, old, port, history>>

(* The port went away during the send: what was pushed is dropped again. *)
send_redisconnect(s) ==
  /\ TxAt(s, "redisconnect")
  /\ cnt' = [cnt EXCEPT ![at[s]] = DISCONNECTED]
  /\ Go(s, IF at[s] = "stream" THEN "pop_own" ELSE "drain_enter")
  /\ UNCHANGED <<oneVars, steals, to_wake, queue, port_dropped, sharedVars, rxVars,
                 wakeVars, sf, op, at, old, tok, held, port, history>>

stream_pop_own(s) ==
  /\ TxAt(s, "pop_own")
  /\ IF queue["stream"] # <<>>
     THEN /\ PopFrom("stream")
          /\ port' = [port EXCEPT ![s] =
               IF queue["stream"][1].m = GoUp THEN <<DropPort("shared")>> ELSE @]
     ELSE UNCHANGED <<queue, port>>
  /\ Go(s, Sent(s))
  /\ UNCHANGED <<oneVars, cnt, steals, to_wake, port_dropped, sharedVars, rxVars,
                 wakeVars, sf, op, at, old, tok, held, history>>

(* shared: of the senders in here the first drains, until it is the last. *)
drain_enter(s) ==
  /\ TxAt(s, "drain_enter")
  /\ sender_drain' = sender_drain + 1
  /\ Go(s, IF sender_drain = 0 THEN "drain" ELSE "end")
  /\ UNCHANGED <<oneVars, countVars, channels, select_lock, rxVars, wakeVars, sf, op,
                 at, old, tok, held, port, history>>

drain(s) ==
  /\ TxAt(s, "drain")
  /\ IF Reachable("shared") THEN PopFrom("shared") /\ UNCHANGED spc
                            ELSE Go(s, "drain_head") /\ UNCHANGED queue
  /\ UNCHANGED <<oneVars, cnt, steals, to_wake, port_dropped, sharedVars, rxVars,
                 wakeVars, sf, op, at, old, tok, held, port, history>>

drain_head(s) ==
  /\ TxAt(s, "drain_head")
  /\ Go(s, IF queue["shared"] = <<>> THEN "drain_exit" ELSE "drain")
  /\ UNCHANGED <<oneVars, countVars, sharedVars, rxVars, wakeVars, sf, op, at, old,
                 tok, held, port, history>>

(* A slip in drain_exit: whoever came meanwhile is not waited for. *)
DrainOnce(s) ==
  /\ TxAt(s, "drain_exit")
  /\ sender_drain' = sender_drain - 1
  /\ Go(s, "end")
  /\ UNCHANGED <<oneVars, countVars, channels, select_lock, rxVars, wakeVars, sf, op,
                 at, old, tok, held, port, history>>

drain_exit(s) ==
  /\ TxAt(s, "drain_exit")
  /\ sender_drain' = sender_drain - 1
  /\ Go(s, IF sender_drain = 1 THEN "end" ELSE "drain")
  /\ UNCHANGED <<oneVars, countVars, channels, select_lock, rxVars, wakeVars, sf, op,
                 at, old, tok, held, port, history>>

(* drop_chan of the last Sender, or of what an upgrade left of it. *)
chan_swap(s) ==
  /\ TxAt(s, "chan_swap")
  /\ cnt' = [cnt EXCEPT ![at[s]] = DISCONNECTED]
  /\ Go(s, IF cnt[at[s]] = -1 THEN "wake" ELSE "end")
  /\ UNCHANGED <<oneVars, steals, to_wake, queue, port_dropped, sharedVars, rxVars,
                 wakeVars, sf, op, at, old, tok, held, port, history>>

===============================================================================
