-------------------------------- MODULE Oneshot --------------------------------
(***************************************************************************)
(* The oneshot flavor of a channel (mpsc/oneshot.rs).  Its state word      *)
(* holds EMPTY, DATA, DISCONNECTED or the token of the blocked receiver;   *)
(* data and upgrade are plain fields, whose owner the state word decides.  *)
(***************************************************************************)
EXTENDS ChannelState

Upgrades == {"stream", "shared"}       \* upgrade is GoUp of that packet

-------------------------------------------------------------------------------
(* The receiver. *)

recv_load ==
  /\ RxAt("load")
  /\ IF state = "EMPTY" THEN rpc' = "cas" /\ tokens
                        ELSE rpc' = "try" /\ UNCHANGED <<wakeVars, tok, held>>
  /\ UNCHANGED <<oneVars, countVars, sharedVars, rxAt, call, phase, local,
                 spc, sf, op, at, old, port, history>>

(* The race with the sender to enter the blocking state. *)
recv_cas ==
  /\ RxAt("cas")
  /\ IF state = "EMPTY" THEN state' = "cur" /\ rpc' = "wait"
                        ELSE rpc' = "try" /\ UNCHANGED state
  /\ UNCHANGED <<data, upgrade, arcs, countVars, sharedVars, rxAt, call, phase,
                 local, wakeVars, txVars, port, history>>

(***************************************************************************)
(* abort_selection, after the deadline.  Its load and compare-exchange are *)
(* one step: if the exchange fails it gives the word a later load gives.   *)
(* What it finds, beside an upgrade, the try_recv that follows finds.      *)
(***************************************************************************)
oneshot_abort_selection ==
  /\ RxAt("abort") /\ rxAt = "oneshot"
  /\ state' = IF state = "cur" THEN "EMPTY" ELSE state
  /\ IF state = "DISCONNECTED" /\ data = <<>> /\ upgrade \in Upgrades
     THEN Upgraded(upgrade) /\ upgrade' = "SendUsed"
     ELSE rpc' = "try" /\ UNCHANGED <<upgrade, rxAt, call, phase, port, history>>
  /\ UNCHANGED <<data, arcs, countVars, sharedVars, local,
                 wakeVars, txVars>>

(* A slip in oneshot_try_recv: an upgrade is followed before the data. *)
UpgradeFirst ==
  /\ RxAt("try") /\ state \in {"EMPTY", "DISCONNECTED"}
  /\ IF upgrade \in Upgrades THEN Upgraded(upgrade) /\ upgrade' = "SendUsed"
     ELSE /\ IF state = "EMPTY" THEN ReturnEmpty ELSE Return("disconnected")
          /\ UNCHANGED upgrade
  /\ UNCHANGED <<state, data, arcs, countVars, sharedVars, local, wakeVars, txVars>>

oneshot_try_recv ==
  /\ RxAt("try")
  /\ \/ /\ state = "EMPTY"
        /\ ReturnEmpty
        /\ UNCHANGED <<data, upgrade>>
     \/ /\ state = "DATA"
        /\ rpc' = "take"
        /\ UNCHANGED <<data, upgrade, rxAt, call, phase, port, history>>
     \/ /\ state = "DISCONNECTED" /\ data # <<>>
        /\ Receive(data)
        /\ data' = <<>>
        /\ UNCHANGED upgrade
     \/ /\ state = "DISCONNECTED" /\ data = <<>>
        /\ IF upgrade \in Upgrades THEN Upgraded(upgrade) ELSE Return("disconnected")
        /\ upgrade' = "SendUsed"
        /\ UNCHANGED data
  /\ UNCHANGED <<state, arcs, countVars, sharedVars, local,
                 wakeVars, txVars>>

(* The compare-exchange back to EMPTY, whose failure is ignored. *)
oneshot_take ==
  /\ RxAt("take")
  /\ state' = IF state = "DATA" THEN "EMPTY" ELSE state
  /\ Receive(data)
  /\ data' = <<>>
  /\ UNCHANGED <<upgrade, arcs, countVars, sharedVars, local,
                 wakeVars, txVars>>

(***************************************************************************)
(* drop_port, and the Arc given up after it.  The last of the two Arcs     *)
(* frees the packet, and with it a port that waits in upgrade.             *)
(***************************************************************************)
Freed(side) ==
  IF arcs = {side} /\ upgrade \in Upgrades THEN <<DropPort(upgrade)>> ELSE <<>>

oneshot_drop_port(a) ==
  /\ port[a] # <<>> /\ port[a][1].p = "oneshot"
  /\ state' = "DISCONNECTED"
  /\ data' = IF state = "DATA" THEN <<>> ELSE data
  /\ arcs' = arcs \ {"rx"}
  /\ port' = [port EXCEPT ![a] = Freed("rx") \o Tail(@)]
  /\ UNCHANGED <<upgrade, countVars, sharedVars, rxVars, wakeVars, txVars, history>>

-------------------------------------------------------------------------------
(* The sender. *)

(* The swap gave the sender the word w: a token is to be signalled. *)
TakeToken(s, w) ==
  /\ tok' = [tok EXCEPT ![s] = IF w \in Tokens THEN w ELSE "EMPTY"]
  /\ spc' = [spc EXCEPT ![s] = IF w \in Tokens THEN "signal" ELSE "end"]

(***************************************************************************)
(* The first send.  Nobody else looks at data and upgrade before the swap, *)
(* and nobody sees the DATA that is taken back when the port is gone.      *)
(***************************************************************************)
oneshot_send(s) ==
  /\ TxAt(s, "idle") /\ sf[s] = "oneshot" /\ upgrade = "NothingSent"
  /\ sent[s] < MaxMsgs[s]
  /\ IF state = "DISCONNECTED"
     THEN /\ op' = [op EXCEPT ![s] = "refused"]
          /\ spc' = [spc EXCEPT ![s] = "end"]
          /\ UNCHANGED <<oneVars, tok, sent>>
     ELSE /\ state' = "DATA" /\ data' = <<s, 1>> /\ upgrade' = "SendUsed"
          /\ TakeToken(s, state)
          /\ sent' = [sent EXCEPT ![s] = 1]
          /\ UNCHANGED arcs
          /\ op' = [op EXCEPT ![s] = SendOp]
  /\ UNCHANGED <<countVars, sharedVars, rxVars, wakeVars, sf, at, old, held, port,
                 got, result, due, timeouts>>

(***************************************************************************)
(* upgrade to the new packet p, for a second send or a clone.  A receiver  *)
(* found blocked stays so: its token goes to the caller.  If the port is   *)
(* gone the new packet's is dropped at once.                               *)
(***************************************************************************)
oneshot_upgrade(s, p, next) ==
  /\ state' = "DISCONNECTED"
  /\ upgrade' = IF state = "DISCONNECTED" THEN upgrade ELSE p
  /\ held' = [held EXCEPT ![s] = IF state \in Tokens THEN state ELSE "EMPTY"]
  /\ port' = [port EXCEPT ![s] = IF state = "DISCONNECTED" THEN <<DropPort(p)>> ELSE @]
  /\ sf' = [sf EXCEPT ![s] = p]
  /\ at' = [at EXCEPT ![s] = p]
  /\ old' = [old EXCEPT ![s] = "oneshot"]
  /\ spc' = [spc EXCEPT ![s] = next]
  /\ UNCHANGED <<data, arcs>>

(* drop_chan of the Sender, or of what an upgrade left of it, and its Arc. *)
oneshot_drop_chan(s) ==
  /\ state' = "DISCONNECTED"
  /\ TakeToken(s, state)
  /\ arcs' = arcs \ {"tx"}
  /\ port' = [port EXCEPT ![s] = Freed("tx")]
  /\ UNCHANGED <<data, upgrade>>

===============================================================================
