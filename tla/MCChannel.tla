------------------------------- MODULE MCChannel -------------------------------
(* Small instances of Channel. *)
EXTENDS Channel

MCMaxMsgs == [s \in Senders |-> IF s = First THEN 2 ELSE 1]

(***************************************************************************)
(* What the code says of itself that does not hold.  In Receiver::recv,    *)
(* Err(stream::Empty) and Err(shared::Empty) are unreachable!().           *)
(***************************************************************************)
RecvIsNeverEmpty ==
  [][~ (call = "recv" /\ rpc = "empty" /\ rpc' = "panic")]_channelVars

===============================================================================
