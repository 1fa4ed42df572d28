----------------------------- MODULE MCSyncChannel -----------------------------
(* The first sender sends two messages, the others one each. *)
EXTENDS SyncChannel

MCMaxMsgs == [s \in Senders |-> IF s = First THEN 2 ELSE 1]
===============================================================================
