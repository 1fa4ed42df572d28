---------------------------- MODULE AbstractParker ----------------------------
(***************************************************************************)
(* What thread::park and Thread::unpark promise (the documentation of      *)
(* thread::park): a token, made available by unpark, consumed by park,     *)
(* which blocks until there is one.  park_timeout may return without.      *)
(***************************************************************************)
VARIABLES
  token,             \* whether the token is available
  blocked            \* "no", "park" or "park_timeout": the owner's call

(* park, or park_timeout, finds the token and returns at once. *)
ReturnAtOnce == blocked = "no" /\ token /\ token' = FALSE /\ UNCHANGED blocked

Block ==
  /\ blocked = "no" /\ ~token
  /\ blocked' \in {"park", "park_timeout"}
  /\ UNCHANGED token

(* A blocked park returns only with the token. *)
Unblock == blocked # "no" /\ token /\ token' = FALSE /\ blocked' = "no"

GiveUp == blocked = "park_timeout" /\ ~token /\ blocked' = "no" /\ UNCHANGED token

Unpark == token' = TRUE /\ UNCHANGED blocked

Init == token = FALSE /\ blocked = "no"

Next == ReturnAtOnce \/ Block \/ Unblock \/ GiveUp \/ Unpark

Spec == Init /\ [][Next]_<<token, blocked>>

===============================================================================
