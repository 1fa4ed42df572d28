----------------------------- MODULE MCSessionDir ------------------------------
(* What the comments of fs.rs say of collections and what does not hold. *)
EXTENDS SessionDir

(* "It will also delete any finalized session directories for a given crate *)
(* except for the most recent one" (the module's documentation): the most   *)
(* recent one stays, also when sessions last.                               *)
MostRecentStays == newest # 0 => dir[newest] = "final"
===============================================================================
