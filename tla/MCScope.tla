-------------------------------- MODULE MCScope --------------------------------
(***************************************************************************)
(* A scope whose threads spawn, panic, are joined, dropped or forgotten in *)
(* every order.                                                            *)
(***************************************************************************)
EXTENDS Scope

CONSTANT Stray       \* whether others unpark Main

ASSUME StrayAssumption == Stray \in BOOLEAN

VARIABLES
  unhandled,         \* the threads whose panic payload nobody took by join
  refused            \* increment_num_running_threads has refused a spawn

mcVars == <<scopeVars, unhandled, refused>>

Init == ScopeInit /\ unhandled = {} /\ refused = FALSE

Spawn(a, t) ==
  /\ spawn(a, t)
  /\ refused' = (refused \/ packet'[t] = "over")
  /\ UNCHANGED unhandled

Drop(t) ==
  /\ Packet_drop(t)
  /\ unhandled' = IF result[t] = "err" THEN unhandled \union {t} ELSE unhandled
  /\ UNCHANGED refused

Child(t) == ChildStep(t) /\ UNCHANGED <<unhandled, refused>>
Handle(t) == HandleStep(t) /\ UNCHANGED <<unhandled, refused>>
MainDoes == MainStep /\ UNCHANGED <<unhandled, refused>>
Others == Stray /\ stray_unpark /\ UNCHANGED <<unhandled, refused>>

Next ==
  \/ \E a \in Actors, t \in Children : Spawn(a, t)
  \/ \E t \in Children : Child(t) \/ Drop(t) \/ Handle(t)
  \/ MainDoes \/ Others

Spec == Init /\ [][Next]_mcVars

(***************************************************************************)
(* Threads end, drops finish and Main goes on; user code ends, and with it *)
(* every handle it holds is joined, dropped or forgotten.  Nobody need     *)
(* ever spawn.                                                             *)
(***************************************************************************)
FairSpec ==
  /\ Spec
  /\ WF_mcVars(MainDoes)
  /\ \A t \in Children : WF_mcVars(Child(t) \/ Drop(t)) /\ WF_mcVars(Handle(t))

(***************************************************************************)
(* Unless more threads than usize can count were spawned, scope leaves its *)
(* loop only when every thread spawned in it has ended its closure and the *)
(* result of each has been dropped or taken: nothing that was borrowed for *)
(* 'scope is still in use by user code.                                    *)
(***************************************************************************)
JoinedUnlessRefused == ~refused => JoinedBeforeReturn

(***************************************************************************)
(* "If any of the automatically joined threads panicked, this function     *)
(* will panic": scope returns f's value exactly when no thread's panic was *)
(* left unhandled.                                                         *)
(***************************************************************************)
UnhandledPanicReported ==
  ~refused =>
    /\ mpc = "returned" => unhandled = {}
    /\ mpc = "panicked" => unhandled # {}

(* mem::forget has left an Arc behind that nobody can drop. *)
Forgotten ==
  \E t \in Children :
    packet[t] = "live" /\ "handle" \in refs[t] /\ holder[t] = None

(***************************************************************************)
(* scope returns once f has, unless a join handle was forgotten or a spawn *)
(* refused: the last decrement reaches Main wherever Main is.              *)
(***************************************************************************)
ScopeReturns == mpc = "check" ~> (mpc \in Ended \/ Forgotten \/ refused)

===============================================================================
