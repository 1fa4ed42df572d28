------------------------------- MODULE MCWaiting -------------------------------
(***************************************************************************)
(* A thread that waits for another: in thread::park, with the futex parker *)
(* or the one of the platforms without futexes, or in wait_while.  The     *)
(* three do not interact; a behaviour is one of one of them (kind), and    *)
(* what the others have of their own stays as it is initially.             *)
(***************************************************************************)
EXTENDS FutexParker, FiniteSets

CONSTANTS
  ParkThreads, ParkOwner,                               \* GenericParker
  WaitThreads, TimedConsumers, Consumers, Repeating     \* MCWaitWhile

(* The tokens of wait_while are weighed against numbers of threads. *)
ASSUME WaitingAssumption ==
  /\ ParkOwner \in ParkThreads
  /\ IsFiniteSet(WaitThreads)
  /\ Consumers \subseteq WaitThreads /\ TimedConsumers \subseteq WaitThreads

VARIABLES
  kind,                                        \* "futex", "generic" or "wait"
  holders, counter, cpc, seen, cvSleepers,     \* the condvar of the latter two
  gstate, gtimed, gpc,                         \* GenericParker
  tokens, wpc, elapsed, rounds                 \* MCWaitWhile

condvarVars == <<holders, counter, cpc, seen, cvSleepers>>
genericOwn == <<gstate, gtimed, gpc>>
waitOwn == <<tokens, wpc, elapsed, rounds>>
vars == <<kind, parkerVars, condvarVars, genericOwn, waitOwn>>

G == INSTANCE GenericParker
       WITH Threads <- ParkThreads, TimedThreads <- {ParkOwner}, Owner <- ParkOwner,
            state <- gstate, timed <- gtimed
W == INSTANCE MCWaitWhile WITH Threads <- WaitThreads, TimedThreads <- TimedConsumers

GenericOwnInit ==
  gstate = G!EMPTY /\ gtimed = FALSE /\ gpc = [t \in ParkThreads |-> "running"]
WaitOwnInit ==
  /\ tokens = 0 /\ elapsed = {}
  /\ wpc = [t \in WaitThreads |-> "out"] /\ rounds = [t \in WaitThreads |-> 0]

Init ==
  /\ ParkerInit
  /\ \/ kind \in {"futex", "generic"} /\ G!GenericInit /\ WaitOwnInit
     \/ kind = "wait" /\ W!Init /\ GenericOwnInit

FutexDoes(A) ==
  kind = "futex" /\ A /\ UNCHANGED <<kind, condvarVars, genericOwn, waitOwn>>
GenericDoes(A) == kind = "generic" /\ A /\ UNCHANGED <<kind, parkerVars, waitOwn>>
WaitWhileDoes(A) == kind = "wait" /\ A /\ UNCHANGED <<kind, parkerVars, genericOwn>>

Next ==
  \/ FutexDoes(ParkerNext) \/ GenericDoes(G!GenericNext) \/ WaitWhileDoes(W!Next)

(* The fairness of ParkerFairSpec, GenericFairSpec and MCWaitWhile!FairSpec. *)
FairSpec ==
  /\ Init /\ [][Next]_vars
  /\ WF_vars(FutexDoes(OwnerStep))
  /\ \A u \in Unparkers : WF_vars(FutexDoes(unpark_wake(u)))
  /\ WF_vars(GenericDoes(G!park_lock \/ G!OwnerStep \/ G!GenericCondvar(ParkOwner)))
  /\ \A u \in ParkThreads \ {ParkOwner} :
       WF_vars(GenericDoes(G!unpark_lock(u) \/ G!unpark_notify(u) \/ G!GenericCondvar(u)))
  /\ \A t \in WaitThreads : WF_vars(WaitWhileDoes(W!Run(t)))
  /\ \A t \in W!Producers : SF_vars(WaitWhileDoes(W!Enter(t)))

-------------------------------------------------------------------------------

(***************************************************************************)
(* The mutex, condvar and atomic of generic.rs implement the token of      *)
(* thread::park.                                                           *)
(***************************************************************************)
GenericImplementsParker == G!ImplementsParker

(***************************************************************************)
(* With generic.rs too, an owner inside park whose token was made          *)
(* available returns: unpark takes the lock before it notifies.            *)
(***************************************************************************)
GenericUnparkedReturns == G!UnparkedReturns

(***************************************************************************)
(* No notify_one is lost (Condvar::notify_one under wait_while), not even  *)
(* to a waiter that times out: MCWaitWhile!TokensCovered.                  *)
(***************************************************************************)
TokensCovered == kind = "wait" => W!TokensCovered

(***************************************************************************)
(* Every wait_while returns when a token was produced for every call.      *)
(***************************************************************************)
WaitWhileReturns == W!WaitWhileReturns

===============================================================================
