------------------------------ MODULE ScopeProofs ------------------------------
(***************************************************************************)
(* thread::scope returns only after all its threads and reports every      *)
(* panic nobody took, for any set of threads, as long as no spawn is       *)
(* refused because more than usize::MAX / 2 threads are running.  Once one *)
(* is, the count is no longer right: the refused packet is subtracted by   *)
(* increment_num_running_threads and again by its drop.                    *)
(***************************************************************************)
EXTENDS MCScope, FiniteSetTheorems, TLAPS

(***************************************************************************)
(* What ties the life of a packet to its thread, its handle and its        *)
(* result.                                                                 *)
(***************************************************************************)
Lives ==
  \A t \in Children :
    /\ packet[t] \notin {"over", "over_unpark"}
    /\ packet[t] = "spawning" => refs[t] = {"thread", "handle"}
    /\ tpc[t] \in {"running", "ended"} => packet[t] = "live" /\ "thread" \in refs[t]
    /\ holder[t] # None => packet[t] = "live" /\ "handle" \in refs[t]
    /\ result[t] # "none" => packet[t] \in {"live", "drop"}

(* The counter counts the packets, and is at most one past the limit. *)
Countable == IsFiniteSet(Counted) /\ CountsPackets /\ num_running_threads <= HalfMax + 1

(***************************************************************************)
(* The inductive invariant while no spawn was refused.                     *)
(***************************************************************************)
ScopeInv == ScopeTypeOK /\ Lives /\ Countable /\ JoinedBeforeReturn

(* A step that does not refuse a spawn. *)
Accepts == \A t \in Children : packet[t] = "none" => packet'[t] # "over"

-------------------------------------------------------------------------------

(***************************************************************************)
(* How the counter follows the set it counts.                              *)
(***************************************************************************)
LEMMA CountFacts ==
  ASSUME Countable
  PROVE  /\ num_running_threads \in 0..(HalfMax + 1)
         /\ num_running_threads = 0 <=> Counted = {}
         /\ \A t \in Children \ Counted :
              /\ IsFiniteSet(Counted \union {t})
              /\ Cardinality(Counted \union {t}) = num_running_threads + 1
         /\ \A t \in Counted :
              /\ IsFiniteSet(Counted \ {t})
              /\ Cardinality(Counted \ {t}) = num_running_threads - 1
<1>1. IsFiniteSet(Counted) /\ num_running_threads = Cardinality(Counted)
  BY DEF Countable, CountsPackets
<1>2. Cardinality(Counted) \in Nat
  BY <1>1, FS_CardinalityType
<1>3. num_running_threads \in 0..(HalfMax + 1)
  BY <1>1, <1>2, ScopeAssumption DEF Countable
<1>4. ASSUME NEW t \in Children \ Counted
      PROVE  /\ IsFiniteSet(Counted \union {t})
             /\ Cardinality(Counted \union {t}) = num_running_threads + 1
  BY <1>1, FS_AddElement
<1>5. ASSUME NEW t \in Counted
      PROVE  /\ IsFiniteSet(Counted \ {t})
             /\ Cardinality(Counted \ {t}) = num_running_threads - 1
  BY <1>1, FS_RemoveElement
<1>6. num_running_threads = 0 <=> Counted = {}
  BY <1>1, FS_EmptySet
<1> QED
  BY <1>3, <1>4, <1>5, <1>6

(***************************************************************************)
(* A spawn that is not refused finds the counter within the limit.         *)
(***************************************************************************)
LEMMA AcceptedSpawn ==
  ASSUME ScopeInv, Accepts, NEW a \in Actors, NEW t \in Children, spawn(a, t)
  PROVE  /\ packet[t] = "none" /\ t \notin Counted /\ InUserCode(a)
         /\ num_running_threads \in 0..HalfMax /\ HalfMax \in Nat
         /\ packet' = [packet EXCEPT ![t] = "spawning"]
<1>1. packet[t] = "none" /\ t \notin Counted /\ InUserCode(a)
  BY DEF spawn, Counted
<1>2. num_running_threads \in 0..(HalfMax + 1) /\ HalfMax \in Nat
  BY CountFacts, ScopeAssumption DEF ScopeInv
<1>3. ~(num_running_threads > HalfMax)
  <2> SUFFICES ASSUME num_running_threads > HalfMax PROVE FALSE
    OBVIOUS
  <2>1. packet' = [packet EXCEPT ![t] = "over"]
    BY Zenon DEF spawn
  <2>2. packet'[t] = "over"
    BY <2>1 DEF ScopeInv, ScopeTypeOK
  <2> QED
    BY <1>1, <2>2 DEF Accepts
<1>4. packet' = [packet EXCEPT ![t] = "spawning"]
  BY <1>3, Zenon DEF spawn
<1>5. num_running_threads \in 0..HalfMax
  BY <1>2, <1>3
<1> QED
  BY <1>1, <1>2, <1>4, <1>5

(***************************************************************************)
(* Every step keeps the types.                                             *)
(***************************************************************************)
LEMMA ScopeTypeStep ==
  ASSUME ScopeInv, Accepts, [ScopeNext]_scopeVars
  PROVE  ScopeTypeOK'
<1> USE DEF ScopeTypeOK, PacketPC, Ended, Actors
<1>n. /\ num_running_threads \in 0..(HalfMax + 1) /\ HalfMax \in Nat
      /\ Usize = 2 * HalfMax + 2
      /\ (num_running_threads + 1) % Usize \in 0..(Usize - 1)
      /\ (num_running_threads + Usize - 1) % Usize \in 0..(Usize - 1)
  BY CountFacts, ScopeAssumption DEF ScopeInv, Usize
<1>l. ScopeTypeOK /\ Lives
  BY DEF ScopeInv
<1>1. ASSUME NEW a \in Actors, NEW t \in Children, spawn(a, t) PROVE ScopeTypeOK'
  BY <1>1, <1>n, <1>l DEF spawn
<1>2. ASSUME NEW t \in Children, spawn_started(t) PROVE ScopeTypeOK'
  BY <1>2, <1>l, SMTT(30) DEF spawn_started, Go, Lives
<1>3. ASSUME NEW t \in Children, spawn_failed(t) PROVE ScopeTypeOK'
  BY <1>3, <1>l DEF spawn_failed, Go
<1>4. ASSUME NEW t \in Children, thread_end(t) PROVE ScopeTypeOK'
  BY <1>4, <1>l DEF thread_end
<1>5. ASSUME NEW t \in Children, thread_release(t) PROVE ScopeTypeOK'
  BY <1>5, <1>l DEF thread_release, DropArc, Lives
<1>6. ASSUME NEW t \in Children, thread_exit(t) PROVE ScopeTypeOK'
  BY <1>6, <1>l DEF thread_exit
<1>7. ASSUME NEW t \in Children, decrement_mark(t) PROVE ScopeTypeOK'
  BY <1>7, <1>l DEF decrement_mark, Go
<1>8. ASSUME NEW t \in Children, decrement_sub(t) PROVE ScopeTypeOK'
  BY <1>8, <1>l, <1>n DEF decrement_sub, Subtract, Go
<1>9. ASSUME NEW t \in Children, decrement_unpark(t) PROVE ScopeTypeOK'
  BY <1>9, <1>l DEF decrement_unpark, Go
<1>10. ASSUME NEW t \in Children, Packet_drop(t) PROVE ScopeTypeOK'
  BY <1>10, <1>l DEF Packet_drop, Go
<1>11. ASSUME NEW t \in Children, holder[t] # None, join(t) \/ drop_handle(t)
       PROVE ScopeTypeOK'
  BY <1>11, <1>l DEF join, drop_handle, DropArc
<1>12. ASSUME NEW t \in Children, forget_handle(t) PROVE ScopeTypeOK'
  BY <1>12, <1>l DEF forget_handle
<1>13. CASE MainStep \/ stray_unpark
  BY <1>13, <1>l DEF MainStep, scope_f, scope_check, scope_park, scope_return, stray_unpark
<1>14. ASSUME NEW t \in Children PROVE ~increment_overflow(t) /\ ~increment_overflow_unpark(t)
  BY <1>l DEF increment_overflow, increment_overflow_unpark, Go, Lives
<1>15. CASE UNCHANGED scopeVars
  BY <1>15, <1>l DEF scopeVars
<1> QED
  BY <1>1, <1>2, <1>3, <1>4, <1>5, <1>6, <1>7, <1>8, <1>9, <1>10, <1>11, <1>12,
     <1>13, <1>14, <1>15
  DEF ScopeNext, ChildStep, HandleStep

(***************************************************************************)
(* Every step keeps packets, threads, handles and results in step.         *)
(***************************************************************************)
LEMMA LivesStep ==
  ASSUME ScopeInv, Accepts, [ScopeNext]_scopeVars
  PROVE  Lives'
<1>l. ScopeTypeOK /\ Lives
  BY DEF ScopeInv
<1> USE DEF ScopeTypeOK, PacketPC, Actors, Lives
<1>1. ASSUME NEW a \in Actors, NEW t \in Children, spawn(a, t) PROVE Lives'
  <2>1. packet[t] = "none" /\ packet' = [packet EXCEPT ![t] = "spawning"]
    BY <1>1, AcceptedSpawn
  <2> QED
    BY <1>1, <1>l, <2>1 DEF spawn
<1>2. ASSUME NEW t \in Children, spawn_started(t) PROVE Lives'
  BY <1>2, <1>l DEF spawn_started, Go
<1>3. ASSUME NEW t \in Children, spawn_failed(t) PROVE Lives'
  BY <1>3, <1>l DEF spawn_failed, Go
<1>4. ASSUME NEW t \in Children, thread_end(t) PROVE Lives'
  <2>1. t # Main
    BY ScopeAssumption
  <2>2. PICK r \in {"ok", "err"} : result' = [result EXCEPT ![t] = r]
    BY <1>4 DEF thread_end
  <2> QED
    BY <1>4, <1>l, <2>1, <2>2 DEF thread_end, InUserCode
<1>5. ASSUME NEW t \in Children, thread_release(t) PROVE Lives'
  BY <1>5, <1>l DEF thread_release, DropArc
<1>6. ASSUME NEW t \in Children, thread_exit(t) PROVE Lives'
  BY <1>6, <1>l DEF thread_exit
<1>7. ASSUME NEW t \in Children, decrement_mark(t) PROVE Lives'
  BY <1>7, <1>l DEF decrement_mark, Go
<1>8. ASSUME NEW t \in Children, decrement_sub(t) PROVE Lives'
  BY <1>8, <1>l DEF decrement_sub, Go
<1>9. ASSUME NEW t \in Children, decrement_unpark(t) PROVE Lives'
  BY <1>9, <1>l DEF decrement_unpark, Go
<1>10. ASSUME NEW t \in Children, Packet_drop(t) PROVE Lives'
  BY <1>10, <1>l DEF Packet_drop, Go
<1>11. ASSUME NEW t \in Children, holder[t] # None, join(t) PROVE Lives'
  BY <1>11, <1>l DEF join, JoinReady, DropArc
<1>12. ASSUME NEW t \in Children, holder[t] # None, drop_handle(t) PROVE Lives'
  <2>1. /\ refs' = [refs EXCEPT ![t] = @ \ {"handle"}]
        /\ packet' = [packet EXCEPT ![t] = IF refs[t] = {"handle"} THEN "drop" ELSE @]
        /\ holder' = [holder EXCEPT ![t] = None]
        /\ result' = result /\ tpc' = tpc
    BY <1>12 DEF drop_handle, DropArc
  <2> QED
    BY <1>12, <1>l, <2>1
<1>13. ASSUME NEW t \in Children, forget_handle(t) PROVE Lives'
  BY <1>13, <1>l DEF forget_handle
<1>14. CASE MainStep \/ stray_unpark
  BY <1>14, <1>l DEF MainStep, scope_f, scope_check, scope_park, scope_return, stray_unpark
<1>15. ASSUME NEW t \in Children PROVE ~increment_overflow(t) /\ ~increment_overflow_unpark(t)
  BY <1>l DEF increment_overflow, increment_overflow_unpark, Go
<1>16. CASE UNCHANGED scopeVars
  BY <1>16, <1>l DEF scopeVars
<1> QED
  BY <1>1, <1>2, <1>3, <1>4, <1>5, <1>6, <1>7, <1>8, <1>9, <1>10, <1>11, <1>12,
     <1>13, <1>14, <1>15, <1>16
  DEF ScopeNext, ChildStep, HandleStep

(***************************************************************************)
(* A step that neither counts a packet nor uncounts one keeps the counter  *)
(* right and, if Main stays where it is, keeps scope's promise.            *)
(***************************************************************************)
LEMMA SameCount ==
  ASSUME Countable, num_running_threads' = num_running_threads,
         \A t \in Children : packet'[t] = packet[t]
           \/ {packet[t], packet'[t]} \subseteq {"spawning", "over", "live", "drop", "mark", "sub"}
           \/ {packet[t], packet'[t]} \subseteq {"unpark", "gone"}
  PROVE  Countable' /\ Counted' = Counted
<1>1. Counted' = Counted
  BY DEF Counted
<1> QED
  BY <1>1 DEF Countable, CountsPackets

(***************************************************************************)
(* Every step keeps the counter equal to the number of packets.            *)
(***************************************************************************)
LEMMA CountStep ==
  ASSUME ScopeInv, Accepts, [ScopeNext]_scopeVars
  PROVE  /\ Countable'
         /\ Counted' \subseteq Counted \/ \E a \in Actors : InUserCode(a)
<1>l. ScopeTypeOK /\ Lives /\ Countable
  BY DEF ScopeInv
<1>n. num_running_threads \in 0..(HalfMax + 1) /\ HalfMax \in Nat
  BY <1>l, CountFacts, ScopeAssumption
<1> DEFINE Same == Countable' /\ Counted' = Counted
<1> USE DEF ScopeTypeOK, PacketPC
<1>1. ASSUME NEW a \in Actors, NEW t \in Children, spawn(a, t)
      PROVE Countable' /\ InUserCode(a)
  <2>1. /\ t \notin Counted /\ InUserCode(a)
        /\ num_running_threads \in 0..HalfMax /\ HalfMax \in Nat
        /\ packet' = [packet EXCEPT ![t] = "spawning"]
    BY <1>1, AcceptedSpawn
  <2>2. IsFiniteSet(Counted \union {t})
        /\ Cardinality(Counted \union {t}) = num_running_threads + 1
    BY <2>1, <1>l, CountFacts
  <2>3. num_running_threads' = (num_running_threads + 1) % Usize
    BY <1>1 DEF spawn
  <2>4. num_running_threads' = num_running_threads + 1 /\ num_running_threads' <= HalfMax + 1
    BY <2>1, <2>3 DEF Usize
  <2>5. Counted' = Counted \union {t}
    BY <2>1, <1>l DEF Counted
  <2> QED
    BY <2>1, <2>2, <2>4, <2>5 DEF Countable, CountsPackets
<1>2. ASSUME NEW t \in Children, decrement_sub(t)
      PROVE Countable' /\ Counted' \subseteq Counted
  <2>1. t \in Counted /\ packet[t] = "sub"
    BY <1>2 DEF decrement_sub, Go, Counted
  <2>2. /\ IsFiniteSet(Counted \ {t}) /\ num_running_threads # 0
        /\ Cardinality(Counted \ {t}) = num_running_threads - 1
    BY <2>1, <1>l, CountFacts
  <2>3. num_running_threads' = num_running_threads - 1
    BY <1>2, <2>2, <1>n DEF decrement_sub, Subtract, Usize
  <2>4. Counted' = Counted \ {t}
    BY <1>2, <1>l DEF decrement_sub, Go, Counted
  <2> QED
    BY <2>2, <2>3, <2>4, <1>n DEF Countable, CountsPackets
<1>3. ASSUME NEW t \in Children, spawn_started(t) \/ spawn_failed(t) PROVE Same
  BY <1>3, <1>l, SameCount DEF spawn_started, spawn_failed, Go
<1>4. ASSUME NEW t \in Children, thread_end(t) \/ thread_exit(t) \/ forget_handle(t)
      PROVE Same
  BY <1>4, <1>l, SameCount DEF thread_end, thread_exit, forget_handle
<1>5. ASSUME NEW t \in Children, thread_release(t) PROVE Same
  BY <1>5, <1>l, SameCount DEF thread_release, DropArc, Lives
<1>6. ASSUME NEW t \in Children, decrement_mark(t) \/ Packet_drop(t) PROVE Same
  BY <1>6, <1>l, SameCount DEF decrement_mark, Packet_drop, Go
<1>7. ASSUME NEW t \in Children, decrement_unpark(t) PROVE Same
  BY <1>7, <1>l, SameCount DEF decrement_unpark, Go
<1>8. ASSUME NEW t \in Children, holder[t] # None, join(t) \/ drop_handle(t) PROVE Same
  BY <1>8, <1>l, SameCount DEF join, drop_handle, DropArc, Lives
<1>9. CASE MainStep \/ stray_unpark
  BY <1>9, <1>l, SameCount DEF MainStep, scope_f, scope_check, scope_park, scope_return,
     stray_unpark
<1>10. ASSUME NEW t \in Children PROVE ~increment_overflow(t) /\ ~increment_overflow_unpark(t)
  BY <1>l DEF increment_overflow, increment_overflow_unpark, Go, Lives
<1>11. CASE UNCHANGED scopeVars
  BY <1>11, <1>l, SameCount DEF scopeVars
<1> QED
  BY <1>1, <1>2, <1>3, <1>4, <1>5, <1>6, <1>7, <1>8, <1>9, <1>10, <1>11
  DEF ScopeNext, ChildStep, HandleStep

(***************************************************************************)
(* Every step keeps scope's promise: a thread that could spawn another is  *)
(* itself counted, so a count of zero is final.                            *)
(***************************************************************************)
LEMMA JoinedStep ==
  ASSUME ScopeInv, Accepts, [ScopeNext]_scopeVars
  PROVE  JoinedBeforeReturn'
<1> SUFFICES ASSUME mpc' \in {"result"} \union Ended PROVE JoinedBeforeReturn'
  BY DEF JoinedBeforeReturn
<1>l. ScopeTypeOK /\ Lives /\ Countable /\ JoinedBeforeReturn
  BY DEF ScopeInv
<1>1. Counted = {}
  <2>1. CASE scope_check
    BY <2>1, <1>l, CountFacts DEF scope_check, Ended
  <2>2. CASE ~scope_check
    <3>1. mpc \in {"result"} \union Ended
      BY <2>2 DEF ScopeNext, ChildStep, HandleStep, MainStep, spawn, increment_overflow,
         increment_overflow_unpark, spawn_started, spawn_failed, thread_end, thread_release,
         thread_exit, decrement_mark, decrement_sub, decrement_unpark, Packet_drop, join,
         drop_handle, forget_handle, scope_f, scope_park, scope_return, stray_unpark,
         scopeVars, Ended
    <3> QED
      BY <3>1, <1>l DEF JoinedBeforeReturn
  <2> QED
    BY <2>1, <2>2
<1>2. mpc # "f"
  BY DEF ScopeNext, ChildStep, HandleStep, MainStep, spawn, increment_overflow,
     increment_overflow_unpark, spawn_started, spawn_failed, thread_end, thread_release,
     thread_exit, decrement_mark, decrement_sub, decrement_unpark, Packet_drop, join,
     drop_handle, forget_handle, scope_f, scope_check, scope_park, scope_return,
     stray_unpark, scopeVars, Ended
<1>3. ASSUME NEW a \in Actors PROVE ~InUserCode(a)
  BY <1>1, <1>2, <1>l DEF InUserCode, Actors, Lives, Counted
<1>4. Counted' = {}
  BY <1>1, <1>3, CountStep
<1>5. Lives' /\ ScopeTypeOK'
  BY LivesStep, ScopeTypeStep
<1>6. ASSUME NEW t \in Children
      PROVE  tpc'[t] \notin {"running", "ended"} /\ result'[t] = "none"
  <2>1. packet'[t] \notin {"spawning", "over", "live", "drop", "mark", "sub"}
    BY <1>4 DEF Counted
  <2> QED
    BY <2>1, <1>5 DEF Lives
<1> QED
  BY <1>4, <1>6 DEF JoinedBeforeReturn

-------------------------------------------------------------------------------

(***************************************************************************)
(* The steps of the instance are steps of the scope, and accept their      *)
(* spawns unless refused is set.                                           *)
(***************************************************************************)
LEMMA InstanceStep ==
  ASSUME ScopeInv, [Next]_mcVars, ~refused'
  PROVE  [ScopeNext]_scopeVars /\ Accepts
<1>l. packet \in [Children -> PacketPC]
  BY DEF ScopeInv, ScopeTypeOK
<1>1. [ScopeNext]_scopeVars
  BY DEF Next, mcVars, ScopeNext, Spawn, Child, Drop, Handle, MainDoes, Others
<1>2. ASSUME NEW a \in Actors, NEW t \in Children, Spawn(a, t) PROVE Accepts
  BY <1>2, <1>l DEF Spawn, spawn, Accepts
<1>3. ASSUME NEW t \in Children, Child(t) \/ Drop(t) \/ Handle(t) PROVE Accepts
  BY <1>3, <1>l DEF Child, Drop, Handle, ChildStep, HandleStep, Accepts, Go, DropArc,
     increment_overflow, increment_overflow_unpark, spawn_started, spawn_failed, thread_end,
     thread_release, thread_exit, decrement_mark, decrement_sub, decrement_unpark,
     Packet_drop, join, drop_handle, forget_handle
<1>4. ASSUME MainDoes \/ Others \/ UNCHANGED mcVars PROVE Accepts
  BY <1>4 DEF MainDoes, Others, MainStep, mcVars, scopeVars, Accepts, scope_f, scope_check,
     scope_park, scope_return, stray_unpark
<1> QED
  BY <1>1, <1>2, <1>3, <1>4 DEF Next

(***************************************************************************)
(* scope keeps its inductive invariant until a spawn is refused.           *)
(***************************************************************************)
THEOREM ScopeInvariant == Spec => [](refused \/ ScopeInv)
<1>1. Init => ScopeInv
  <2> SUFFICES ASSUME ScopeInit PROVE ScopeInv
    BY DEF Init
  <2>a. 0 \in 0..(Usize - 1) /\ 0 <= HalfMax + 1
    BY ScopeAssumption DEF Usize
  <2>1. ScopeTypeOK
    BY <2>a DEF ScopeInit, ScopeTypeOK, PacketPC, Actors, Ended
  <2>2. Lives
    BY DEF ScopeInit, Lives
  <2>3. Counted = {}
    BY DEF ScopeInit, Counted
  <2>4. Countable
    BY <2>3, <2>a, FS_EmptySet DEF ScopeInit, Countable, CountsPackets
  <2>5. JoinedBeforeReturn
    BY DEF ScopeInit, JoinedBeforeReturn, Ended
  <2> QED
    BY <2>1, <2>2, <2>4, <2>5 DEF ScopeInv
<1>2. refused /\ [Next]_mcVars => refused'
  BY DEF Next, mcVars, Spawn, Child, Drop, Handle, MainDoes, Others
<1>3. ScopeInv /\ [Next]_mcVars => refused' \/ ScopeInv'
  BY InstanceStep, ScopeTypeStep, LivesStep, CountStep, JoinedStep DEF ScopeInv
<1> QED
  BY <1>1, <1>2, <1>3, PTL DEF Spec

(***************************************************************************)
(* Unless increment_num_running_threads has refused a spawn, scope leaves  *)
(* its loop only when every closure spawned in it has ended and every      *)
(* result has been taken or dropped.                                       *)
(***************************************************************************)
THEOREM ScopeJoins == Spec => []JoinedUnlessRefused
<1>1. refused \/ ScopeInv => JoinedUnlessRefused
  BY DEF ScopeInv, JoinedUnlessRefused
<1> QED
  BY <1>1, ScopeInvariant, PTL

(***************************************************************************)
(* What is known of panics: a payload nobody took has been recorded, or    *)
(* its thread is about to record it, before its packet is uncounted.       *)
(***************************************************************************)
PanicsKept ==
  /\ unhandled # {} <=> a_thread_panicked \/ \E t \in Children : packet[t] = "mark"
  /\ mpc = "returned" => ~a_thread_panicked
  /\ mpc = "panicked" => a_thread_panicked

(***************************************************************************)
(* Every step keeps what is known of panics.                               *)
(***************************************************************************)
LEMMA PanicsStep ==
  ASSUME ScopeInv, PanicsKept, [Next]_mcVars, ~refused'
  PROVE  PanicsKept'
<1>l. ScopeTypeOK /\ Lives
  BY DEF ScopeInv
<1>a. [ScopeNext]_scopeVars /\ Accepts
  BY InstanceStep
<1>m. ASSUME mpc \in Ended PROVE \A t \in Children : packet[t] \notin {"mark", "drop"}
  BY <1>m DEF ScopeInv, JoinedBeforeReturn, Counted
<1> USE DEF ScopeTypeOK, PacketPC, PanicsKept, Ended
<1>1. ASSUME NEW a \in Actors, NEW t \in Children, Spawn(a, t) PROVE PanicsKept'
  <2>1. packet[t] = "none" /\ packet' = [packet EXCEPT ![t] = "spawning"]
    BY <1>1, <1>a, AcceptedSpawn DEF Spawn
  <2> QED
    BY <1>1, <1>l, <2>1 DEF Spawn, spawn
<1>2. ASSUME NEW t \in Children, decrement_mark(t), UNCHANGED <<unhandled, refused>>
      PROVE PanicsKept'
  BY <1>2, <1>l, <1>m DEF decrement_mark, Go
<1>3. ASSUME NEW t \in Children, Drop(t) PROVE PanicsKept'
  BY <1>3, <1>l, <1>m DEF Drop, Packet_drop, Go
<1>4. ASSUME NEW t \in Children, Child(t), ~decrement_mark(t) PROVE PanicsKept'
  <2>1. UNCHANGED <<unhandled, a_thread_panicked, mpc>>
    BY <1>4 DEF Child, ChildStep, increment_overflow, increment_overflow_unpark,
       spawn_started, spawn_failed, thread_end, thread_release, thread_exit, decrement_sub,
       decrement_unpark
  <2>2. packet[t] = "mark" <=> packet'[t] = "mark"
    BY <1>4, <1>l DEF Child, ChildStep, Go, DropArc, increment_overflow,
       increment_overflow_unpark, spawn_started, spawn_failed, thread_end, thread_release,
       thread_exit, decrement_sub, decrement_unpark, Lives
  <2>3. \A u \in Children \ {t} : packet'[u] = packet[u]
    BY <1>4, <1>l DEF Child, ChildStep, Go, DropArc, increment_overflow,
       increment_overflow_unpark, spawn_started, spawn_failed, thread_end, thread_release,
       thread_exit, decrement_sub, decrement_unpark
  <2> QED
    BY <2>1, <2>2, <2>3
<1>5. ASSUME NEW t \in Children, Handle(t) PROVE PanicsKept'
  BY <1>5, <1>l DEF Handle, HandleStep, DropArc, join, drop_handle, forget_handle, Lives
<1>6. ASSUME MainDoes \/ Others \/ UNCHANGED mcVars PROVE PanicsKept'
  BY <1>6 DEF MainDoes, Others, MainStep, mcVars, scopeVars, scope_f, scope_check,
     scope_park, scope_return, stray_unpark
<1> QED
  BY <1>1, <1>2, <1>3, <1>4, <1>5, <1>6 DEF Next, Child

(***************************************************************************)
(* Unless a spawn was refused, scope panics, if f has not, exactly when a  *)
(* thread's panic was left unhandled: decrement_num_running_threads        *)
(* records it before the subtraction that lets scope return.               *)
(***************************************************************************)
THEOREM ScopeReportsPanics == Spec => []UnhandledPanicReported
<1>1. Init => PanicsKept
  BY DEF Init, ScopeInit, PanicsKept
<1>2. refused /\ [Next]_mcVars => refused'
  BY DEF Next, mcVars, Spawn, Child, Drop, Handle, MainDoes, Others
<1>3. ScopeInv /\ PanicsKept /\ [Next]_mcVars => refused' \/ PanicsKept'
  BY PanicsStep
<1>4. (refused \/ ScopeInv) /\ (refused \/ PanicsKept) => UnhandledPanicReported
  BY DEF ScopeInv, PanicsKept, UnhandledPanicReported, JoinedBeforeReturn, Counted, Ended
<1> QED
  BY <1>1, <1>2, <1>3, <1>4, ScopeInvariant, PTL DEF Spec

-------------------------------------------------------------------------------

(***************************************************************************)
(* What join relies on, refused spawns or not: a thread that has released  *)
(* its Arc has stored its result, which stays while there is a handle.     *)
(***************************************************************************)
JoinInv ==
  /\ packet \in [Children -> PacketPC]
  /\ refs \in [Children -> SUBSET {"thread", "handle"}]
  /\ result \in [Children -> {"none", "ok", "err"}]
  /\ holder \in [Children -> Actors \union {None}]
  /\ tpc \in [Children -> {"off", "running", "ended", "exiting", "exited"}]
  /\ worker \in [Children -> Actors \union {None}]
  /\ \A t \in Children :
       /\ packet[t] \in {"none", "spawning", "over", "over_unpark"} =>
            tpc[t] = "off" /\ holder[t] = None
       /\ packet[t] = "spawning" => refs[t] = {"thread", "handle"}
       /\ tpc[t] \in {"running", "ended"} => packet[t] = "live" /\ "thread" \in refs[t]
       /\ holder[t] # None =>
            packet[t] = "live" /\ "handle" \in refs[t] /\ tpc[t] # "off"
       /\ tpc[t] \in {"ended", "exiting", "exited"} /\ holder[t] # None =>
            result[t] # "none"
       /\ tpc[t] \in {"exiting", "exited"} => "thread" \notin refs[t]

(***************************************************************************)
(* Every step keeps what join relies on.                                   *)
(***************************************************************************)
LEMMA JoinStep ==
  ASSUME JoinInv, [ScopeNext]_scopeVars
  PROVE  JoinInv'
<1> USE DEF JoinInv, PacketPC, Actors
<1>1. ASSUME NEW a \in Actors, NEW t \in Children, spawn(a, t) PROVE JoinInv'
  BY <1>1 DEF spawn
<1>2. ASSUME NEW t \in Children, increment_overflow(t) \/ increment_overflow_unpark(t)
      PROVE JoinInv'
  BY <1>2 DEF increment_overflow, increment_overflow_unpark, Go
<1>3. ASSUME NEW t \in Children, spawn_started(t) PROVE JoinInv'
  BY <1>3 DEF spawn_started, Go
<1>4. ASSUME NEW t \in Children, spawn_failed(t) PROVE JoinInv'
  BY <1>4 DEF spawn_failed, Go
<1>5. ASSUME NEW t \in Children, thread_end(t) PROVE JoinInv'
  <2>1. t # Main
    BY ScopeAssumption
  <2>2. PICK r \in {"ok", "err"} : result' = [result EXCEPT ![t] = r]
    BY <1>5 DEF thread_end
  <2> QED
    BY <1>5, <2>1, <2>2 DEF thread_end, InUserCode
<1>6. ASSUME NEW t \in Children, thread_release(t) PROVE JoinInv'
  BY <1>6 DEF thread_release, DropArc
<1>7. ASSUME NEW t \in Children, thread_exit(t) PROVE JoinInv'
  BY <1>7 DEF thread_exit
<1>8. ASSUME NEW t \in Children, decrement_mark(t) \/ decrement_sub(t) \/ decrement_unpark(t)
      PROVE JoinInv'
  BY <1>8 DEF decrement_mark, decrement_sub, decrement_unpark, Go
<1>9. ASSUME NEW t \in Children, Packet_drop(t) PROVE JoinInv'
  BY <1>9 DEF Packet_drop, Go
<1>10. ASSUME NEW t \in Children, holder[t] # None, join(t) PROVE JoinInv'
  BY <1>10 DEF join, JoinReady, DropArc
<1>11. ASSUME NEW t \in Children, holder[t] # None, drop_handle(t) PROVE JoinInv'
  BY <1>11 DEF drop_handle, DropArc
<1>12. ASSUME NEW t \in Children, forget_handle(t) PROVE JoinInv'
  BY <1>12 DEF forget_handle
<1>13. CASE MainStep \/ stray_unpark \/ UNCHANGED scopeVars
  BY <1>13 DEF MainStep, scope_f, scope_check, scope_park, scope_return, stray_unpark,
     scopeVars
<1> QED
  BY <1>1, <1>2, <1>3, <1>4, <1>5, <1>6, <1>7, <1>8, <1>9, <1>10, <1>11, <1>12,
     <1>13
  DEF ScopeNext, ChildStep, HandleStep

(***************************************************************************)
(* The two unwraps of join never fail: the thread that native.join() has   *)
(* waited for has dropped its Arc and left its result in the packet.       *)
(***************************************************************************)
THEOREM ScopeJoinFindsResult == Spec => []JoinFindsResult
<1>1. Init => JoinInv
  BY DEF Init, ScopeInit, JoinInv, PacketPC, Actors
<1>2. JoinInv /\ [Next]_mcVars => JoinInv'
  <2>1. [Next]_mcVars => [ScopeNext]_scopeVars
    BY DEF Next, mcVars, ScopeNext, Spawn, Child, Drop, Handle, MainDoes, Others
  <2> QED
    BY <2>1, JoinStep
<1>3. JoinInv => JoinFindsResult
  BY DEF JoinInv, JoinFindsResult, JoinReady
<1> QED
  BY <1>1, <1>2, <1>3, PTL DEF Spec

===============================================================================
