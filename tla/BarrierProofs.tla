----------------------------- MODULE BarrierProofs -----------------------------
(***************************************************************************)
(* The rendezvous of Barrier::wait, for any number of threads, of members  *)
(* of a group and of calls, whatever the condvar does to a waiter: early   *)
(* or late wake-ups, EINTR, a counter and a generation number that wrap.   *)
(***************************************************************************)
EXTENDS MCBarrier, TLAPS

-------------------------------------------------------------------------------
(* Inside wait(), once the thread has joined a generation. *)
Joined == {"loop", "lead", "leader", "follower"}

(* The group a thread's latest arrival belongs to. *)
Group(t) == (ticket[t] - 1) \div num_threads

(* Where the condvar's wait keeps a thread. *)
Waiting == {"unlock", "load", "syscall", "asleep", "relock", "expired"}

(* Types, of what the proof needs. *)
BarrierTypeOK ==
  /\ count \in Nat /\ generation_id \in Nat /\ arrivals \in Nat
  /\ local_gen \in [Threads -> Nat] /\ ticket \in [Threads -> Nat]
  /\ bpc \in [Threads -> Joined \union {"out", "locked"}]
  /\ cpc \in [Threads -> Waiting \union {"idle", "all"}]

(* The condvar is used from the while loop and by the leader only. *)
CondvarUse ==
  \A t \in Threads :
    (cpc[t] \in Waiting => bpc[t] = "loop") /\ (cpc[t] = "all" => bpc[t] = "leader")

(***************************************************************************)
(* The steps of wait() that read or write the barrier's state are taken    *)
(* with the mutex: from lock() to the unlock of the condvar's wait, and    *)
(* from its return on.                                                     *)
(***************************************************************************)
Locked(t) ==
  \/ bpc[t] \in {"locked", "lead", "leader", "follower"}
  \/ bpc[t] = "loop" /\ cpc[t] \in {"idle", "unlock"}

LockedAlone == \A t \in Threads : Locked(t) => holders = {t}

(***************************************************************************)
(* count and generation_id are the remainder and, wrapped, the quotient of *)
(* the number of arrivals; a thread remembers the wrapped number of its    *)
(* group.                                                                  *)
(***************************************************************************)
CountsArrivals ==
  /\ count = arrivals % num_threads
  /\ generation_id = (arrivals \div num_threads) % Generations
  /\ \A t \in Threads : bpc[t] \in Joined =>
       ticket[t] \in 1..arrivals /\ local_gen[t] = Group(t) % Generations

(* Who leads a group, who follows, and when. *)
Roles ==
  \A t \in Threads :
    /\ bpc[t] \in {"lead", "leader"} => ticket[t] % num_threads = 0
    /\ bpc[t] \in {"loop", "follower"} => ticket[t] % num_threads # 0
    /\ bpc[t] \in {"lead", "leader", "follower"} =>
         arrivals >= (Group(t) + 1) * num_threads

(* The inductive invariant. *)
BarrierInv == BarrierTypeOK /\ CondvarUse /\ LockedAlone /\ CountsArrivals /\ Roles

-------------------------------------------------------------------------------
(* Quotient and remainder. *)
LEMMA DivMod ==
  ASSUME NEW a \in Nat, NEW n \in Nat \ {0}
  PROVE  a \div n \in Nat /\ a % n \in 0..(n-1) /\ a = n * (a \div n) + (a % n)
  OBVIOUS

(* One more multiple of n is n further on. *)
LEMMA NextMultiple ==
  ASSUME NEW n \in Nat, NEW x \in Nat, NEW y \in Nat, x < y
  PROVE  n * x + n <= n * y
<1>1. PICK k \in Nat : y = x + 1 + k
  <2>1. y - x - 1 \in Nat /\ y = x + 1 + (y - x - 1)
    OBVIOUS
  <2> QED
    BY <2>1
<1>2. n * y = n * x + n + n * k /\ n * k \in Nat /\ n * x \in Nat
  BY <1>1
<1> QED
  BY <1>2

(* They are the only ones of their kind. *)
LEMMA DivModUnique ==
  ASSUME NEW a \in Nat, NEW n \in Nat \ {0}, NEW q \in Nat, NEW r \in 0..(n-1),
         a = n * q + r
  PROVE  a \div n = q /\ a % n = r
<1> DEFINE d == a \div n
           m == a % n
<1>1. d \in Nat /\ m \in 0..(n-1) /\ a = n * d + m
  BY DivMod
<1> HIDE DEF d, m
<1>2. n * d \in Nat /\ n * q \in Nat
  BY <1>1
<1>3. ~ (d < q)
  <2> SUFFICES ASSUME d < q PROVE FALSE
    OBVIOUS
  <2>1. n * d + n <= n * q
    BY <1>1, NextMultiple
  <2> QED
    BY <1>1, <1>2, <2>1
<1>4. ~ (q < d)
  <2> SUFFICES ASSUME q < d PROVE FALSE
    OBVIOUS
  <2>1. n * q + n <= n * d
    BY <1>1, NextMultiple
  <2> QED
    BY <1>1, <1>2, <2>1
<1>5. d = q
  BY <1>1, <1>3, <1>4
<1>6. m = r
  BY <1>1, <1>2, <1>5
<1> QED
  BY <1>5, <1>6 DEF d, m

(* The successor: in the same interval, or the first of the next one. *)
LEMMA NextDivMod ==
  ASSUME NEW a \in Nat, NEW n \in Nat \ {0}
  PROVE  /\ (a % n) + 1 < n => (a + 1) \div n = a \div n /\ (a + 1) % n = (a % n) + 1
         /\ (a % n) + 1 >= n =>
              /\ (a + 1) \div n = (a \div n) + 1 /\ (a + 1) % n = 0
              /\ a + 1 = ((a \div n) + 1) * n
<1> DEFINE d == a \div n
           m == a % n
<1>1. d \in Nat /\ m \in 0..(n-1) /\ a = n * d + m
  BY DivMod
<1> HIDE DEF d, m
<1>2. n * d \in Nat /\ n * (d + 1) = n * d + n /\ (d + 1) * n = n * d + n
  BY <1>1
<1>3. ASSUME m + 1 < n PROVE (a + 1) \div n = d /\ (a + 1) % n = m + 1
  <2>1. a + 1 \in Nat /\ m + 1 \in 0..(n-1) /\ a + 1 = n * d + (m + 1)
    BY <1>1, <1>2, <1>3
  <2> QED
    BY <1>1, <2>1, DivModUnique
<1>4. ASSUME m + 1 >= n
      PROVE  (a + 1) \div n = d + 1 /\ (a + 1) % n = 0 /\ a + 1 = (d + 1) * n
  <2>1. a + 1 \in Nat /\ 0 \in 0..(n-1) /\ d + 1 \in Nat /\ a + 1 = n * (d + 1) + 0
    BY <1>1, <1>2, <1>4
  <2>2. a + 1 = (d + 1) * n
    BY <1>2, <2>1
  <2> QED
    BY <2>1, <2>2, DivModUnique
<1> QED
  BY <1>3, <1>4 DEF d, m

(* A number that counts modulo n follows the one that does not. *)
LEMMA WrappingCount ==
  ASSUME NEW a \in Nat, NEW n \in Nat \ {0}
  PROVE  ((a % n) + 1) % n = (a + 1) % n
<1> DEFINE m == a % n
<1>1. m \in 0..(n-1)
  BY DivMod
<1>2. (m + 1 < n => (a + 1) % n = m + 1) /\ (m + 1 >= n => (a + 1) % n = 0)
  BY NextDivMod
<1> HIDE DEF m
<1>3. m + 1 < n => (m + 1) % n = m + 1
  <2>1. m + 1 \in Nat /\ n * 0 = 0
    BY <1>1
  <2> QED
    BY <1>1, <2>1, DivModUnique
<1>4. m + 1 >= n => (m + 1) % n = 0
  <2>1. m + 1 \in Nat /\ (m + 1 >= n => m + 1 = n * 1 + 0)
    BY <1>1
  <2> QED
    BY <1>1, <2>1, DivModUnique
<1> QED
  BY <1>1, <1>2, <1>3, <1>4 DEF m

-------------------------------------------------------------------------------
(* Any step of a thread. *)
Act(t) == Call(t) \/ Arrive(t) \/ Continue(t) \/ Kernel(t)

(* What a step of t can do to the mutex and to its own control, *)
Flow(t) ==
  /\ \A u \in Threads \ {t} : bpc'[u] = bpc[u] /\ cpc'[u] = cpc[u]
  /\ bpc' \in [Threads -> Joined \union {"out", "locked"}]
  /\ cpc' \in [Threads -> Waiting \union {"idle", "all"}]
  /\ holders' = holders \/ Mutex!Acquire(t) \/ Mutex!Release(t)
  /\ Locked(t)' => (Locked(t) /\ holders' = holders) \/ holders' = {t}
  /\ cpc'[t] \in Waiting => bpc'[t] = "loop"
  /\ cpc'[t] = "all" => bpc'[t] = "leader"

(* and, unless it is an arrival, to the counts and the roles. *)
Keeps(t) ==
  /\ UNCHANGED <<count, generation_id, local_gen, arrivals, ticket>>
  /\ bpc'[t] \in Joined => bpc[t] \in Joined
  /\ bpc'[t] \in {"loop", "lead"} => bpc'[t] = bpc[t]
  /\ bpc'[t] = "leader" => bpc[t] \in {"lead", "leader"}
  /\ bpc'[t] = "follower" =>
       \/ bpc[t] = "follower"
       \/ bpc[t] = "loop" /\ local_gen[t] # generation_id

(* Every step moves its own thread and takes the mutex only when it is free. *)
LEMMA FlowStep ==
  ASSUME BarrierTypeOK, CondvarUse, NEW t \in Threads, Act(t), LockedAlone
  PROVE  Flow(t)
<1> USE DEF BarrierTypeOK, CondvarUse, Flow, Locked, Joined, Waiting, Advance, Step,
       Mutex!Acquire, Mutex!Release, condvarVars
<1>1. CASE Call(t)
  BY Zenon, <1>1 DEF Call, wait_lock
<1>2. CASE Arrive(t)
  BY Zenon, <1>2 DEF Arrive, wait_arrive
<1>3. ASSUME wait_loop(t) PROVE Flow(t)
  BY Zenon, <1>3 DEF wait_loop, wait
<1>4. ASSUME wait_follow(t) PROVE Flow(t)
  BY Zenon, <1>4 DEF wait_follow
<1>5. ASSUME wait_lead(t) PROVE Flow(t)
  BY Zenon, <1>5 DEF wait_lead, notify_all
<1>6. ASSUME wait_exit(t) PROVE Flow(t)
  BY Zenon, <1>6 DEF wait_exit
<1>7. ASSUME WaitStep(t), bpc' = bpc PROVE Flow(t)
  <2>1. CASE wait_unlock(t)
    BY Zenon, <1>7, <2>1 DEF wait_unlock
  <2>2. CASE wait_load(t)
    BY Zenon, <1>7, <2>2 DEF wait_load
  <2>3. CASE wait_syscall(t)
    BY Zenon, <1>7, <2>3 DEF wait_syscall
  <2>4. CASE wait_return(t)
    BY Zenon, <1>7, <2>4 DEF wait_return
  <2>5. CASE wait_relock(t)
    BY Zenon, <1>7, <2>5 DEF wait_relock
  <2> QED
    BY Zenon, <1>7, <2>1, <2>2, <2>3, <2>4, <2>5 DEF WaitStep
<1>8. ASSUME NotifyStep(t), bpc' = bpc PROVE Flow(t)
  BY Zenon, <1>8 DEF NotifyStep, notify_one_wake, notify_all_wake
<1>9. CASE Kernel(t)
  BY Zenon, <1>9 DEF Kernel, BarrierKernel, CondvarKernel, wait_timedout, wait_interrupted,
       wait_spurious
<1> HIDE DEF Flow
<1> QED
  BY Zenon, <1>1, <1>2, <1>3, <1>4, <1>5, <1>6, <1>7, <1>8, <1>9
  DEF Act, Continue, wait_condvar

(* Only an arrival counts. *)
LEMMA KeepsStep ==
  ASSUME BarrierTypeOK, NEW t \in Threads, Act(t), ~ Arrive(t)
  PROVE  Keeps(t)
<1> USE DEF BarrierTypeOK, Keeps, Joined, Advance
<1>1. CASE Call(t)
  BY Zenon, <1>1 DEF Call, wait_lock
<1>2. ASSUME wait_loop(t), UNCHANGED <<arrivals, ticket>> PROVE Keeps(t)
  BY Zenon, <1>2 DEF wait_loop
<1>3. ASSUME wait_follow(t), UNCHANGED <<arrivals, ticket>> PROVE Keeps(t)
  BY Zenon, <1>3 DEF wait_follow
<1>4. ASSUME wait_lead(t), UNCHANGED <<arrivals, ticket>> PROVE Keeps(t)
  BY Zenon, <1>4 DEF wait_lead
<1>5. ASSUME wait_exit(t), UNCHANGED <<arrivals, ticket>> PROVE Keeps(t)
  BY Zenon, <1>5 DEF wait_exit
<1>6. ASSUME wait_condvar(t), UNCHANGED <<arrivals, ticket>> PROVE Keeps(t)
  BY Zenon, <1>6 DEF wait_condvar
<1>7. CASE Kernel(t)
  BY Zenon, <1>7 DEF Kernel, BarrierKernel
<1> HIDE DEF Keeps
<1> QED
  BY Zenon, <1>1, <1>2, <1>3, <1>4, <1>5, <1>6, <1>7 DEF Act, Continue

(* The mutex stays with the one thread that relies on it. *)
LEMMA LockedStep ==
  ASSUME LockedAlone, CondvarUse, NEW t \in Threads, Flow(t)
  PROVE  LockedAlone' /\ CondvarUse'
<1>1. ASSUME NEW u \in Threads, u # t, Locked(u)' PROVE holders' = {u}
  <2>1. Locked(u)
    BY Zenon, <1>1 DEF Flow, Locked
  <2>2. holders = {u}
    BY Zenon, <2>1 DEF LockedAlone
  <2> QED
    BY Zenon, <1>1, <2>2 DEF Flow, Mutex!Acquire, Mutex!Release
<1>2. ASSUME Locked(t)' PROVE holders' = {t}
  BY Zenon, <1>2 DEF Flow, LockedAlone
<1>3. CondvarUse'
  BY Zenon DEF CondvarUse, Flow
<1> QED
  BY Zenon, <1>1, <1>2, <1>3 DEF LockedAlone

(* What an arrival counts, and the role it gets. *)
LEMMA ArriveStep ==
  ASSUME num_threads # 0, BarrierTypeOK, CountsArrivals, Roles, NEW t \in Threads,
         Arrive(t), Flow(t)
  PROVE  /\ count' \in Nat /\ generation_id' \in Nat /\ arrivals' \in Nat
         /\ local_gen' \in [Threads -> Nat] /\ ticket' \in [Threads -> Nat]
         /\ CountsArrivals' /\ Roles'
<1> DEFINE N == num_threads
           g == arrivals \div N
<1>1. N \in Nat \ {0} /\ Generations \in Nat \ {0} /\ arrivals \in Nat
  BY BarrierAssumption DEF BarrierTypeOK
<1>2. g \in Nat /\ count \in 0..(N-1) /\ arrivals = N * g + count
  BY <1>1, DivMod DEF CountsArrivals
<1>3. arrivals' = arrivals + 1 /\ ticket'[t] = arrivals + 1 /\ local_gen'[t] = generation_id
  BY Zenon DEF Arrive, wait_arrive, BarrierTypeOK
<1>4. \A u \in Threads \ {t} :
        ticket'[u] = ticket[u] /\ local_gen'[u] = local_gen[u] /\ bpc'[u] = bpc[u]
  BY Zenon DEF Arrive, wait_arrive, BarrierTypeOK, Flow
<1>5. \/ count + 1 < N /\ count' = count + 1 /\ bpc'[t] = "loop" /\ generation_id' = generation_id
      \/ /\ count + 1 >= N /\ count' = 0 /\ bpc'[t] = "lead"
         /\ generation_id' = (generation_id + 1) % Generations
  BY Zenon DEF Arrive, wait_arrive, Advance, BarrierTypeOK
<1>6. count = arrivals % N /\ generation_id = g % Generations
  BY Zenon DEF CountsArrivals
<1>7. /\ count + 1 < N => (arrivals + 1) \div N = g /\ (arrivals + 1) % N = count + 1
      /\ count + 1 >= N => /\ (arrivals + 1) \div N = g + 1 /\ (arrivals + 1) % N = 0
                           /\ arrivals + 1 = (g + 1) * N
  BY <1>1, <1>6, NextDivMod
<1>8. (generation_id + 1) % Generations = (g + 1) % Generations
  BY <1>1, <1>2, <1>6, WrappingCount
<1>9. Group(t)' = g
  BY <1>1, <1>3 DEF Group
<1> HIDE DEF N, g
<1>10. count' \in Nat /\ generation_id' \in Nat /\ arrivals' \in Nat
  <2>1. (generation_id + 1) % Generations \in Nat
    BY <1>1, DivMod DEF BarrierTypeOK
  <2> QED
    BY <1>1, <1>2, <1>3, <1>5, <2>1 DEF BarrierTypeOK
<1>11. local_gen' \in [Threads -> Nat] /\ ticket' \in [Threads -> Nat]
  <2>1. arrivals + 1 \in Nat
    BY <1>1
  <2> QED
    BY Zenon, <2>1 DEF Arrive, wait_arrive, BarrierTypeOK
<1>12. CountsArrivals'
  <2>1. count' = arrivals' % N /\ generation_id' = (arrivals' \div N) % Generations
    BY Zenon, <1>3, <1>5, <1>6, <1>7, <1>8
  <2>2. ticket'[t] \in 1..arrivals' /\ local_gen'[t] = Group(t)' % Generations
    BY <1>1, <1>3, <1>6, <1>9
  <2>3. ASSUME NEW u \in Threads, u # t, bpc'[u] \in Joined
        PROVE  ticket'[u] \in 1..arrivals' /\ local_gen'[u] = Group(u)' % Generations
    <3>1. ticket[u] \in 1..arrivals /\ local_gen[u] = Group(u) % Generations
      BY Zenon, <1>4, <2>3 DEF CountsArrivals
    <3>2. Group(u)' = Group(u)
      BY Zenon, <1>4, <2>3 DEF Group
    <3> QED
      BY <1>1, <1>3, <1>4, <2>3, <3>1, <3>2
  <2> QED
    BY Zenon, <2>1, <2>2, <2>3 DEF CountsArrivals, N
<1>13. Roles'
  <2>1. /\ bpc'[t] = "lead" => ticket'[t] % N = 0 /\ arrivals' = (Group(t)' + 1) * N
        /\ bpc'[t] = "loop" => ticket'[t] % N # 0
        /\ bpc'[t] \in {"lead", "loop"}
    BY <1>1, <1>2, <1>3, <1>5, <1>7, <1>9
  <2>2. ASSUME NEW u \in Threads, u # t
        PROVE  /\ bpc'[u] \in {"lead", "leader"} => ticket'[u] % N = 0
               /\ bpc'[u] \in {"loop", "follower"} => ticket'[u] % N # 0
               /\ bpc'[u] \in {"lead", "leader", "follower"} =>
                    arrivals >= (Group(u)' + 1) * N
    <3>1. ticket'[u] = ticket[u] /\ bpc'[u] = bpc[u] /\ Group(u)' = Group(u)
      BY Zenon, <1>4, <2>2 DEF Group
    <3>2. /\ bpc[u] \in {"lead", "leader"} => ticket[u] % N = 0
          /\ bpc[u] \in {"loop", "follower"} => ticket[u] % N # 0
          /\ bpc[u] \in {"lead", "leader", "follower"} => arrivals >= (Group(u) + 1) * N
      BY Zenon DEF Roles, N
    <3> QED
      BY Zenon, <3>1, <3>2
  <2>3. ASSUME NEW u \in Threads, bpc'[u] \in {"lead", "leader", "follower"}
        PROVE  arrivals' >= (Group(u)' + 1) * N
    <3>1. Group(u)' \in Nat
      <4>1. CASE u = t
        BY Zenon, <4>1, <1>2, <1>9
      <4>2. CASE u # t
        <5>1. ticket[u] \in 1..arrivals /\ ticket'[u] = ticket[u]
          BY Zenon, <1>4, <2>3, <4>2 DEF CountsArrivals, Joined
        <5>2. ticket'[u] - 1 \in Nat
          BY <1>1, <5>1
        <5> QED
          BY <1>1, <5>2, DivMod DEF Group, N
      <4> QED
        BY Zenon, <4>1, <4>2
    <3>2. (Group(u)' + 1) * N \in Nat
      BY <1>1, <3>1
    <3>3. arrivals >= (Group(u)' + 1) * N \/ arrivals' = (Group(u)' + 1) * N
      BY Zenon, <2>1, <2>2, <2>3
    <3> QED
      BY <1>1, <1>3, <3>2, <3>3
  <2>4. ASSUME NEW u \in Threads
        PROVE  /\ bpc'[u] \in {"lead", "leader"} => ticket'[u] % N = 0
               /\ bpc'[u] \in {"loop", "follower"} => ticket'[u] % N # 0
    BY Zenon, <2>1, <2>2
  <2> QED
    BY Zenon, <2>3, <2>4 DEF Roles, N
<1> QED
  BY Zenon, <1>10, <1>11, <1>12, <1>13

(* A thread leaves the loop when its group is complete. *)
LEMMA FollowStep ==
  ASSUME num_threads # 0, BarrierTypeOK, CountsArrivals, Roles, NEW t \in Threads,
         Keeps(t), Flow(t)
  PROVE  CountsArrivals' /\ Roles'
<1>1. \A u \in Threads : Group(u)' = Group(u) /\ ticket'[u] = ticket[u]
  BY Zenon DEF Keeps, Group
<1>2. CountsArrivals'
  <2>1. \A u \in Threads : bpc'[u] \in Joined => bpc[u] \in Joined
    BY Zenon DEF Keeps, Flow
  <2> QED
    BY Zenon, <1>1, <2>1 DEF CountsArrivals, Keeps
<1>3. ASSUME NEW u \in Threads, bpc'[u] = "follower", bpc[u] = "loop"
      PROVE  arrivals >= (Group(u) + 1) * num_threads
  <2> DEFINE N == num_threads
             g == arrivals \div N
  <2>1. N \in Nat \ {0} /\ arrivals \in Nat
    BY BarrierAssumption DEF BarrierTypeOK
  <2>2. g \in Nat /\ N * g \in Nat /\ arrivals >= N * g
    BY <2>1, DivMod
  <2>3. ticket[u] \in 1..arrivals /\ Group(u) # g
    <3>1. u = t
      BY Zenon, <1>3 DEF Flow
    <3>2. local_gen[u] # generation_id
      BY Zenon, <1>3, <3>1 DEF Keeps
    <3> QED
      BY Zenon, <1>3, <3>2 DEF CountsArrivals, Joined
  <2>4. Group(u) \in Nat /\ Group(u) <= g
    <3> DEFINE x == ticket[u] - 1
    <3>1. x \in Nat /\ x < arrivals
      BY <2>1, <2>3
    <3> HIDE DEF x
    <3>2. /\ x \div N \in Nat /\ x >= N * (x \div N) /\ N * (x \div N) \in Nat
          /\ arrivals < N * g + N
      BY <2>1, <2>2, <3>1, DivMod
    <3>3. ~ (g < x \div N)
      <4> SUFFICES ASSUME g < x \div N PROVE FALSE
        OBVIOUS
      <4>1. N * g + N <= N * (x \div N)
        BY <2>1, <2>2, <3>2, NextMultiple
      <4> QED
        BY <2>1, <2>2, <3>1, <3>2, <4>1
    <3> QED
      BY <2>2, <3>2, <3>3 DEF Group, x
  <2> HIDE DEF g
  <2>5. N * Group(u) + N <= N * g
    BY <2>1, <2>2, <2>3, <2>4, NextMultiple
  <2>6. (Group(u) + 1) * N = N * Group(u) + N /\ N * Group(u) \in Nat
    BY <2>1, <2>4
  <2> QED
    BY <2>1, <2>2, <2>5, <2>6
<1>4. ASSUME NEW u \in Threads
      PROVE  /\ bpc'[u] \in {"lead", "leader"} => bpc[u] \in {"lead", "leader"}
             /\ bpc'[u] \in {"loop", "follower"} => bpc[u] \in {"loop", "follower"}
             /\ bpc'[u] = "follower" => bpc[u] \in {"loop", "follower"}
  BY Zenon DEF Keeps, Flow
<1> QED
  BY Zenon, <1>1, <1>2, <1>3, <1>4 DEF Roles, Keeps

-------------------------------------------------------------------------------
(* The mutex, the counts and the roles, at every step of every thread. *)
THEOREM BarrierInvariant ==
  ASSUME num_threads # 0
  PROVE  FairSpec => []BarrierInv
<1>1. Init => BarrierInv
  <2> SUFFICES ASSUME Init PROVE BarrierInv
    OBVIOUS
  <2>1. num_threads \in Nat \ {0} /\ Generations \in Nat \ {0}
    BY BarrierAssumption
  <2>2. 0 = num_threads * 0 + 0 /\ 0 = Generations * 0 + 0 /\ 0 \in 0..(num_threads - 1)
        /\ 0 \in 0..(Generations - 1)
    BY <2>1
  <2>3. 0 % num_threads = 0 /\ 0 \div num_threads = 0 /\ 0 % Generations = 0
    BY <2>1, <2>2, DivModUnique
  <2>4. BarrierTypeOK
    BY DEF Init, BarrierInit, CondvarInit, BarrierTypeOK, Joined, Waiting
  <2>5. \A t \in Threads : bpc[t] = "out" /\ cpc[t] = "idle"
    BY Zenon DEF Init, BarrierInit, CondvarInit
  <2>6. count = 0 /\ generation_id = 0 /\ arrivals = 0
    BY Zenon DEF Init, BarrierInit
  <2>7. CondvarUse /\ LockedAlone /\ Roles
    BY Zenon, <2>5 DEF CondvarUse, LockedAlone, Locked, Roles, Waiting
  <2>8. CountsArrivals
    BY Zenon, <2>3, <2>5, <2>6 DEF CountsArrivals, Joined
  <2> QED
    BY Zenon, <2>4, <2>7, <2>8 DEF BarrierInv
<1>2. BarrierInv /\ [Next]_mcVars => BarrierInv'
  <2> SUFFICES ASSUME BarrierInv, [Next]_mcVars PROVE BarrierInv'
    OBVIOUS
  <2>1. BarrierTypeOK /\ CondvarUse /\ LockedAlone /\ CountsArrivals /\ Roles
    BY Zenon DEF BarrierInv
  <2>2. ASSUME NEW t \in Threads, Act(t) PROVE BarrierInv'
    <3>1. Flow(t)
      BY Zenon, <2>1, <2>2, FlowStep
    <3>2. LockedAlone' /\ CondvarUse'
      BY Zenon, <2>1, <3>1, LockedStep
    <3>3. CASE Arrive(t)
      BY Zenon, <2>1, <3>1, <3>2, <3>3, ArriveStep DEF BarrierInv, BarrierTypeOK, Flow
    <3>4. CASE ~ Arrive(t)
      <4>1. Keeps(t)
        BY Zenon, <2>1, <2>2, <3>4, KeepsStep
      <4>2. CountsArrivals' /\ Roles'
        BY Zenon, <2>1, <3>1, <4>1, FollowStep
      <4> QED
        BY Zenon, <2>1, <3>1, <3>2, <4>1, <4>2 DEF BarrierInv, BarrierTypeOK, Flow, Keeps
    <3> QED
      BY Zenon, <3>3, <3>4
  <2>3. CASE UNCHANGED mcVars
    BY Zenon, <2>1, <2>3 DEF mcVars, barrierVars, condvarVars, BarrierInv, BarrierTypeOK,
         CondvarUse, LockedAlone, Locked, CountsArrivals, Roles, Group
  <2> QED
    BY Zenon, <2>2, <2>3 DEF Next, Act, Done
<1> QED
  BY <1>1, <1>2, PTL DEF FairSpec

(***************************************************************************)
(* Rendezvous, for any number of threads and members of a group: wait()    *)
(* returns only when all of its group have arrived, and true to the last   *)
(* of them only.  A generation_id that wraps can keep a thread waiting, it *)
(* cannot let one go early.                                                *)
(***************************************************************************)
THEOREM BarrierIsRendezvous ==
  ASSUME num_threads # 0
  PROVE  FairSpec => []Rendezvous
<1>1. BarrierInv => Rendezvous
  BY Zenon DEF BarrierInv, Roles, Group, Rendezvous
<1> QED
  BY <1>1, BarrierInvariant, PTL

===============================================================================
