--------------------------- MODULE SessionDirProofs ----------------------------
(***************************************************************************)
(* No compiler takes the session directory of another away, and, if no     *)
(* session becomes ten seconds old while it is pending, neither the one    *)
(* another copies from nor the newest; and an undisturbed collection       *)
(* leaves no other.  For every set of processes and any number of          *)
(* sessions.                                                               *)
(***************************************************************************)
EXTENDS SessionDir, WellFoundedInduction, TLAPS

-------------------------------------------------------------------------------
(* Where a process has the lock of its own session, and where it removes one. *)
Session == {"create", "find", "open", "share", "read", "copy", "failed", "compile", "unlock"}
Removing == {"remove", "rmdir", "unlink", "unlock_only"}
Control == Session \union Removing \union
  {"start", "retry", "lock", "list", "collect", "flock", "delete", "ended"}

(* The names a directory can have on disk. *)
Paths == {"working", "final"}

(* Types, of what the proof needs. *)
SessTypeOK ==
  /\ dir \in [D -> Paths \union {"none"}] /\ damaged \subseteq D /\ lockfile \subseteq D
  /\ excl \in [D -> Processes \union {None}] /\ shared \in [D -> SUBSET Processes]
  /\ next \in Nat \ {0} /\ aged \in D \union {0} /\ newest \in D \union {0} /\ slow \in BOOLEAN
  /\ pc \in [Processes -> Control] /\ cur \in [Processes -> D \union {0}]
  /\ src \in [Processes -> D \union {0}] /\ tried \in [Processes -> SUBSET D]
  /\ orphans \in [Processes -> SUBSET (D \X Paths)]
  /\ pairs \in [Processes -> SUBSET (D \X Paths)]
  /\ candidates \in [Processes -> SUBSET D]
  /\ job \in [Processes -> (D \union {0}) \X (Paths \union {None})
                             \X {"unlink", "collect", None}
                             \X {"retry", "list", "collect", "delete", None}]

(* What p removes: directories it has locked, or found without a lock file. *)
Deleting(p, d) == pc[p] \in Removing /\ job[p][3] = "unlink" /\ job[p][1] = d
Sweeping(p, d) == pc[p] \in Removing /\ job[p][3] = "collect" /\ job[p][1] = d

(* The jobs: of a session, of the two passes over the listing, and of the *)
(* deletion of candidates.                                                *)
JobOK(p) ==
  /\ pc[p] \in Removing \union {"flock"} =>
       job[p][1] \in D /\ job[p][2] \in Paths /\ job[p][3] # None /\ job[p][4] # None
  /\ pc[p] = "flock" => job[p][3] = "unlink" /\ job[p][4] = "collect"
  /\ pc[p] \in Removing =>
       /\ job[p][3] = "collect" => job[p][4] = "collect" /\ pc[p] # "unlink"
       /\ job[p][4] \in {"retry", "list"} =>
            job[p][1] = cur[p] /\ job[p][2] = "working" /\ candidates[p] = {}
       /\ job[p][4] = "delete" => job[p][2] = "final"
       /\ job[p][4] = "collect" /\ job[p][3] = "unlink" => job[p][2] = "working"
       /\ pc[p] = "unlock_only" => job[p][4] \in {"collect", "delete"}

JobInv == \A p \in Processes : JobOK(p)

(* Who holds which lock; directories without a lock file come first. *)
Holds(p) ==
  /\ pc[p] # "start" => cur[p] # 0
  /\ pc[p] \in Session => excl[cur[p]] = p
  /\ pc[p] \in Session \union {"lock", "retry", "start", "list", "ended"} => candidates[p] = {}
  /\ orphans[p] # {} \/ (pc[p] \in Removing /\ job[p][3] = "collect") => candidates[p] = {}
  /\ pc[p] = "flock" => orphans[p] = {}
  /\ pc[p] \in {"open", "share", "read", "copy", "failed"} => src[p] # 0 /\ src[p] # cur[p]
  /\ pc[p] \in {"read", "copy"} => p \in shared[src[p]]
  /\ \A d \in D : Deleting(p, d) => excl[d] = p /\ d \notin candidates[p]
  /\ \A d \in candidates[p] : excl[d] = p

HoldInv ==
  /\ \A d \in D : excl[d] # None => shared[d] = {}
  /\ \A p \in Processes : Holds(p)

(* Timestamps are used once. *)
Listed(q, d) == \E path \in Paths : <<d, path>> \in orphans[q] \union pairs[q]
Seen(q, d) == Listed(q, d) \/ d \in candidates[q] \/ job[q][1] = d

TimeInv ==
  /\ newest < next /\ aged < next
  /\ \A p \in Processes : cur[p] < next
  /\ \A p, q \in Processes : cur[p] = cur[q] => p = q \/ cur[p] = 0
  /\ \A d \in D : d >= next =>
       /\ dir[d] = "none" /\ excl[d] = None /\ d \notin lockfile /\ d \notin damaged
       /\ \A q \in Processes : ~ Seen(q, d)

(* The directory of a session about to be locked or created is unknown to all. *)
FreshInv ==
  \A p \in Processes, d \in D : cur[p] = d /\ pc[p] \in {"lock", "create"} =>
    /\ dir[d] = "none" /\ d \in lockfile /\ d \notin damaged
    /\ pc[p] = "lock" => excl[d] = None
    /\ \A q \in Processes : ~ Seen(q, d)

(* d is the session of p, which has had its lock since lock_directory. *)
Own(p, d) == cur[p] = d /\ excl[d] = p /\ d \notin candidates[p] /\ ~ Deleting(p, d)

(* ... and the lock protects it: nobody has found it without its lock file. *)
LiveInv ==
  \A p \in Processes, d \in D : Own(p, d) /\ pc[p] \notin {"create", "unlock"} =>
    /\ dir[d] = "working" /\ d \in lockfile /\ d \notin damaged
    /\ \A q \in Processes :
         (\A path \in Paths : <<d, path>> \notin orphans[q]) /\ ~ Sweeping(q, d)

(* What holds however long sessions last. *)
SessInv == SessTypeOK /\ JobInv /\ HoldInv /\ TimeInv /\ FreshInv /\ LiveInv

(* What was finalized when it was listed. *)
Finalized(q, d) ==
  \/ <<d, "final">> \in pairs[q] \/ d \in candidates[q]
  \/ pc[q] \in Removing \union {"flock"} /\ job[q][1] = d /\ job[q][2] = "final"

(* A finalized directory stays so until it is removed. *)
FinalInv ==
  /\ \A d \in D : dir[d] = "final" => d <= newest
  /\ \A q \in Processes, d \in D : Finalized(q, d) => dir[d] # "working" /\ d <= newest

(* What was not, and, when it was old by the time, will not be. *)
Unfinished(q, d) ==
  \/ <<d, "working">> \in pairs[q] /\ d <= aged
  \/ pc[q] \in Removing \union {"flock"} /\ job[q][1] = d /\ job[q][2] = "working"

(* Nobody is going to finalize d. *)
NoOwner(d) ==
  \A p \in Processes : cur[p] = d =>
    pc[p] \notin {"lock", "create"} /\ ~ (dir[d] = "working" /\ Own(p, d))

(* Those that are old or unfinished have no owner any more. *)
AbandonedInv ==
  /\ \A d \in D : d <= aged => NoOwner(d)
  /\ \A q \in Processes, d \in D : Unfinished(q, d) => dir[d] # "final" /\ NoOwner(d)

(* Unless slow, every directory has its lock file: no orphans. *)
LockFileInv ==
  /\ \A d \in D : dir[d] # "none" => d \in lockfile
  /\ \A p \in Processes :
       /\ orphans[p] = {}
       /\ pc[p] \in Removing => job[p][3] = "unlink"
       /\ pc[p] \in {"unlink", "unlock_only"} => dir[job[p][1]] = "none"

(* The deletion of candidates spares the newest of them. *)
NewestInv ==
  /\ NewestKept
  /\ \A p \in Processes :
       pc[p] = "delete" \/ (pc[p] \in Removing /\ job[p][4] = "delete") =>
         /\ \A d \in candidates[p] : d < newest
         /\ pc[p] \in Removing => job[p][1] < newest

(* A process copies from a finalized directory. *)
CopyInv == \A p \in Processes : pc[p] = "copy" => dir[src[p]] = "final"

(* What holds unless slow: no session is old while it is pending. *)
ShortInv == FinalInv /\ AbandonedInv /\ LockFileInv /\ NewestInv /\ CopyInv

(* The inductive invariant. *)
SessionInv == SessInv /\ (~ slow => ShortInv)

-------------------------------------------------------------------------------
(* FiniteSetsExt's Max is the greatest element of a set of sessions. *)
LEMMA MaxFacts ==
  ASSUME NEW S \in SUBSET (0..Dirs), S # {}
  PROVE  Max(S) \in S /\ \A d \in S : d <= Max(S)
<1> USE SessionAssumption
<1> DEFINE T == {n \in Nat : Dirs - n \in S}
<1>1. T # {}
  <2>1. PICK d \in S : d \in 0..Dirs
    BY Zenon
  <2>2. Dirs - d \in T
    BY <2>1
  <2> QED
    BY Zenon, <2>2
<1>2. PICK n \in T : \A m \in T : ~ (<<m, n>> \in OpToRel(<, Nat))
  <2>1. T \subseteq Nat
    OBVIOUS
  <2> QED
    BY <1>1, <2>1, NatLessThanWellFounded, WFMin, Zenon
<1>3. \A m \in T : ~ (m < n)
  BY Zenon, <1>2 DEF OpToRel
<1>4. \A d \in S : d <= Dirs - n
  <2> TAKE d \in S
  <2>1. d \in 0..Dirs /\ n \in Nat
    OBVIOUS
  <2>2. Dirs - d \in T
    BY <2>1
  <2>3. ~ (Dirs - d < n)
    BY Zenon, <2>2, <1>3
  <2> HIDE DEF T
  <2> QED
    BY <2>1, <2>3
<1>5. \E x \in S : \A y \in S : x >= y
  BY Zenon, <1>4
<1> QED
  BY Zenon, <1>5 DEF Max

(* The parts of a listed directory. *)
LEMMA PairParts == \A x \in D \X Paths : x = <<x[1], x[2]>> /\ x[1] \in D /\ x[2] \in Paths
  OBVIOUS

(* The numbers of sessions are positive, and no session's is that of no job. *)
LEMMA SessionNumbers == D \subseteq Nat /\ 0 \notin D /\ NoJob[1] = 0
  BY DEF D, NoJob

(* Their order. *)
LEMMA SessionOrder ==
  ASSUME NEW d \in D, NEW e \in D \union {0}
  PROVE  (d <= e => e # 0) /\ (d <= e /\ e <= d => e = d)
  BY DEF D

(* Unlock and Lock, for each directory. *)
LEMMA UnlockFacts ==
  ASSUME SessTypeOK, NEW p \in Processes, NEW d \in D, Unlock(p, d)
  PROVE  /\ excl' \in [D -> Processes \union {None}] /\ shared' \in [D -> SUBSET Processes]
         /\ \A e \in D : excl'[e] = IF e = d /\ excl[e] = p THEN None ELSE excl[e]
         /\ \A e \in D : shared'[e] = IF e = d THEN shared[e] \ {p} ELSE shared[e]
  BY Zenon DEF SessTypeOK, Unlock

(* Lock takes one lock and leaves the others. *)
LEMMA LockFacts ==
  ASSUME SessTypeOK, NEW p \in Processes, NEW d \in D, Lock(p, d)
  PROVE  /\ excl' \in [D -> Processes \union {None}] /\ shared' = shared
         /\ \A e \in D : excl'[e] = IF e = d THEN p ELSE excl[e]
  BY Zenon DEF SessTypeOK, Lock

(* The parts of a job. *)
LEMMA JobTypes ==
  ASSUME SessTypeOK, NEW p \in Processes
  PROVE  /\ job[p][1] \in D \union {0} /\ job[p][2] \in Paths \union {None}
         /\ job[p][3] \in {"unlink", "collect", None}
         /\ job[p][4] \in {"retry", "list", "collect", "delete", None}
  BY Zenon DEF SessTypeOK

(* What p works on. *)
LEMMA Works ==
  ASSUME SessTypeOK, JobInv, HoldInv, NEW p \in Processes
  PROVE  /\ p # None
         /\ pc[p] \in Session => cur[p] \in D /\ excl[cur[p]] = p
         /\ pc[p] \in Removing \union {"flock"} =>
              /\ job[p][1] \in D /\ job[p][2] \in Paths
              /\ job[p][3] \in {"unlink", "collect"}
              /\ job[p][4] \in {"retry", "list", "collect", "delete"}
<1>1. p # None
  BY Zenon, SessionAssumption
<1>2. pc[p] \in Session => cur[p] \in D /\ excl[cur[p]] = p
  BY DEF SessTypeOK, HoldInv, Holds, Session
<1>3. pc[p] \in Removing \union {"flock"} =>
        /\ job[p][1] \in D /\ job[p][2] \in Paths
        /\ job[p][3] \in {"unlink", "collect"}
        /\ job[p][4] \in {"retry", "list", "collect", "delete"}
  BY Zenon, JobTypes DEF JobInv, JobOK
<1> QED
  BY Zenon, <1>1, <1>2, <1>3

(* The newest candidate is one of them. *)
LEMMA NewestCandidate ==
  ASSUME SessTypeOK, NEW p \in Processes, candidates[p] # {}
  PROVE  /\ Max(candidates[p]) \in candidates[p] /\ Max(candidates[p]) \in D
         /\ \A d \in candidates[p] : d <= Max(candidates[p])
<1>1. candidates[p] \subseteq D
  BY Zenon DEF SessTypeOK
<1>2. candidates[p] \in SUBSET (0..Dirs)
  BY <1>1 DEF D
<1> QED
  BY Zenon, <1>1, <1>2, MaxFacts

(* The newest session after finalize. *)
LEMMA NewestFinalized ==
  ASSUME SessTypeOK, NEW d \in D
  PROVE  /\ Max({newest, d}) \in {newest, d} /\ newest \in Nat /\ d \in Nat
         /\ newest <= Max({newest, d}) /\ d <= Max({newest, d})
<1>1. {newest, d} \in SUBSET (0..Dirs)
  BY SessionAssumption DEF SessTypeOK, D
<1> QED
  BY <1>1, MaxFacts, SessionAssumption

-------------------------------------------------------------------------------
(* Any step of a process, its end at any moment included. *)
Act(p) == generate(p) \/ Step(p) \/ exit(p)

(* What a step of p can do, whichever it is: to the state of the others, *)
Others(p) ==
  \A r \in Processes \ {p} :
    /\ pc'[r] = pc[r] /\ cur'[r] = cur[r] /\ src'[r] = src[r]
    /\ orphans'[r] = orphans[r] /\ pairs'[r] = pairs[r] /\ candidates'[r] = candidates[r]
    /\ job'[r] = job[r]

(* to the locks, *)
Locks(p) ==
  \A d \in D :
    /\ excl'[d] # excl[d] =>
         \/ excl[d] = p /\ excl'[d] = None
         \/ /\ excl[d] = None /\ shared[d] = {} /\ excl'[d] = p /\ shared'[d] = {}
            /\ (pc[p] = "lock" /\ d = cur[p]) \/ (pc[p] = "flock" /\ d = job[p][1])
    /\ \A r \in Processes : r # p => (r \in shared'[d] <=> r \in shared[d])
    /\ p \in shared'[d] /\ p \notin shared[d] => excl[d] = None /\ excl'[d] = None

(* which of them it gives up or goes on to use, *)
Keeps(p) ==
  \A d \in D :
    /\ excl'[d] = p
    /\ (pc[p] = "flock" /\ excl[d] # p) \/ d \in candidates[p] \/ Deleting(p, d)
    => d \in candidates'[p] \/ Deleting(p, d)'

(* to the files, *)
Files(p) ==
  \A d \in D :
    /\ dir'[d] # dir[d] =>
         \/ pc[p] = "create" /\ d = cur[p] /\ dir'[d] = "working"
         \/ /\ pc[p] = "compile" /\ d = cur[p] /\ dir[d] = "working" /\ dir'[d] = "final"
            /\ pc'[p] = "unlock" /\ d <= newest'
         \/ pc[p] = "rmdir" /\ d = job[p][1] /\ dir[d] = job[p][2] /\ dir'[d] = "none"
    /\ d \in damaged' /\ d \notin damaged =>
         pc[p] = "remove" /\ d = job[p][1] /\ dir[d] = job[p][2]
    /\ d \in lockfile' /\ d \notin lockfile => d = next /\ next' = next + 1
    /\ d \notin lockfile' /\ d \in lockfile => pc[p] = "unlink" /\ d = job[p][1]

(* to the times, *)
Times(p) ==
  /\ \/ next' = next /\ cur'[p] = cur[p] /\ pc'[p] # "lock"
     \/ /\ pc[p] \in {"start", "retry"} /\ pc'[p] = "lock" /\ cur'[p] = next
        /\ next \in D /\ next' = next + 1 /\ next \in lockfile'
  /\ \/ newest' = newest
     \/ /\ pc[p] = "compile" /\ dir[cur[p]] = "working" /\ dir'[cur[p]] = "final"
        /\ newest' = cur[p] /\ cur[p] > newest
  /\ \/ aged' = aged
     \/ /\ pc[p] = "collect" /\ aged' \in D /\ <<aged', "working">> \in pairs[p]
        /\ \A d \in D : d > aged /\ d <= aged' => slow \/ ~ Pending(d)

(* to the lists of its collection, *)
Lists(p) ==
  /\ \A x \in orphans'[p] :
       x \in orphans[p] \/ (pc[p] = "list" /\ x[1] \notin lockfile /\ dir[x[1]] = x[2])
  /\ \A x \in pairs'[p] :
       x \in pairs[p] \/ (pc[p] = "list" /\ dir[x[1]] = x[2])
  /\ \A d \in candidates'[p] :
       \/ d \in candidates[p]
       \/ /\ pc[p] = "flock" /\ job[p][1] = d /\ job[p][2] = "final"
          /\ excl[d] = None /\ excl'[d] = p
  /\ pc[p] \in Removing /\ pc'[p] # "ended" => candidates'[p] = candidates[p]

(* to its job, *)
Busy == Removing \union {"flock"}

(* A job, by its parts. *)
IsJob(j, d, path, q, back) == j[1] = d /\ j[2] = path /\ j[3] = q /\ j[4] = back

Tasks(p) ==
  \/ job'[p] \in {job[p], NoJob} /\ (pc'[p] \in Busy => pc[p] \in Busy /\ job'[p] = job[p])
  \/ /\ pc[p] \in {"failed", "compile"} /\ pc'[p] = "remove"
     /\ \E back \in {"retry", "list"} : IsJob(job'[p], cur[p], "working", "unlink", back)
  \/ /\ pc[p] = "collect" /\ pc'[p] = "remove"
     /\ \E d \in D, path \in Paths :
          <<d, path>> \in orphans[p] /\ IsJob(job'[p], d, path, "collect", "collect")
  \/ /\ pc[p] = "collect" /\ pc'[p] = "flock"
     /\ \E d \in D, path \in Paths :
          /\ <<d, path>> \in pairs[p] /\ (path = "working" => d <= aged')
          /\ IsJob(job'[p], d, path, "unlink", "collect")
  \/ /\ pc[p] = "delete" /\ pc'[p] = "remove"
     /\ \E d \in candidates[p] : /\ IsJob(job'[p], d, "final", "unlink", "delete")
                                 /\ candidates'[p] = candidates[p] \ {d}

(* and where it goes. *)
Flow(p) ==
  /\ pc'[p] = "create" => pc[p] = "lock"
  /\ pc[p] = "lock" /\ excl'[cur[p]] = p => pc'[p] = "create" \/ excl[cur[p]] = p
  /\ pc[p] = "create" /\ excl'[cur[p]] = p => pc'[p] = "find" /\ dir'[cur[p]] = "working"
  /\ pc[p] = "unlock" => excl'[cur[p]] # p
  /\ pc'[p] = "copy" => pc[p] = "read" /\ dir[src[p]] = "final" /\ src'[p] = src[p]
  /\ pc'[p] = "unlink" => job[p][3] = "unlink"
  /\ pc'[p] \in {"unlink", "unlock_only"} =>
       \/ pc[p] = "remove" /\ dir[job[p][1]] # job[p][2]
       \/ pc[p] = "rmdir" /\ (dir[job[p][1]] # job[p][2] \/ dir'[job[p][1]] = "none")
  /\ pc'[p] = "delete" =>
       \/ pc[p] = "collect" /\ \A d \in candidates'[p] : \E e \in candidates[p] : d < e
       \/ pc[p] \in Removing /\ job[p][4] = "delete"
  /\ pc'[p] = "flock" => pc[p] = "collect"
  /\ pc'[p] = "rmdir" => pc[p] = "remove"
  /\ pc[p] = "flock" /\ pc'[p] = "remove" => job[p][2] = "working"
  /\ pc'[p] = "unlock_only" => pc[p] = "rmdir" /\ job[p][4] \in {"collect", "delete"}

(* All of them. *)
Frame(p) ==
  /\ Others(p) /\ Locks(p) /\ Keeps(p) /\ Files(p) /\ Times(p)
  /\ Lists(p) /\ Tasks(p) /\ Flow(p)

(* Each of these facts holds of every action of the module. *)
LEMMA OthersStep ==
  ASSUME SessTypeOK, NEW p \in Processes, Act(p)
  PROVE  Others(p)
<1> USE DEF Go, files, locks, clock, prepVars, gcVars, Others, SessTypeOK
<1>1. ASSUME generate(p) \/ lock_directory(p) \/ create_dir(p)
     \/ find_source_directory(p) PROVE Others(p)
  BY Zenon, <1>1 DEF generate, lock_directory, create_dir, find_source_directory, CanLock,
       Lock
<1>2. ASSUME copy_open(p) \/ copy_lock(p) \/ copy_read(p) \/ copy_files(p)
     \/ copy_error(p) \/ copy_failed(p) PROVE Others(p)
  BY <1>2 DEF copy_open, copy_lock, copy_read, copy_files, copy_error, copy_failed,
       Open, Unlock, Remove
<1>3. ASSUME finalize(p) \/ finalize_incr_comp_session(p) \/ finalize_errors(p)
     PROVE Others(p)
  BY Zenon, <1>3 DEF finalize, finalize_incr_comp_session, finalize_errors, Unlock, Remove
<1>4. ASSUME remove_files(p) \/ remove_dir(p) \/ delete_session_dir_lock_file(p)
     PROVE Others(p)
  BY Zenon, <1>4 DEF remove_files, remove_dir, delete_session_dir_lock_file, Unlock
<1>5. ASSUME gc_list(p) \/ gc_orphan(p) \/ gc_open(p) PROVE Others(p)
  BY <1>5 DEF gc_list, gc_orphan, gc_open, is_old_enough_to_be_collected,
       Remove, Open
<1>6. ASSUME gc_lock(p) \/ gc_spare(p) \/ gc_delete(p) \/ gc_end(p) PROVE Others(p)
  BY <1>6 DEF gc_lock, gc_spare, gc_delete, gc_end, CanLock, Lock, Unlock, Remove
<1>7. ASSUME exit(p) PROVE Others(p)
  BY Zenon, <1>7 DEF exit
<1> HIDE DEF Go, files, locks, clock, prepVars, gcVars, Others, SessTypeOK
<1> QED
  BY Zenon, <1>1, <1>2, <1>3, <1>4, <1>5, <1>6, <1>7 DEF Act, Step

(* ... locks are taken free and given up by their holder only, *)
LEMMA LocksStep ==
  ASSUME SessTypeOK, JobInv, HoldInv, NEW p \in Processes, Act(p)
  PROVE  Locks(p)
<1> USE DEF Go, files, locks, clock, prepVars, gcVars, Locks, SessTypeOK, JobInv, JobOK, HoldInv,
     Holds, Session, Removing
<1>1. ASSUME generate(p) \/ lock_directory(p) \/ create_dir(p)
     \/ find_source_directory(p) PROVE Locks(p)
  BY <1>1 DEF generate, lock_directory, create_dir, find_source_directory, CanLock,
       Lock
<1>2. ASSUME copy_open(p) \/ copy_read(p) \/ copy_error(p) PROVE Locks(p)
  BY Zenon, <1>2 DEF copy_open, copy_read, copy_error, Open
<1>3. ASSUME copy_lock(p) PROVE Locks(p)
  <2>1. src[p] \in D
    BY <1>3 DEF copy_lock
  <2>2. CASE excl[src[p]] = None
    <3>1. /\ excl' = excl
          /\ \A d \in D : shared'[d] = IF d = src[p] THEN shared[d] \union {p} ELSE shared[d]
      BY <1>3, <2>1, <2>2 DEF copy_lock
    <3> HIDE DEF SessTypeOK, JobInv, JobOK, HoldInv, Holds
    <3> QED
      BY Zenon, <3>1, <2>2
  <2>3. CASE excl[src[p]] # None
    BY Zenon, <1>3, <2>3 DEF copy_lock
  <2> QED
    BY Zenon, <2>2, <2>3
<1>4. ASSUME copy_files(p) PROVE Locks(p)
  BY <1>4 DEF copy_files, Unlock
<1>5. ASSUME copy_failed(p) PROVE Locks(p)
  BY <1>5 DEF copy_failed, Unlock, Remove
<1>6. ASSUME finalize(p) \/ finalize_incr_comp_session(p) \/ finalize_errors(p)
     PROVE Locks(p)
  BY <1>6 DEF finalize, finalize_incr_comp_session, finalize_errors, Unlock, Remove
<1>7. ASSUME remove_files(p) \/ remove_dir(p) PROVE Locks(p)
  BY Zenon, <1>7 DEF remove_files, remove_dir
<1>8. ASSUME delete_session_dir_lock_file(p) PROVE Locks(p)
  BY <1>8 DEF delete_session_dir_lock_file, Unlock
<1>9. ASSUME gc_list(p) \/ gc_orphan(p) \/ gc_open(p) PROVE Locks(p)
  BY Zenon, <1>9 DEF gc_list, gc_orphan, gc_open, is_old_enough_to_be_collected,
       Remove, Open
<1>10. ASSUME gc_lock(p) PROVE Locks(p)
  BY <1>10 DEF gc_lock, CanLock, Lock
<1>11. ASSUME gc_spare(p) PROVE Locks(p)
  <2>1. CASE candidates[p] = {}
    BY Zenon, <1>11, <2>1 DEF gc_spare
  <2>2. CASE candidates[p] # {}
    <3>1. PICK m \in D : Unlock(p, m)
      BY Zenon, <1>11, <2>2, NewestCandidate DEF gc_spare
    <3> HIDE DEF SessTypeOK, JobInv, JobOK, HoldInv, Holds
    <3>2. /\ \A d \in D : excl'[d] = IF d = m /\ excl[d] = p THEN None ELSE excl[d]
          /\ \A d \in D : shared'[d] = IF d = m THEN shared[d] \ {p} ELSE shared[d]
      BY <3>1, UnlockFacts
    <3> QED
      BY Zenon, <3>2
  <2> QED
    BY Zenon, <2>1, <2>2
<1>12. ASSUME gc_delete(p) \/ gc_end(p) PROVE Locks(p)
  BY Zenon, <1>12 DEF gc_delete, gc_end, Remove
<1>13. ASSUME exit(p) PROVE Locks(p)
  BY Zenon, <1>13 DEF exit
<1> HIDE DEF Go, files, locks, clock, prepVars, gcVars, Locks, SessTypeOK, JobInv, JobOK, HoldInv,
     Holds, Session, Removing
<1> QED
  BY Zenon, <1>1, <1>2, <1>3, <1>4, <1>5, <1>6, <1>7, <1>8, <1>9, <1>10, <1>11, <1>12,
       <1>13 DEF Act, Step

(* ... a lock taken to remove a directory is kept for that, *)
LEMMA KeepsStep ==
  ASSUME SessTypeOK, JobInv, HoldInv, NEW p \in Processes, Act(p)
  PROVE  Keeps(p)
<1> USE DEF Go, files, locks, clock, prepVars, gcVars, Keeps, SessTypeOK, JobInv, JobOK, HoldInv,
     Holds, Session, Removing, Deleting
<1>1. ASSUME generate(p) \/ lock_directory(p) \/ create_dir(p)
     \/ find_source_directory(p) PROVE Keeps(p)
  BY Zenon, <1>1 DEF generate, lock_directory, create_dir, find_source_directory, CanLock,
       Lock
<1>2. ASSUME copy_open(p) \/ copy_lock(p) \/ copy_read(p) \/ copy_files(p)
     \/ copy_error(p) \/ copy_failed(p) PROVE Keeps(p)
  BY Zenon, <1>2 DEF copy_open, copy_lock, copy_read, copy_files, copy_error, copy_failed,
       Open, Unlock, Remove
<1>3. ASSUME finalize(p) \/ finalize_incr_comp_session(p) \/ finalize_errors(p)
     PROVE Keeps(p)
  BY Zenon, <1>3 DEF finalize, finalize_incr_comp_session, finalize_errors, Unlock, Remove
<1>4. ASSUME remove_files(p) PROVE Keeps(p)
  BY <1>4 DEF remove_files
<1>5. ASSUME remove_dir(p) PROVE Keeps(p)
  BY <1>5 DEF remove_dir
<1>6. ASSUME delete_session_dir_lock_file(p) PROVE Keeps(p)
  <2>1. job[p][1] \in D /\ Unlock(p, job[p][1]) /\ pc[p] \in {"unlink", "unlock_only"}
    BY Zenon, <1>6, Works DEF delete_session_dir_lock_file
  <2>3. candidates' = candidates
    BY Zenon, <1>6 DEF delete_session_dir_lock_file
  <2> HIDE DEF SessTypeOK, JobInv, JobOK, HoldInv, Holds
  <2>2. excl'[job[p][1]] # p
    BY <2>1, UnlockFacts, Works
  <2> QED
    BY Zenon, <2>1, <2>2, <2>3
<1>7. ASSUME gc_list(p) \/ gc_orphan(p) \/ gc_open(p) PROVE Keeps(p)
  BY Zenon, <1>7 DEF gc_list, gc_orphan, gc_open, is_old_enough_to_be_collected,
       Remove, Open
<1>8. ASSUME gc_lock(p) PROVE Keeps(p)
  BY <1>8 DEF gc_lock, CanLock, Lock
<1>9. ASSUME gc_spare(p) PROVE Keeps(p)
  <2>1. CASE candidates[p] = {}
    BY Zenon, <1>9, <2>1 DEF gc_spare
  <2>2. CASE candidates[p] # {}
    <3>0. /\ Unlock(p, Max(candidates[p])) /\ Max(candidates[p]) \in D
          /\ candidates'[p] = candidates[p] \ {Max(candidates[p])}
      BY <1>9, <2>2, NewestCandidate DEF gc_spare
    <3>1. PICK m \in D : Unlock(p, m) /\ candidates'[p] = candidates[p] \ {m}
      BY Zenon, <3>0
    <3>3. pc[p] = "collect"
      BY Zenon, <1>9 DEF gc_spare
    <3> HIDE DEF SessTypeOK, JobInv, JobOK, HoldInv, Holds
    <3>2. excl'[m] # p
      BY <3>1, UnlockFacts, Works
    <3> QED
      BY Zenon, <3>1, <3>2, <3>3
  <2> QED
    BY Zenon, <2>1, <2>2
<1>10. ASSUME gc_delete(p) \/ gc_end(p) PROVE Keeps(p)
  BY <1>10 DEF gc_delete, gc_end, Remove
<1>11. ASSUME exit(p) PROVE Keeps(p)
  BY <1>11, SessionAssumption DEF exit
<1> HIDE DEF Go, files, locks, clock, prepVars, gcVars, Keeps, SessTypeOK, JobInv, JobOK, HoldInv,
     Holds, Session, Removing, Deleting
<1> QED
  BY Zenon, <1>1, <1>2, <1>3, <1>4, <1>5, <1>6, <1>7, <1>8, <1>9, <1>10, <1>11 DEF Act, Step

(* ... files change where an action says so, *)
LEMMA FilesStep ==
  ASSUME SessTypeOK, JobInv, HoldInv, NEW p \in Processes, Act(p)
  PROVE  Files(p)
<1> USE DEF Go, files, locks, clock, prepVars, gcVars, Files, SessTypeOK, HoldInv, Holds,
     Session
<1>1. ASSUME generate(p) \/ lock_directory(p) \/ create_dir(p)
     \/ find_source_directory(p) PROVE Files(p)
  BY <1>1 DEF generate, lock_directory, create_dir, find_source_directory, CanLock,
       Lock
<1>2. ASSUME copy_open(p) \/ copy_lock(p) \/ copy_read(p) \/ copy_files(p)
     \/ copy_error(p) \/ copy_failed(p) PROVE Files(p)
  BY <1>2 DEF copy_open, copy_lock, copy_read, copy_files, copy_error, copy_failed,
       Open, Unlock, Remove
<1>3. ASSUME finalize(p) PROVE Files(p)
  <2>1. pc[p] = "compile" /\ cur[p] \in D
    BY Zenon, <1>3, Works DEF finalize, Session
  <2>2. CASE dir[cur[p]] = "working"
    <3>1. newest' = Max({newest, cur[p]})
      BY Zenon, <1>3, <2>2 DEF finalize
    <3>2. /\ newest' \in {newest, cur[p]} /\ newest \in Nat /\ cur[p] \in Nat
          /\ newest <= newest' /\ cur[p] <= newest'
      BY Zenon, <2>1, <3>1, NewestFinalized
    <3>3. dir'[cur[p]] = "final" /\ \A d \in D : d # cur[p] => dir'[d] = dir[d]
      BY <1>3, <2>1, <2>2 DEF finalize
    <3>4. UNCHANGED <<damaged, lockfile, next, cur>> /\ pc'[p] = "unlock"
      BY <1>3 DEF finalize
    <3> QED
      BY <2>1, <2>2, <3>2, <3>3, <3>4
  <2>3. CASE dir[cur[p]] # "working"
    BY Zenon, <1>3, <2>3 DEF finalize
  <2> QED
    BY Zenon, <2>2, <2>3
<1>4. ASSUME finalize_incr_comp_session(p) \/ finalize_errors(p) PROVE Files(p)
  BY <1>4 DEF finalize_incr_comp_session, finalize_errors, Unlock, Remove
<1>5. ASSUME remove_files(p) \/ remove_dir(p) \/ delete_session_dir_lock_file(p)
     PROVE Files(p)
  BY <1>5 DEF remove_files, remove_dir, delete_session_dir_lock_file, Unlock
<1>6. ASSUME gc_list(p) \/ gc_orphan(p) \/ gc_open(p) PROVE Files(p)
  BY <1>6 DEF gc_list, gc_orphan, gc_open, is_old_enough_to_be_collected,
       Remove, Open
<1>7. ASSUME gc_lock(p) PROVE Files(p)
  BY Zenon, <1>7 DEF gc_lock, CanLock, Lock
<1>8. ASSUME gc_spare(p) PROVE Files(p)
  BY Zenon, <1>8 DEF gc_spare, Unlock
<1>9. ASSUME gc_delete(p) \/ gc_end(p) PROVE Files(p)
  BY <1>9 DEF gc_delete, gc_end, Remove
<1>10. ASSUME exit(p) PROVE Files(p)
  BY Zenon, <1>10 DEF exit
<1> HIDE DEF Go, files, locks, clock, prepVars, gcVars, Files, SessTypeOK, HoldInv, Holds,
     Session
<1> QED
  BY Zenon, <1>1, <1>2, <1>3, <1>4, <1>5, <1>6, <1>7, <1>8, <1>9, <1>10 DEF Act, Step

(* ... session numbers are handed out in order, *)
LEMMA TimesStep ==
  ASSUME SessTypeOK, JobInv, HoldInv, NEW p \in Processes, Act(p)
  PROVE  Times(p)
<1> USE DEF Go, files, locks, clock, prepVars, gcVars, Times, SessTypeOK, Session, Removing,
     D
<1>1. ASSUME generate(p) PROVE Times(p)
  BY <1>1, SessionAssumption DEF generate
<1>2. ASSUME lock_directory(p) \/ create_dir(p) \/ find_source_directory(p)
     PROVE Times(p)
  BY Zenon, <1>2 DEF lock_directory, create_dir, find_source_directory, CanLock, Lock
<1>3. ASSUME copy_open(p) \/ copy_lock(p) \/ copy_read(p) PROVE Times(p)
  BY Zenon, <1>3 DEF copy_open, copy_lock, copy_read, Open
<1>4. ASSUME copy_files(p) \/ copy_error(p) PROVE Times(p)
  BY Zenon, <1>4 DEF copy_files, copy_error, Unlock
<1>5. ASSUME copy_failed(p) PROVE Times(p)
  BY Zenon, <1>5 DEF copy_failed, Unlock, Remove
<1>6. ASSUME finalize(p) PROVE Times(p)
  <2>1. pc[p] = "compile" /\ cur[p] \in D
    BY Zenon, <1>6, Works DEF finalize, Session
  <2>2. CASE dir[cur[p]] = "working"
    <3>1. newest' = Max({newest, cur[p]})
      BY Zenon, <1>6, <2>2 DEF finalize
    <3>2. /\ newest' \in {newest, cur[p]} /\ newest \in Nat /\ cur[p] \in Nat
          /\ newest <= newest' /\ cur[p] <= newest'
      BY Zenon, <2>1, <3>1, NewestFinalized
    <3>3. dir'[cur[p]] = "final" /\ \A d \in D : d # cur[p] => dir'[d] = dir[d]
      BY Zenon, <1>6, <2>1, <2>2 DEF finalize
    <3>4. UNCHANGED <<damaged, lockfile, next, aged, cur>> /\ pc'[p] = "unlock"
      BY Zenon, <1>6 DEF finalize
    <3> QED
      BY <2>1, <2>2, <3>2, <3>3, <3>4
  <2>3. CASE dir[cur[p]] # "working"
    BY Zenon, <1>6, <2>3 DEF finalize
  <2> QED
    BY Zenon, <2>2, <2>3
<1>7. ASSUME finalize_incr_comp_session(p) \/ finalize_errors(p) PROVE Times(p)
  BY Zenon, <1>7 DEF finalize_incr_comp_session, finalize_errors, Unlock, Remove
<1>8. ASSUME remove_files(p) PROVE Times(p)
  <2>1. /\ pc[p] = "remove" /\ pc'[p] \in {"rmdir", job[p][3]}
        /\ next' = next /\ aged' = aged /\ cur' = cur /\ newest' = newest
    BY Zenon, <1>8 DEF remove_files
  <2>2. job[p][3] \in {"unlink", "collect"}
    BY Zenon, <2>1, Works
  <2> HIDE DEF SessTypeOK
  <2> QED
    BY Zenon, <2>1, <2>2
<1>9. ASSUME remove_dir(p) PROVE Times(p)
  <2>1. /\ pc[p] = "rmdir" /\ pc'[p] \in {"unlock_only", job[p][3]}
        /\ next' = next /\ aged' = aged /\ cur' = cur /\ newest' = newest
    BY Zenon, <1>9 DEF remove_dir
  <2>2. job[p][3] \in {"unlink", "collect"}
    BY Zenon, <2>1, Works
  <2> HIDE DEF SessTypeOK
  <2> QED
    BY Zenon, <2>1, <2>2
<1>10. ASSUME delete_session_dir_lock_file(p) PROVE Times(p)
  <2>1. job[p][4] # "lock"
    BY Zenon, <1>10, Works DEF delete_session_dir_lock_file
  <2> QED
    BY Zenon, <1>10, <2>1 DEF delete_session_dir_lock_file
<1>11. ASSUME gc_list(p) PROVE Times(p)
  BY Zenon, <1>11 DEF gc_list
<1>12. ASSUME gc_orphan(p) PROVE Times(p)
  BY Zenon, <1>12 DEF gc_orphan, Remove
<1>13. ASSUME gc_open(p) PROVE Times(p)
  <2>1. PICK x \in pairs[p] :
          \/ aged' = aged
          \/ x[2] # "final" /\ is_old_enough_to_be_collected(x[1])
    BY Zenon, <1>13 DEF gc_open
  <2>2. x = <<x[1], x[2]>> /\ x[1] \in D /\ x[2] \in Paths
    BY Zenon, PairParts
  <2>3. /\ pc[p] = "collect" /\ pc'[p] \in {"flock", "collect"}
        /\ next' = next /\ cur' = cur /\ newest' = newest
    BY Zenon, <1>13 DEF gc_open, Open
  <2>4. CASE aged' # aged
    <3>1. x[2] = "working" /\ aged' = x[1]
      BY Zenon, <2>1, <2>2, <2>4 DEF is_old_enough_to_be_collected, Paths
    <3>2. slow \/ \A d \in (aged + 1)..aged' : ~ Pending(d)
      BY Zenon, <2>1, <2>4, <3>1 DEF is_old_enough_to_be_collected
    <3>3. \A d \in D : d > aged /\ d <= aged' => d \in (aged + 1)..aged'
      BY <2>2, <3>1
    <3>4. <<aged', "working">> \in pairs[p] /\ aged' \in D
      BY Zenon, <2>2, <3>1
    <3> QED
      BY Zenon, <2>3, <3>2, <3>3, <3>4
  <2> QED
    BY Zenon, <2>3, <2>4
<1>14. ASSUME gc_lock(p) PROVE Times(p)
  BY Zenon, <1>14 DEF gc_lock, CanLock, Lock
<1>15. ASSUME gc_spare(p) PROVE Times(p)
  BY Zenon, <1>15 DEF gc_spare, Unlock
<1>16. ASSUME gc_delete(p) \/ gc_end(p) PROVE Times(p)
  BY Zenon, <1>16 DEF gc_delete, gc_end, Remove
<1>17. ASSUME exit(p) PROVE Times(p)
  BY Zenon, <1>17 DEF exit
<1> HIDE DEF Go, files, locks, clock, prepVars, gcVars, Times, SessTypeOK, Session,
     Removing, D
<1> QED
  BY Zenon, <1>1, <1>2, <1>3, <1>4, <1>5, <1>6, <1>7, <1>8, <1>9, <1>10, <1>11, <1>12,
       <1>13, <1>14, <1>15, <1>16, <1>17 DEF Act, Step

(* ... what is listed was there, *)
LEMMA ListsStep ==
  ASSUME SessTypeOK, JobInv, HoldInv, NEW p \in Processes, Act(p)
  PROVE  Lists(p)
<1> USE DEF Go, files, locks, clock, prepVars, gcVars, Lists, SessTypeOK, Removing
<1>1. ASSUME generate(p) \/ lock_directory(p) \/ create_dir(p)
     \/ find_source_directory(p) PROVE Lists(p)
  BY Zenon, <1>1 DEF generate, lock_directory, create_dir, find_source_directory, CanLock,
       Lock
<1>2. ASSUME copy_open(p) \/ copy_lock(p) \/ copy_read(p) \/ copy_files(p)
     \/ copy_error(p) \/ copy_failed(p) PROVE Lists(p)
  BY Zenon, <1>2 DEF copy_open, copy_lock, copy_read, copy_files, copy_error, copy_failed,
       Open, Unlock, Remove
<1>3. ASSUME finalize(p) \/ finalize_incr_comp_session(p) \/ finalize_errors(p)
     PROVE Lists(p)
  BY Zenon, <1>3 DEF finalize, finalize_incr_comp_session, finalize_errors, Unlock, Remove
<1>4. ASSUME remove_files(p) \/ remove_dir(p) \/ delete_session_dir_lock_file(p)
     PROVE Lists(p)
  BY Zenon, <1>4 DEF remove_files, remove_dir, delete_session_dir_lock_file, Unlock
<1>5. ASSUME gc_list(p) PROVE Lists(p)
  <2>1. pc[p] = "list" /\ pc'[p] = "collect" /\ candidates' = candidates
    BY Zenon, <1>5 DEF gc_list
  <2>2. \A x \in orphans'[p] : x[1] \notin lockfile /\ dir[x[1]] = x[2]
    BY <1>5 DEF gc_list
  <2>3. \A x \in pairs'[p] : dir[x[1]] = x[2]
    BY <1>5 DEF gc_list
  <2> QED
    BY Zenon, <2>1, <2>2, <2>3
<1>6. ASSUME gc_orphan(p) \/ gc_open(p) PROVE Lists(p)
  BY <1>6 DEF gc_orphan, gc_open, is_old_enough_to_be_collected, Remove, Open
<1>7. ASSUME gc_lock(p) PROVE Lists(p)
  BY <1>7, Works DEF gc_lock, CanLock, Lock
<1>8. ASSUME gc_spare(p) PROVE Lists(p)
  BY <1>8 DEF gc_spare, Unlock
<1>9. ASSUME gc_delete(p) \/ gc_end(p) PROVE Lists(p)
  BY <1>9 DEF gc_delete, gc_end, Remove
<1>10. ASSUME exit(p) PROVE Lists(p)
  BY Zenon, <1>10 DEF exit
<1> HIDE DEF Go, files, locks, clock, prepVars, gcVars, Lists, SessTypeOK, Removing
<1> QED
  BY Zenon, <1>1, <1>2, <1>3, <1>4, <1>5, <1>6, <1>7, <1>8, <1>9, <1>10 DEF Act, Step

(* ... jobs come from the session or from the lists, *)
LEMMA TasksStep ==
  ASSUME SessTypeOK, JobInv, HoldInv, NEW p \in Processes, Act(p)
  PROVE  Tasks(p)
<1> USE DEF Go, files, locks, clock, prepVars, gcVars, Tasks, Busy, NoJob, SessTypeOK,
     Removing
<1>1. ASSUME generate(p) \/ lock_directory(p) PROVE Tasks(p)
  BY Zenon, <1>1 DEF generate, lock_directory, CanLock, Lock
<1>2. ASSUME create_dir(p) \/ find_source_directory(p) PROVE Tasks(p)
  BY <1>2 DEF create_dir, find_source_directory
<1>3. ASSUME copy_open(p) \/ copy_lock(p) \/ copy_read(p) PROVE Tasks(p)
  BY <1>3 DEF copy_open, copy_lock, copy_read, Open
<1>4. ASSUME copy_files(p) \/ copy_error(p) PROVE Tasks(p)
  BY Zenon, <1>4 DEF copy_files, copy_error, Unlock
<1>5. ASSUME copy_failed(p) PROVE Tasks(p)
  <2>1. /\ pc[p] = "failed" /\ pc'[p] = "remove"
        /\ job'[p] = <<cur[p], "working", "unlink", "retry">>
    BY Zenon, <1>5 DEF copy_failed, Remove
  <2> HIDE DEF SessTypeOK, NoJob
  <2>2. IsJob(job'[p], cur[p], "working", "unlink", "retry")
    BY <2>1 DEF IsJob
  <2> QED
    BY Zenon, <2>1, <2>2
<1>6. ASSUME finalize(p) PROVE Tasks(p)
  BY Zenon, <1>6 DEF finalize
<1>7. ASSUME finalize_incr_comp_session(p) PROVE Tasks(p)
  BY Zenon, <1>7 DEF finalize_incr_comp_session, Unlock
<1>18. ASSUME finalize_errors(p) PROVE Tasks(p)
  <2>1. /\ pc[p] = "compile" /\ pc'[p] = "remove"
        /\ job'[p] = <<cur[p], "working", "unlink", "list">>
    BY Zenon, <1>18 DEF finalize_errors, Remove
  <2> HIDE DEF SessTypeOK, NoJob
  <2>2. IsJob(job'[p], cur[p], "working", "unlink", "list")
    BY <2>1 DEF IsJob
  <2> QED
    BY Zenon, <2>1, <2>2
<1>8. ASSUME remove_files(p) PROVE Tasks(p)
  BY Zenon, <1>8 DEF remove_files
<1>9. ASSUME remove_dir(p) PROVE Tasks(p)
  BY Zenon, <1>9 DEF remove_dir
<1>10. ASSUME delete_session_dir_lock_file(p) PROVE Tasks(p)
  <2>1. job'[p] = NoJob /\ pc'[p] = job[p][4] /\ pc[p] \in Removing
    BY Zenon, <1>10 DEF delete_session_dir_lock_file
  <2>2. pc'[p] \notin Busy
    BY Zenon, <2>1, Works
  <2> HIDE DEF SessTypeOK, NoJob
  <2> QED
    BY Zenon, <2>1, <2>2
<1>11. ASSUME gc_list(p) PROVE Tasks(p)
  BY Zenon, <1>11 DEF gc_list
<1>12. ASSUME gc_orphan(p) PROVE Tasks(p)
  <2>1. PICK x \in orphans[p] : /\ pc[p] = "collect" /\ pc'[p] = "remove"
                                /\ job'[p] = <<x[1], x[2], "collect", "collect">>
    BY Zenon, <1>12 DEF gc_orphan, Remove
  <2>2. x = <<x[1], x[2]>> /\ x[1] \in D /\ x[2] \in Paths
    BY Zenon, PairParts
  <2> HIDE DEF SessTypeOK, NoJob
  <2>3. job'[p] = <<x[1], x[2], "collect", "collect">> =>
          IsJob(job'[p], x[1], x[2], "collect", "collect")
    BY DEF IsJob
  <2>4. <<x[1], x[2]>> \in orphans[p]
    BY Zenon, <2>2
  <2> QED
    BY Zenon, <2>1, <2>2, <2>3, <2>4
<1>13. ASSUME gc_open(p) PROVE Tasks(p)
  <2>1. PICK x \in pairs[p] :
           /\ pc[p] = "collect"
           /\ \/ pc'[p] \notin Busy /\ job'[p] \in {job[p], NoJob}
              \/ /\ pc'[p] = "flock" /\ job'[p] = <<x[1], x[2], "unlink", "collect">>
                 /\ x[2] # "final" => is_old_enough_to_be_collected(x[1])
    BY Zenon, <1>13 DEF gc_open, Open
  <2>2. x = <<x[1], x[2]>> /\ x[1] \in D /\ x[2] \in Paths
    BY Zenon, PairParts
  <2>5. is_old_enough_to_be_collected(x[1]) => x[1] <= aged'
    <3>1. x[1] \in Nat /\ (is_old_enough_to_be_collected(x[1]) => x[1] <= aged' \/ aged' = x[1])
      BY Zenon, <2>2, SessionNumbers DEF is_old_enough_to_be_collected
    <3> HIDE DEF SessTypeOK
    <3> QED
      BY <3>1
  <2> HIDE DEF SessTypeOK, NoJob
  <2>3. job'[p] = <<x[1], x[2], "unlink", "collect">> =>
          IsJob(job'[p], x[1], x[2], "unlink", "collect")
    BY DEF IsJob
  <2>4. <<x[1], x[2]>> \in pairs[p]
    BY Zenon, <2>2
  <2> QED
    BY Zenon, <2>1, <2>2, <2>3, <2>4, <2>5
<1>14. ASSUME gc_lock(p) PROVE Tasks(p)
  BY Zenon, <1>14 DEF gc_lock, CanLock, Lock
<1>15. ASSUME gc_spare(p) PROVE Tasks(p)
  BY Zenon, <1>15 DEF gc_spare, Unlock
<1>16. ASSUME gc_delete(p) PROVE Tasks(p)
  <2>1. PICK d \in candidates[p] : /\ pc[p] = "delete" /\ pc'[p] = "remove"
                                   /\ job'[p] = <<d, "final", "unlink", "delete">>
                                   /\ candidates'[p] = candidates[p] \ {d}
    BY Zenon, <1>16 DEF gc_delete, Remove
  <2> HIDE DEF SessTypeOK, NoJob
  <2>2. IsJob(job'[p], d, "final", "unlink", "delete")
    BY <2>1 DEF IsJob
  <2> QED
    BY Zenon, <2>1, <2>2
<1>19. ASSUME gc_end(p) PROVE Tasks(p)
  BY Zenon, <1>19 DEF gc_end
<1>17. ASSUME exit(p) PROVE Tasks(p)
  BY Zenon, <1>17 DEF exit
<1> HIDE DEF Go, files, locks, clock, prepVars, gcVars, Tasks, Busy, NoJob, SessTypeOK,
     Removing
<1> QED
  BY Zenon, <1>1, <1>2, <1>3, <1>4, <1>5, <1>6, <1>7, <1>8, <1>9, <1>10, <1>11, <1>12,
       <1>13, <1>14, <1>15, <1>16, <1>17, <1>18, <1>19 DEF Act, Step

(* ... and control goes where the code goes. *)
LEMMA FlowStep ==
  ASSUME SessTypeOK, JobInv, HoldInv, NEW p \in Processes, Act(p)
  PROVE  Flow(p)
<1> USE DEF Go, files, locks, clock, prepVars, gcVars, Flow, SessTypeOK, Session, Removing
<1>1. ASSUME generate(p) PROVE Flow(p)
  BY Zenon, <1>1, SessionAssumption DEF generate
<1>2. ASSUME lock_directory(p) PROVE Flow(p)
  BY Zenon, <1>2 DEF lock_directory, CanLock, Lock
<1>3. ASSUME create_dir(p) PROVE Flow(p)
  BY Zenon, <1>3, Works DEF create_dir
<1>4. ASSUME find_source_directory(p) PROVE Flow(p)
  BY Zenon, <1>4 DEF find_source_directory
<1>5. ASSUME copy_open(p) \/ copy_lock(p) \/ copy_read(p) PROVE Flow(p)
  BY <1>5 DEF copy_open, copy_lock, copy_read, Open
<1>6. ASSUME copy_files(p) \/ copy_error(p) PROVE Flow(p)
  BY Zenon, <1>6 DEF copy_files, copy_error, Unlock
<1>7. ASSUME copy_failed(p) PROVE Flow(p)
  BY Zenon, <1>7 DEF copy_failed, Unlock, Remove
<1>8. ASSUME finalize(p) PROVE Flow(p)
  BY Zenon, <1>8 DEF finalize
<1>9. ASSUME finalize_incr_comp_session(p) \/ finalize_errors(p) PROVE Flow(p)
  BY <1>9, Works DEF finalize_incr_comp_session, finalize_errors, Unlock, Remove
<1>10. ASSUME remove_files(p) PROVE Flow(p)
  <2>1. pc[p] = "remove" /\ job[p][3] \in {"unlink", "collect"}
    BY Zenon, <1>10, Works DEF remove_files
  <2>2. pc'[p] = IF dir[job[p][1]] = job[p][2] THEN "rmdir" ELSE job[p][3]
    BY Zenon, <1>10 DEF remove_files
  <2> HIDE DEF SessTypeOK
  <2> QED
    BY Zenon, <2>1, <2>2
<1>11. ASSUME remove_dir(p) PROVE Flow(p)
  BY Zenon, <1>11, Works DEF remove_dir
<1>12. ASSUME delete_session_dir_lock_file(p) PROVE Flow(p)
  BY Zenon, <1>12, Works DEF delete_session_dir_lock_file, Unlock
<1>13. ASSUME gc_list(p) PROVE Flow(p)
  BY Zenon, <1>13 DEF gc_list
<1>14. ASSUME gc_orphan(p) PROVE Flow(p)
  BY Zenon, <1>14 DEF gc_orphan, Remove
<1>15. ASSUME gc_open(p) PROVE Flow(p)
  BY Zenon, <1>15 DEF gc_open, is_old_enough_to_be_collected, Open
<1>16. ASSUME gc_lock(p) PROVE Flow(p)
  <2>1. pc[p] = "flock" /\ job[p][2] \in Paths
    BY Zenon, <1>16, Works DEF gc_lock
  <2>2. pc'[p] \in {"collect", "remove"} /\ (pc'[p] = "remove" => job[p][2] # "final")
    BY Zenon, <1>16 DEF gc_lock
  <2> HIDE DEF SessTypeOK
  <2> QED
    BY Zenon, <2>1, <2>2 DEF Paths
<1>17. ASSUME gc_spare(p) PROVE Flow(p)
  <2>1. CASE candidates[p] = {}
    BY Zenon, <1>17, <2>1 DEF gc_spare
  <2>2. CASE candidates[p] # {}
    <3>1. /\ candidates'[p] = candidates[p] \ {Max(candidates[p])}
          /\ pc[p] = "collect" /\ pc'[p] = "delete"
      BY Zenon, <1>17, <2>2 DEF gc_spare
    <3>2. PICK m \in D : /\ m \in candidates[p] /\ candidates'[p] = candidates[p] \ {m}
                         /\ \A d \in candidates[p] : d <= m
      BY Zenon, <3>1, <2>2, NewestCandidate
    <3>3. \A d \in candidates'[p] : d \in D /\ d # m /\ d <= m
      BY Zenon, <3>2
    <3>4. \A d \in candidates'[p] : d < m
      BY <3>3 DEF D
    <3> QED
      BY Zenon, <3>1, <3>2, <3>4
  <2> QED
    BY Zenon, <2>1, <2>2
<1>18. ASSUME gc_delete(p) PROVE Flow(p)
  BY Zenon, <1>18 DEF gc_delete, Remove
<1>19. ASSUME gc_end(p) PROVE Flow(p)
  BY Zenon, <1>19 DEF gc_end
<1>20. ASSUME exit(p) PROVE Flow(p)
  BY <1>20, Works DEF exit, HoldInv, Holds
<1> HIDE DEF Go, files, locks, clock, prepVars, gcVars, Flow, SessTypeOK, Session, Removing
<1> QED
  BY Zenon, <1>1, <1>2, <1>3, <1>4, <1>5, <1>6, <1>7, <1>8, <1>9, <1>10, <1>11, <1>12,
       <1>13, <1>14, <1>15, <1>16, <1>17, <1>18, <1>19, <1>20 DEF Act, Step

-------------------------------------------------------------------------------
(* The types are kept. *)
LEMMA TypeStep ==
  ASSUME SessTypeOK, JobInv, HoldInv, slow' = slow, NEW p \in Processes, Act(p)
  PROVE  SessTypeOK'
<1> USE DEF Go, files, locks, clock, prepVars, gcVars, NoJob, SessTypeOK, Control, Session,
     Removing, Paths
<1>1. ASSUME generate(p) PROVE SessTypeOK'
  <2>1. next \in D /\ next' \in Nat \ {0}
    BY <1>1, SessionAssumption DEF generate, D
  <2> QED
    BY Zenon, <1>1, <2>1 DEF generate
<1>2. ASSUME lock_directory(p) PROVE SessTypeOK'
  <2>0. cur[p] \in D
    BY <1>2 DEF lock_directory, HoldInv, Holds
  <2>1. pc' \in [Processes -> Control] /\ shared' = shared
    <3>1. /\ pc' = [pc EXCEPT ![p] = "create"] \/ pc' = [pc EXCEPT ![p] = "ended"]
          /\ shared' = shared
      BY Zenon, <1>2 DEF lock_directory, Lock
    <3>2. pc \in [Processes -> Control]
      BY Zenon
    <3> HIDE DEF SessTypeOK
    <3> QED
      BY Zenon, <3>1, <3>2
  <2>2. excl' \in [D -> Processes \union {None}]
    BY Zenon, <1>2, <2>0, LockFacts DEF lock_directory
  <2> QED
    BY Zenon, <1>2, <2>1, <2>2 DEF lock_directory
<1>3. ASSUME create_dir(p) PROVE SessTypeOK'
  BY Zenon, <1>3 DEF create_dir
<1>4. ASSUME find_source_directory(p) PROVE SessTypeOK'
  <2> DEFINE sources == {d \in D : dir[d] = "final" /\ d \notin tried[p]}
  <2>1. sources \in SUBSET (0..Dirs) /\ sources \subseteq D
    BY DEF D
  <2>2. sources # {} => Max(sources) \in D
    BY Zenon, <2>1, MaxFacts
  <2>3. /\ src' = [src EXCEPT ![p] = IF sources = {} THEN 0 ELSE Max(sources)]
        /\ pc' = [pc EXCEPT ![p] = IF sources = {} THEN "list" ELSE "open"]
        /\ UNCHANGED <<files, locks, clock, cur, tried, gcVars, job, newest>>
    BY Zenon, <1>4 DEF find_source_directory
  <2> HIDE DEF sources
  <2> QED
    BY Zenon, <2>2, <2>3
<1>5. ASSUME copy_open(p) PROVE SessTypeOK'
  BY Zenon, <1>5 DEF copy_open, Open
<1>6. ASSUME copy_lock(p) PROVE SessTypeOK'
  <2>1. pc' \in [Processes -> Control]
    <3>1. \E q \in {"read", "failed"} : pc' = [pc EXCEPT ![p] = q]
      BY Zenon, <1>6 DEF copy_lock
    <3> QED
      BY Zenon, <3>1
  <2>2. shared' \in [D -> SUBSET Processes]
    <3>1. shared[src[p]] \union {p} \subseteq Processes \/ src[p] \notin D
      OBVIOUS
    <3> QED
      BY <1>6, <3>1 DEF copy_lock
  <2> QED
    BY Zenon, <1>6, <2>1, <2>2 DEF copy_lock
<1>7. ASSUME copy_read(p) PROVE SessTypeOK'
  BY Zenon, <1>7 DEF copy_read
<1>8. ASSUME copy_files(p) PROVE SessTypeOK'
  BY Zenon, <1>8 DEF copy_files, Unlock
<1>9. ASSUME copy_error(p) PROVE SessTypeOK'
  BY Zenon, <1>9 DEF copy_error
<1>10. ASSUME copy_failed(p) PROVE SessTypeOK'
  <2>1. src[p] \in D /\ cur[p] \in D
    BY <1>10, Works DEF copy_failed, HoldInv, Holds
  <2>2. excl' \in [D -> Processes \union {None}] /\ shared' \in [D -> SUBSET Processes]
    BY Zenon, <1>10, <2>1, UnlockFacts DEF copy_failed
  <2>3. /\ tried' \in [Processes -> SUBSET D] /\ src' \in [Processes -> D \union {0}]
        /\ pc' \in [Processes -> Control]
    BY Zenon, <1>10, <2>1 DEF copy_failed, Remove
  <2>4. job' \in [Processes -> (D \union {0}) \X (Paths \union {None})
                             \X {"unlink", "collect", None}
                             \X {"retry", "list", "collect", "delete", None}]
    BY Zenon, <1>10, <2>1 DEF copy_failed, Remove
  <2> QED
    BY Zenon, <1>10, <2>2, <2>3, <2>4 DEF copy_failed
<1>11. ASSUME finalize(p) PROVE SessTypeOK'
  <2>1. cur[p] \in D /\ pc' \in [Processes -> Control]
    BY Zenon, <1>11, Works DEF finalize
  <2>2. Max({newest, cur[p]}) \in {newest, cur[p]}
    BY Zenon, <2>1, NewestFinalized
  <2>3. newest' \in D \union {0} /\ dir' \in [D -> Paths \union {"none"}]
    BY <1>11, <2>1, <2>2 DEF finalize, Paths
  <2> QED
    BY Zenon, <1>11, <2>1, <2>3 DEF finalize
<1>12. ASSUME finalize_incr_comp_session(p) PROVE SessTypeOK'
  BY Zenon, <1>12 DEF finalize_incr_comp_session, Unlock
<1>13. ASSUME finalize_errors(p) PROVE SessTypeOK'
  BY Zenon, <1>13 DEF finalize_errors, Remove
<1>14. ASSUME remove_files(p) PROVE SessTypeOK'
  BY <1>14, Works DEF remove_files
<1>15. ASSUME remove_dir(p) PROVE SessTypeOK'
  BY Zenon, <1>15, Works DEF remove_dir
<1>16. ASSUME delete_session_dir_lock_file(p) PROVE SessTypeOK'
  BY <1>16, Works DEF delete_session_dir_lock_file, Unlock
<1>17. ASSUME gc_list(p) PROVE SessTypeOK'
  BY <1>17 DEF gc_list
<1>18. ASSUME gc_orphan(p) PROVE SessTypeOK'
  BY <1>18 DEF gc_orphan, Remove
<1>19. ASSUME gc_open(p) PROVE SessTypeOK'
  <2>1. PICK x \in pairs[p] :
          /\ pairs' = [pairs EXCEPT ![p] = pairs[p] \ {x}]
          /\ job' = job \/ \E j \in {<<x[1], x[2], "unlink", "collect">>, NoJob} :
                              job' = [job EXCEPT ![p] = j]
          /\ aged' \in {aged, x[1]}
    BY Zenon, <1>19 DEF gc_open, is_old_enough_to_be_collected
  <2>2. x \in D \X Paths /\ x[1] \in D /\ x[2] \in Paths
    BY Zenon, PairParts
  <2>3. /\ \E q \in {"flock", "collect"} : pc' = [pc EXCEPT ![p] = q]
        /\ UNCHANGED <<files, locks, next, cur, prepVars, orphans, candidates, newest>>
    BY Zenon, <1>19 DEF gc_open, Open
  <2>4. pc' \in [Processes -> Control]
    BY Zenon, <2>3
  <2>7. aged' \in D \union {0}
    BY Zenon, <2>1, <2>2
  <2>5. pairs' \in [Processes -> SUBSET (D \X Paths)]
    <3>1. pairs \in [Processes -> SUBSET (D \X Paths)] /\ pairs[p] \ {x} \in SUBSET (D \X Paths)
      BY Zenon
    <3> HIDE DEF SessTypeOK
    <3> QED
      BY Zenon, <2>1, <3>1
  <2>6. job' \in [Processes -> (D \union {0}) \X (Paths \union {None})
                             \X {"unlink", "collect", None}
                             \X {"retry", "list", "collect", "delete", None}]
    <3> DEFINE J == (D \union {0}) \X (Paths \union {None}) \X {"unlink", "collect", None}
                      \X {"retry", "list", "collect", "delete", None}
    <3>1. job \in [Processes -> J]
      BY Zenon
    <3>2. <<x[1], x[2], "unlink", "collect">> \in J
      BY Zenon, <2>2
    <3>3. NoJob \in J
      OBVIOUS
    <3> HIDE DEF J, SessTypeOK, NoJob
    <3>4. job' \in [Processes -> J]
      BY Zenon, <2>1, <3>1, <3>2, <3>3
    <3> QED
      BY Zenon, <3>4 DEF J
  <2> QED
    BY Zenon, <2>3, <2>4, <2>5, <2>6, <2>7
<1>20. ASSUME gc_lock(p) PROVE SessTypeOK'
  <2>0. job[p][1] \in D
    BY Zenon, <1>20, Works DEF gc_lock
  <2>1. pc' \in [Processes -> Control] /\ shared' = shared
    BY Zenon, <1>20 DEF gc_lock, Lock
  <2>2. excl' \in [D -> Processes \union {None}]
    BY Zenon, <1>20, <2>0, LockFacts DEF gc_lock
  <2>3. candidates' \in [Processes -> SUBSET D]
    BY <1>20, <2>0 DEF gc_lock
  <2>4. job' \in [Processes -> (D \union {0}) \X (Paths \union {None})
                             \X {"unlink", "collect", None}
                             \X {"retry", "list", "collect", "delete", None}]
    BY Zenon, <1>20 DEF gc_lock, NoJob
  <2> QED
    BY Zenon, <1>20, <2>1, <2>2, <2>3, <2>4 DEF gc_lock
<1>21. ASSUME gc_spare(p) PROVE SessTypeOK'
  <2>0. /\ pc' = [pc EXCEPT ![p] = "delete"]
        /\ \/ candidates' = candidates
           \/ candidates' = [candidates EXCEPT ![p] = candidates[p] \ {Max(candidates[p])}]
    BY Zenon, <1>21 DEF gc_spare
  <2>5. candidates \in [Processes -> SUBSET D]
    BY Zenon
  <2>6. pc' \in [Processes -> Control]
    BY Zenon, <2>0
  <2>7. candidates' \in [Processes -> SUBSET D]
    <3> HIDE DEF SessTypeOK
    <3>1. candidates[p] \ {Max(candidates[p])} \in SUBSET D
      BY Zenon, <2>5
    <3> QED
      BY Zenon, <2>0, <2>5, <3>1
  <2>1. pc' \in [Processes -> Control] /\ candidates' \in [Processes -> SUBSET D]
    BY Zenon, <2>6, <2>7
  <2>2. excl' \in [D -> Processes \union {None}] /\ shared' \in [D -> SUBSET Processes]
    BY Zenon, <1>21, NewestCandidate, UnlockFacts DEF gc_spare
  <2> QED
    BY Zenon, <1>21, <2>1, <2>2 DEF gc_spare
<1>22. ASSUME gc_delete(p) PROVE SessTypeOK'
  BY <1>22 DEF gc_delete, Remove
<1>23. ASSUME gc_end(p) PROVE SessTypeOK'
  BY Zenon, <1>23 DEF gc_end
<1>24. ASSUME exit(p) PROVE SessTypeOK'
  BY Zenon, <1>24 DEF exit
<1> HIDE DEF Go, files, locks, clock, prepVars, gcVars, NoJob, SessTypeOK, Control, Session,
     Removing, Paths
<1> QED
  BY Zenon, <1>1, <1>2, <1>3, <1>4, <1>5, <1>6, <1>7, <1>8, <1>9, <1>10, <1>11, <1>12,
       <1>13, <1>14, <1>15, <1>16, <1>17, <1>18, <1>19, <1>20, <1>21, <1>22, <1>23,
       <1>24 DEF Act, Step

(* A job stays as it is with the state it refers to. *)
LEMMA SameJob ==
  ASSUME NEW r \in Processes, JobOK(r), pc'[r] = pc[r], cur'[r] = cur[r],
         candidates'[r] = candidates[r], job'[r] = job[r]
  PROVE  JobOK(r)'
  BY Zenon DEF JobOK

(* A job that is right for the step after it. *)
LEMMA NewJob ==
  ASSUME JobInv, NEW p \in Processes, Others(p), NEW d \in D, NEW path \in Paths,
         NEW q \in {"unlink", "collect"}, NEW back \in {"retry", "list", "collect", "delete"},
         IsJob(job'[p], d, path, q, back),
         \/ pc'[p] = "flock" /\ q = "unlink" /\ back = "collect"
         \/ /\ pc'[p] = "remove"
            /\ q = "collect" => back = "collect"
            /\ back \in {"retry", "list"} =>
                 d = cur'[p] /\ path = "working" /\ candidates'[p] = {}
            /\ back = "delete" => path = "final"
            /\ back = "collect" /\ q = "unlink" => path = "working"
  PROVE  JobInv'
<1>1. /\ job'[p][1] = d /\ job'[p][2] = path /\ job'[p][3] = q /\ job'[p][4] = back
      /\ q # None /\ back # None
  BY Zenon DEF None, IsJob
<1>2. \A r \in Processes : r # p =>
        pc'[r] = pc[r] /\ cur'[r] = cur[r] /\ candidates'[r] = candidates[r] /\ job'[r] = job[r]
  BY Zenon DEF Others
<1>3. \A r \in Processes : r # p => JobOK(r)'
  BY Zenon, <1>2, SameJob DEF JobInv
<1>4. d \in D /\ path \in Paths
  OBVIOUS
<1>5. JobOK(p)'
  BY Zenon, <1>1, <1>4 DEF JobOK, Removing
<1> QED
  BY Zenon, <1>3, <1>5 DEF JobInv

(* Jobs stay in shape: a job is made for its step, and kept until it is done. *)
LEMMA JobStep ==
  ASSUME SessTypeOK, JobInv, HoldInv, NEW p \in Processes,
         Others(p), Times(p), Lists(p), Tasks(p), Flow(p)
  PROVE  JobInv'
<1>1. candidates[p] \subseteq D
  BY Zenon DEF SessTypeOK
<1>2. pc'[p] # "lock" => cur'[p] = cur[p]
  BY Zenon DEF Times
<1>3. CASE pc'[p] \notin Busy
  <2>1. ASSUME NEW r \in Processes, pc'[r] \in Busy
        PROVE  /\ pc'[r] = pc[r] /\ cur'[r] = cur[r] /\ candidates'[r] = candidates[r]
               /\ job'[r] = job[r]
    BY Zenon, <1>3, <2>1 DEF Others
  <2>2. ASSUME NEW r \in Processes PROVE JobOK(r)'
    <3>1. CASE pc'[r] \in Busy
      BY Zenon, <2>1, <3>1, SameJob DEF JobInv
    <3>2. CASE pc'[r] \notin Busy
      BY Zenon, <3>2 DEF JobOK, Busy, Removing
    <3> QED
      BY Zenon, <3>1, <3>2
  <2> QED
    BY Zenon, <2>2 DEF JobInv
<1>4. CASE pc'[p] \in Busy /\ pc[p] \in Busy /\ job'[p] = job[p]
  <2>1. cur'[p] = cur[p]
    BY Zenon, <1>2, <1>4 DEF Busy, Removing
  <2>2. CASE pc[p] = "flock"
    <3>1. /\ pc'[p] = "remove" /\ job[p][2] = "working"
          /\ job[p][3] = "unlink" /\ job[p][4] = "collect"
      BY Zenon, <1>4, <2>2 DEF Flow, JobInv, JobOK, Busy, Removing
    <3>2. job[p][1] \in D
      BY Zenon, <2>2 DEF JobInv, JobOK
    <3>3. IsJob(job'[p], job[p][1], "working", "unlink", "collect")
      BY Zenon, <1>4, <3>1 DEF IsJob
    <3> QED
      BY Zenon, <3>1, <3>2, <3>3, NewJob DEF Paths
  <2>3. CASE pc[p] \in Removing
    <3>1. candidates'[p] = candidates[p] /\ pc'[p] \in Removing
      BY Zenon, <1>4, <2>3 DEF Lists, Flow, Busy, Removing
    <3>2. /\ pc'[p] = "unlink" => job[p][3] = "unlink"
          /\ pc'[p] = "unlock_only" => job[p][4] \in {"collect", "delete"}
      BY Zenon DEF Flow
    <3>3. ASSUME NEW r \in Processes, r # p
          PROVE  /\ pc'[r] = pc[r] /\ cur'[r] = cur[r] /\ candidates'[r] = candidates[r]
                 /\ job'[r] = job[r]
      BY Zenon, <3>3 DEF Others
    <3>4. \A r \in Processes : r # p => JobOK(r)'
      BY Zenon, <3>3, SameJob DEF JobInv
    <3>5. JobOK(p)'
      <4>1. JobOK(p) /\ pc[p] # "flock" /\ pc'[p] # "flock"
        BY Zenon, <2>3, <3>1 DEF JobInv, JobOK, Removing
      <4>2. job[p][3] = "collect" => pc'[p] # "unlink"
        BY Zenon, <3>2
      <4> QED
        BY Zenon, <1>4, <2>1, <2>3, <3>1, <3>2, <4>1, <4>2 DEF JobOK
    <3> QED
      BY Zenon, <3>4, <3>5 DEF JobInv
  <2> QED
    BY Zenon, <1>4, <2>2, <2>3 DEF Busy
<1>5. CASE pc[p] \in {"failed", "compile"} /\ pc'[p] = "remove"
           /\ \E back \in {"retry", "list"} : IsJob(job'[p], cur[p], "working", "unlink", back)
  <2>1. cur[p] \in D /\ candidates[p] = {}
    BY Zenon, <1>5, Works DEF HoldInv, Holds, Session
  <2>2. cur'[p] = cur[p] /\ candidates'[p] = {}
    BY Zenon, <1>2, <1>5, <2>1 DEF Lists
  <2> QED
    BY Zenon, <1>5, <2>1, <2>2, NewJob DEF Paths
<1>6. CASE pc[p] = "collect" /\ pc'[p] = "remove"
           /\ \E d \in D, path \in Paths : IsJob(job'[p], d, path, "collect", "collect")
  BY Zenon, <1>6, NewJob
<1>7. CASE pc[p] = "collect" /\ pc'[p] = "flock"
           /\ \E d \in D, path \in Paths : IsJob(job'[p], d, path, "unlink", "collect")
  BY Zenon, <1>7, NewJob
<1>8. CASE pc[p] = "delete" /\ pc'[p] = "remove"
           /\ \E d \in candidates[p] : IsJob(job'[p], d, "final", "unlink", "delete")
  BY Zenon, <1>1, <1>8, NewJob DEF Paths
<1> QED
  BY Zenon, <1>3, <1>4, <1>5, <1>6, <1>7, <1>8 DEF Tasks

-------------------------------------------------------------------------------
(* Nobody takes the locks of the others. *)
LEMMA OthersHold ==
  ASSUME SessTypeOK, SessTypeOK', HoldInv, NEW p \in Processes, Others(p), Locks(p), Holds(p)'
  PROVE  HoldInv'
<1>1. ASSUME NEW d \in D, excl'[d] # None PROVE shared'[d] = {}
  <2>1. excl[d] # None => shared[d] = {}
    BY Zenon DEF HoldInv, Holds
  <2>2. \A r \in Processes : r \notin shared'[d]
    BY Zenon, <1>1, <2>1 DEF Locks
  <2>3. shared'[d] \subseteq Processes
    BY Zenon DEF SessTypeOK
  <2> QED
    BY Zenon, <2>2, <2>3
<1>2. ASSUME NEW r \in Processes, r # p PROVE Holds(r)'
  <2>1. /\ pc'[r] = pc[r] /\ cur'[r] = cur[r] /\ src'[r] = src[r] /\ job'[r] = job[r]
        /\ orphans'[r] = orphans[r] /\ candidates'[r] = candidates[r]
    BY Zenon, <1>2 DEF Others
  <2>2. \A d \in D : (excl[d] = r => excl'[d] = r) /\ (r \in shared[d] => r \in shared'[d])
    BY Zenon, <1>2, SessionAssumption DEF Locks
  <2>3. cur[r] \in D \union {0} /\ src[r] \in D \union {0} /\ candidates[r] \subseteq D
    BY Zenon DEF SessTypeOK
  <2>4. Holds(r)
    BY Zenon DEF HoldInv, Holds
  <2>5. \A d \in D : Deleting(r, d)' <=> Deleting(r, d)
    BY Zenon, <2>1 DEF Deleting
  <2>6. \A d \in D : Deleting(r, d)' => excl'[d] = r /\ d \notin candidates'[r]
    BY Zenon, <2>1, <2>2, <2>4, <2>5 DEF Holds
  <2>7. \A d \in candidates'[r] : excl'[d] = r
    BY Zenon, <2>1, <2>2, <2>3, <2>4 DEF Holds
  <2>8. pc'[r] \in Session => excl'[cur'[r]] = r
    BY Zenon, <2>1, <2>2, <2>3, <2>4 DEF Holds, Session
  <2>9. pc'[r] \in {"read", "copy"} => r \in shared'[src'[r]]
    BY Zenon, <2>1, <2>2, <2>3, <2>4 DEF Holds
  <2> QED
    BY Zenon, <2>1, <2>4, <2>6, <2>7, <2>8, <2>9 DEF Holds
<1> QED
  BY Zenon, <1>1, <1>2 DEF HoldInv

(* A process has the locks its next step relies on. *)
LEMMA OwnHold ==
  ASSUME SessTypeOK, JobInv, HoldInv, LiveInv, NEW p \in Processes, Act(p)
  PROVE  Holds(p)'
<1> USE DEF Go, files, locks, clock, prepVars, gcVars, SessTypeOK, Holds, Session, Removing,
     Deleting
<1>0. Holds(p)
  BY Zenon DEF HoldInv, Holds
<1>1. ASSUME generate(p) PROVE Holds(p)'
  BY Zenon, <1>1, <1>0 DEF generate
<1>2. ASSUME lock_directory(p) PROVE Holds(p)'
  BY <1>2, <1>0 DEF lock_directory, CanLock, Lock
<1>3. ASSUME create_dir(p) PROVE Holds(p)'
  BY Zenon, <1>3, <1>0 DEF create_dir
<1>4. ASSUME find_source_directory(p) PROVE Holds(p)'
  <2>0. cur[p] \in D /\ excl[cur[p]] = p /\ candidates[p] = {} /\ pc[p] = "find"
    BY Zenon, <1>4, <1>0 DEF find_source_directory
  <2>1. dir[cur[p]] = "working"
    BY Zenon, <2>0 DEF LiveInv, Own
  <2> DEFINE sources == {d \in D : dir[d] = "final" /\ d \notin tried[p]}
  <2>2. sources # {} => Max(sources) \in sources
    <3>1. sources \in SUBSET (0..Dirs)
      BY DEF D
    <3> QED
      BY Zenon, <3>1, MaxFacts
  <2>3. \/ pc'[p] = "list"
        \/ pc'[p] = "open" /\ src'[p] \in D /\ dir[src'[p]] = "final"
    BY Zenon, <1>4, <2>2 DEF find_source_directory
  <2>4. UNCHANGED <<locks, cur, gcVars, job>>
    BY Zenon, <1>4 DEF find_source_directory
  <2>5. 0 \notin D
    BY DEF D
  <2> QED
    BY Zenon, <2>0, <2>1, <2>3, <2>4, <2>5, <1>0
<1>5. ASSUME copy_open(p) PROVE Holds(p)'
  BY Zenon, <1>5, <1>0 DEF copy_open, Open
<1>6. ASSUME copy_lock(p) PROVE Holds(p)'
  BY <1>6, <1>0 DEF copy_lock
<1>7. ASSUME copy_read(p) PROVE Holds(p)'
  BY Zenon, <1>7, <1>0 DEF copy_read
<1>8. ASSUME copy_files(p) PROVE Holds(p)'
  BY Zenon, <1>8, <1>0 DEF copy_files, Unlock
<1>9. ASSUME copy_error(p) PROVE Holds(p)'
  BY Zenon, <1>9, <1>0 DEF copy_error
<1>10. ASSUME copy_failed(p) PROVE Holds(p)'
  BY Zenon, <1>10, <1>0 DEF copy_failed, Unlock, Remove
<1>11. ASSUME finalize(p) PROVE Holds(p)'
  BY Zenon, <1>11, <1>0 DEF finalize
<1>12. ASSUME finalize_incr_comp_session(p) PROVE Holds(p)'
  BY Zenon, <1>12, <1>0 DEF finalize_incr_comp_session, Unlock
<1>13. ASSUME finalize_errors(p) PROVE Holds(p)'
  BY Zenon, <1>13, <1>0 DEF finalize_errors, Remove
<1>14. ASSUME remove_files(p) PROVE Holds(p)'
  BY <1>14, <1>0, Works DEF remove_files
<1>15. ASSUME remove_dir(p) PROVE Holds(p)'
  BY <1>15, <1>0, Works DEF remove_dir
<1>16. ASSUME delete_session_dir_lock_file(p) PROVE Holds(p)'
  <2>1. /\ pc[p] \in {"unlink", "unlock_only"} /\ pc'[p] = job[p][4]
        /\ UNCHANGED <<cur, candidates, orphans, src>>
    BY Zenon, <1>16 DEF delete_session_dir_lock_file
  <2>2. /\ job[p][1] \in D /\ job[p][3] \in {"unlink", "collect"}
        /\ job[p][4] \in {"retry", "list", "collect", "delete"}
    BY Zenon, <2>1, Works
  <2>3. job[p][4] \in {"retry", "list"} => candidates[p] = {}
    BY Zenon, <2>1 DEF JobInv, JobOK
  <2>4. job[p][1] \notin candidates[p]
    BY Zenon, <2>1, <2>2, <1>0
  <2>5. \A d \in candidates[p] : excl'[d] = p
    <3>1. Unlock(p, job[p][1])
      BY Zenon, <1>16 DEF delete_session_dir_lock_file
    <3>2. \A d \in D : d # job[p][1] => excl'[d] = excl[d]
      BY <3>1, <2>2, UnlockFacts
    <3> QED
      BY Zenon, <3>2, <2>4, <1>0
  <2>6. pc'[p] \notin Session \union Removing \union {"flock", "start", "lock"}
    BY Zenon, <2>1, <2>2
  <2> QED
    BY Zenon, <2>1, <2>2, <2>3, <2>5, <2>6, <1>0
<1>17. ASSUME gc_list(p) PROVE Holds(p)'
  BY Zenon, <1>17, <1>0 DEF gc_list
<1>18. ASSUME gc_orphan(p) PROVE Holds(p)'
  BY <1>18, <1>0 DEF gc_orphan, Remove
<1>19. ASSUME gc_open(p) PROVE Holds(p)'
  BY <1>19, <1>0 DEF gc_open, is_old_enough_to_be_collected, Open
<1>20. ASSUME gc_lock(p) PROVE Holds(p)'
  <2>1. /\ pc[p] = "flock" /\ job[p][1] \in D /\ job[p][3] = "unlink" /\ orphans[p] = {}
        /\ cur[p] # 0 /\ UNCHANGED <<cur, orphans, src>>
    BY Zenon, <1>20, Works, <1>0 DEF gc_lock, JobInv, JobOK
  <2>2. CASE CanLock(job[p][1])
    <3>1. Lock(p, job[p][1])
      BY Zenon, <1>20, <2>2 DEF gc_lock
    <3>2. \A d \in D : excl'[d] = IF d = job[p][1] THEN p ELSE excl[d]
      BY <3>1, <2>1, LockFacts
    <3>3. job[p][1] \notin candidates[p]
      BY <2>1, <2>2, <1>0, Works DEF CanLock
    <3>4. \/ /\ pc'[p] = "collect" /\ candidates'[p] = candidates[p] \union {job[p][1]}
          \/ /\ pc'[p] = "remove" /\ candidates'[p] = candidates[p] /\ job'[p] = job[p]
      BY Zenon, <1>20, <2>2 DEF gc_lock
    <3>5. \A d \in candidates'[p] : excl'[d] = p
      BY <3>2, <3>4, <2>1, <1>0
    <3>6. \A d \in D : Deleting(p, d)' => excl'[d] = p /\ d \notin candidates'[p]
      BY Zenon, <3>2, <3>3, <3>4
    <3> QED
      BY Zenon, <2>1, <3>4, <3>5, <3>6
  <2>3. CASE ~ CanLock(job[p][1])
    BY <1>20, <2>1, <2>3, <1>0 DEF gc_lock
  <2> QED
    BY Zenon, <2>2, <2>3
<1>21. ASSUME gc_spare(p) PROVE Holds(p)'
  BY <1>21, <1>0 DEF gc_spare, Unlock
<1>22. ASSUME gc_delete(p) PROVE Holds(p)'
  BY <1>22, <1>0 DEF gc_delete, Remove
<1>23. ASSUME gc_end(p) PROVE Holds(p)'
  BY Zenon, <1>23, <1>0 DEF gc_end
<1>24. ASSUME exit(p) PROVE Holds(p)'
  BY Zenon, <1>24, <1>0 DEF exit
<1> HIDE DEF Go, files, locks, clock, prepVars, gcVars, SessTypeOK, Holds, Session,
     Removing, Deleting
<1> QED
  BY Zenon, <1>1, <1>2, <1>3, <1>4, <1>5, <1>6, <1>7, <1>8, <1>9, <1>10, <1>11, <1>12,
       <1>13, <1>14, <1>15, <1>16, <1>17, <1>18, <1>19, <1>20, <1>21, <1>22, <1>23,
       <1>24 DEF Act, Step

-------------------------------------------------------------------------------
(* What a process has listed, is removing, or has locked to remove. *)
LEMMA SeenStep ==
  ASSUME SessTypeOK, SessTypeOK', NEW p \in Processes, Others(p), Lists(p), Tasks(p),
         NEW q \in Processes, NEW d \in D, Seen(q, d)'
  PROVE  \/ Seen(q, d)
         \/ q = p /\ pc[p] = "list" /\ dir[d] \in Paths
         \/ q = p /\ pc[p] \in {"failed", "compile"} /\ d = cur[p]
<1>1. CASE q # p
  BY Zenon, <1>1 DEF Others, Seen, Listed
<1>2. CASE q = p
  <2>1. ASSUME NEW path \in Paths, <<d, path>> \in orphans'[p] \union pairs'[p]
        PROVE  Listed(p, d) \/ (pc[p] = "list" /\ dir[d] \in Paths)
    BY Zenon, <2>1 DEF Lists, Listed
  <2>2. ASSUME d \in candidates'[p] PROVE d \in candidates[p] \/ job[p][1] = d
    BY Zenon, <2>2 DEF Lists
  <2>3. ASSUME job'[p][1] = d
        PROVE  Seen(p, d) \/ (pc[p] \in {"failed", "compile"} /\ d = cur[p])
    <3>1. NoJob[1] # d
      BY Zenon, SessionNumbers
    <3> QED
      BY Zenon, <2>3, <3>1 DEF Tasks, IsJob, Seen, Listed
  <2> QED
    BY Zenon, <1>2, <2>1, <2>2, <2>3 DEF Seen, Listed
<1> QED
  BY Zenon, <1>1, <1>2

(* Session numbers are used once. *)
LEMMA TimeStep ==
  ASSUME SessTypeOK, SessTypeOK', JobInv, TimeInv, NEW p \in Processes, Others(p), Locks(p),
         Files(p), Times(p), Lists(p), Tasks(p)
  PROVE  TimeInv'
<1>1. /\ next \in Nat /\ next' \in Nat /\ newest \in Nat /\ newest' \in Nat /\ next <= next'
      /\ \A r \in Processes : cur[r] \in Nat /\ cur'[r] \in Nat
  BY DEF SessTypeOK, Times, D
<1>2. newest' < next'
  <2>1. newest < next /\ cur[p] < next /\ newest' \in {newest, cur[p]}
    BY Zenon DEF TimeInv, Times
  <2> QED
    BY <1>1, <2>1
<1>a. aged' < next'
  <2>1. aged \in Nat /\ aged < next
    BY DEF SessTypeOK, TimeInv, D
  <2>2. CASE aged' = aged
    BY <1>1, <2>1, <2>2
  <2>3. CASE aged' # aged
    <3>1. aged' \in D /\ Seen(p, aged')
      BY Zenon, <2>3 DEF Times, Seen, Listed, Paths
    <3>2. ~ (aged' >= next)
      BY Zenon, <3>1 DEF TimeInv
    <3> QED
      BY <1>1, <3>1, <3>2 DEF D
  <2> QED
    BY Zenon, <2>2, <2>3
<1>o. \A r \in Processes : cur[r] < next /\ (r # p => cur'[r] = cur[r])
  BY Zenon DEF TimeInv, Others
<1>c. cur'[p] = cur[p] \/ (cur'[p] = next /\ next' = next + 1)
  BY Zenon DEF Times
<1>3. ASSUME NEW r \in Processes PROVE cur'[r] < next'
  <2>1. cur[r] \in Nat /\ next \in Nat /\ next' \in Nat /\ next <= next' /\ cur[r] < next
    BY Zenon, <1>1, <1>o
  <2>2. CASE cur'[r] = cur[r]
    BY <2>1, <2>2
  <2>3. CASE cur'[r] = next /\ next' = next + 1
    BY <2>1, <2>3
  <2> QED
    BY Zenon, <1>o, <1>c, <2>2, <2>3
<1>n. \A r \in Processes : cur[r] # next
  BY <1>1, <1>o
<1>4. \A r, q \in Processes : cur'[r] = cur'[q] => r = q \/ cur'[r] = 0
  BY Zenon, <1>o, <1>c, <1>n DEF TimeInv
<1>5. ASSUME NEW d \in D, d >= next'
      PROVE  /\ dir'[d] = "none" /\ excl'[d] = None /\ d \notin lockfile' /\ d \notin damaged'
             /\ \A q \in Processes : ~ Seen(q, d)'
  <2>0. d \in Nat /\ d >= next
    BY <1>1, <1>5 DEF D
  <2>1. /\ dir[d] = "none" /\ excl[d] = None /\ d \notin lockfile /\ d \notin damaged
        /\ \A q \in Processes : ~ Seen(q, d)
        /\ d # cur[p]
    BY <1>1, <2>0 DEF TimeInv
  <2>7. next' = next + 1 => d # next
    BY <1>1, <1>5, <2>0
  <2>2. job[p][1] # d
    BY Zenon, <2>1 DEF Seen
  <2>3. dir'[d] = "none"
    BY Zenon, <2>1 DEF Files
  <2>4. excl'[d] = None
    BY Zenon, <2>1, <2>2 DEF Locks
  <2>5. d \notin lockfile' /\ d \notin damaged'
    BY Zenon, <2>1, <2>2, <2>7 DEF Files
  <2>6. \A q \in Processes : ~ Seen(q, d)'
    BY Zenon, <2>1, SeenStep DEF Paths
  <2> QED
    BY Zenon, <2>3, <2>4, <2>5, <2>6
<1> QED
  BY Zenon, <1>2, <1>a, <1>3, <1>4, <1>5 DEF TimeInv

(* A directory nobody has seen is seen by nobody before it is locked. *)
LEMMA FreshStep ==
  ASSUME SessTypeOK, SessTypeOK', TimeInv, FreshInv, NEW p \in Processes,
         Others(p), Locks(p), Files(p), Times(p), Lists(p), Tasks(p), Flow(p)
  PROVE  FreshInv'
<1> SUFFICES ASSUME NEW r \in Processes, NEW d \in D, cur'[r] = d,
                    pc'[r] \in {"lock", "create"}
             PROVE  /\ dir'[d] = "none" /\ d \in lockfile' /\ d \notin damaged'
                    /\ pc'[r] = "lock" => excl'[d] = None
                    /\ \A q \in Processes : ~ Seen(q, d)'
  BY Zenon DEF FreshInv
<1>1. CASE r # p
  <2>1. pc'[r] = pc[r] /\ cur[r] = d
    BY Zenon, <1>1 DEF Others
  <2>2. d # cur[p]
    BY <1>1, <2>1 DEF TimeInv, D
  <2>3. /\ dir[d] = "none" /\ d \in lockfile /\ d \notin damaged
        /\ pc[r] = "lock" => excl[d] = None
        /\ \A q \in Processes : ~ Seen(q, d)
    BY Zenon, <2>1 DEF FreshInv
  <2>4. job[p][1] # d
    BY Zenon, <2>3 DEF Seen
  <2>5. dir'[d] = "none" /\ d \in lockfile' /\ d \notin damaged'
    BY Zenon, <2>2, <2>3, <2>4 DEF Files
  <2>6. pc[r] = "lock" => excl'[d] = None
    BY Zenon, <2>2, <2>3, <2>4, SessionAssumption DEF Locks
  <2>7. \A q \in Processes : ~ Seen(q, d)'
    BY Zenon, <2>2, <2>3, SeenStep DEF Paths
  <2> QED
    BY Zenon, <2>1, <2>5, <2>6, <2>7
<1>2. CASE r = p /\ pc'[p] = "create"
  <2>1. pc[p] = "lock" /\ cur[p] = d
    BY Zenon, <1>2 DEF Flow, Times
  <2>2. /\ dir[d] = "none" /\ d \in lockfile /\ d \notin damaged
        /\ \A q \in Processes : ~ Seen(q, d)
    BY Zenon, <2>1 DEF FreshInv
  <2>3. dir'[d] = "none" /\ d \in lockfile' /\ d \notin damaged'
    BY Zenon, <2>1, <2>2 DEF Files
  <2>4. \A q \in Processes : ~ Seen(q, d)'
    BY Zenon, <2>1, <2>2, SeenStep
  <2> QED
    BY Zenon, <1>2, <2>3, <2>4
<1>3. CASE r = p /\ pc'[p] = "lock"
  <2>1. pc[p] \in {"start", "retry"} /\ next = d /\ d \in lockfile'
    BY Zenon, <1>3 DEF Times
  <2>2. /\ dir[d] = "none" /\ excl[d] = None /\ d \notin damaged
        /\ \A q \in Processes : ~ Seen(q, d)
    BY <2>1 DEF TimeInv, D
  <2>3. dir'[d] = "none" /\ d \notin damaged'
    BY Zenon, <2>1, <2>2 DEF Files
  <2>4. excl'[d] = None
    BY Zenon, <2>1, <2>2 DEF Locks
  <2>5. \A q \in Processes : ~ Seen(q, d)'
    BY Zenon, <2>1, <2>2, SeenStep
  <2> QED
    BY Zenon, <2>1, <2>3, <2>4, <2>5
<1> QED
  BY Zenon, <1>1, <1>2, <1>3

(* A step keeps the directory of a session, unless it finalizes it. *)
LEMMA KeptDir ==
  ASSUME SessTypeOK, SessTypeOK', JobInv, HoldInv, TimeInv, LiveInv, NEW p \in Processes,
         Others(p), Files(p), Lists(p), Tasks(p),
         NEW r \in Processes, NEW d \in D, Own(r, d), pc[r] \notin {"create", "unlock"},
         r = p => pc'[p] # "unlock"
  PROVE  /\ dir'[d] = "working" /\ d \in lockfile' /\ d \notin damaged'
         /\ \A q \in Processes :
              (\A path \in Paths : <<d, path>> \notin orphans'[q]) /\ ~ Sweeping(q, d)'
<1>1. /\ dir[d] = "working" /\ d \in lockfile /\ d \notin damaged
      /\ \A q \in Processes : ~ Sweeping(q, d) /\ \A path \in Paths : <<d, path>> \notin orphans[q]
  BY Zenon DEF LiveInv
<1>2. cur[r] = d /\ excl[d] = r /\ ~ Deleting(r, d) /\ (cur[p] = d => r = p)
  BY Zenon, SessionNumbers DEF Own, TimeInv
<1>3. ~ Deleting(p, d)
  <2>1. Holds(p)
    BY Zenon DEF HoldInv
  <2> QED
    BY Zenon, <1>2, <2>1 DEF Holds
<1>4. pc[p] \in Removing => job[p][1] # d
  BY Zenon, <1>1, <1>3, Works DEF Sweeping, Deleting
<1>5. dir'[d] = "working"
  BY Zenon, <1>1, <1>2, <1>4 DEF Files, Removing
<1>6. d \in lockfile' /\ d \notin damaged'
  BY Zenon, <1>1, <1>4 DEF Files, Removing
<1>7. ASSUME NEW q \in Processes, NEW path \in Paths PROVE <<d,
     path>> \notin orphans'[q]
  <2>1. CASE q # p
    BY Zenon, <1>1, <2>1 DEF Others
  <2>2. CASE q = p
    <3>1. ~ (<<d, path>>[1] \notin lockfile)
      BY Zenon, <1>1
    <3> QED
      BY Zenon, <1>1, <2>2, <3>1 DEF Lists
  <2> QED
    BY Zenon, <2>1, <2>2
<1>8. ASSUME NEW q \in Processes, Sweeping(q, d)' PROVE FALSE
  <2>1. CASE q # p
    BY Zenon, <1>1, <1>8, <2>1 DEF Others, Sweeping
  <2>2. CASE q = p
    <3>1. pc'[p] \in Removing /\ job'[p][3] = "collect" /\ job'[p][1] = d
      BY Zenon, <1>8, <2>2 DEF Sweeping
    <3>2. CASE pc[p] \in Busy /\ job'[p] = job[p]
      BY Zenon, <1>4, <3>1, <3>2 DEF Busy, JobInv, JobOK
    <3> QED
      BY Zenon, <1>1, <3>1, <3>2 DEF Tasks, IsJob, Busy
  <2> QED
    BY Zenon, <2>1, <2>2
<1> QED
  BY Zenon, <1>5, <1>6, <1>7, <1>8

(* A session is acquired by lock_directory only. *)
LEMMA OwnStep ==
  ASSUME SessTypeOK, SessTypeOK', HoldInv, FreshInv', NEW p \in Processes,
         Others(p), Locks(p), Keeps(p), Times(p), Flow(p),
         NEW r \in Processes, NEW d \in D, Own(r, d)'
  PROVE  cur[r] = d /\ (Own(r, d) \/ pc'[r] = "create")
<1>1. cur'[r] = d /\ excl'[d] = r /\ d \notin candidates'[r] /\ ~ Deleting(r, d)'
  BY Zenon DEF Own
<1>2. CASE r # p
  <2>1. /\ pc'[r] = pc[r] /\ cur'[r] = cur[r] /\ job'[r] = job[r]
        /\ candidates'[r] = candidates[r]
    BY Zenon, <1>2 DEF Others
  <2>2. excl[d] = r
    BY Zenon, <1>1, <1>2, SessionAssumption DEF Locks
  <2> QED
    BY Zenon, <1>1, <2>1, <2>2 DEF Own, Deleting
<1>3. CASE r = p
  <2>1. cur[p] = d
    <3>1. pc'[p] # "lock"
      BY Zenon, <1>1, <1>3, SessionAssumption DEF FreshInv
    <3> QED
      BY Zenon, <1>1, <1>3, <3>1 DEF Times
  <2>2. CASE excl[d] = p
    BY Zenon, <1>1, <1>3, <2>1, <2>2 DEF Keeps, Own
  <2>3. CASE excl[d] # p
    BY Zenon, <1>1, <1>3, <2>1, <2>3 DEF Locks, Keeps, Flow
  <2> QED
    BY Zenon, <1>3, <2>1, <2>2, <2>3
<1> QED
  BY Zenon, <1>2, <1>3

(* The directory of a session that has its lock is kept. *)
LEMMA LiveStep ==
  ASSUME SessTypeOK, SessTypeOK', JobInv, HoldInv, TimeInv, FreshInv, FreshInv', LiveInv,
         NEW p \in Processes, Others(p), Locks(p), Keeps(p), Files(p), Times(p), Lists(p),
         Tasks(p), Flow(p)
  PROVE  LiveInv'
<1> SUFFICES ASSUME NEW r \in Processes, NEW d \in D, Own(r, d)',
                    pc'[r] \notin {"create", "unlock"}
             PROVE  /\ dir'[d] = "working" /\ d \in lockfile' /\ d \notin damaged'
                    /\ \A q \in Processes :
                         (\A path \in Paths : <<d, path>> \notin orphans'[q]) /\ ~ Sweeping(q, d)'
  BY Zenon DEF LiveInv
<1>1. cur[r] = d /\ Own(r, d) /\ excl'[d] = r
  BY Zenon, OwnStep DEF Own
<1>2. CASE pc[r] \notin {"create", "unlock"}
  BY Zenon, <1>1, <1>2, KeptDir
<1>3. CASE pc[r] = "unlock"
  BY Zenon, <1>1, <1>3 DEF Others, Flow
<1>4. CASE pc[r] = "create"
  <2>1. r = p
    BY Zenon, <1>4 DEF Others
  <2>2. dir'[d] = "working"
    BY Zenon, <1>1, <1>4, <2>1 DEF Flow
  <2>3. /\ d \in lockfile /\ d \notin damaged
        /\ \A q \in Processes : ~ Seen(q, d)
    BY Zenon, <1>1, <1>4 DEF FreshInv
  <2>4. d \in lockfile' /\ d \notin damaged'
    BY Zenon, <1>4, <2>1, <2>3 DEF Files
  <2>5. \A q \in Processes : ~ Seen(q, d)'
    BY Zenon, <1>4, <2>1, <2>3, SeenStep
  <2> QED
    BY Zenon, <2>2, <2>4, <2>5 DEF Seen, Listed, Sweeping
<1> QED
  BY Zenon, <1>2, <1>3, <1>4

-------------------------------------------------------------------------------
(* What is listed as finalized was: unless slow there are no directories      *)
(* without a lock file.                                                       *)
LEMMA FinalizedStep ==
  ASSUME SessTypeOK, LockFileInv, NEW p \in Processes, Others(p), Lists(p), Tasks(p),
         NEW q \in Processes, NEW d \in D, Finalized(q, d)'
  PROVE  Finalized(q, d) \/ dir[d] = "final"
<1>1. CASE q # p
  BY Zenon, <1>1 DEF Others, Finalized
<1>2. CASE q = p
  <2>1. ASSUME <<d, "final">> \in pairs'[p] PROVE Finalized(p, d) \/ dir[d] = "final"
    BY Zenon, <2>1 DEF Lists, Finalized
  <2>2. ASSUME d \in candidates'[p] PROVE Finalized(p, d)
    BY Zenon, <2>2 DEF Lists, Finalized
  <2>3. ASSUME pc'[p] \in Busy, job'[p][1] = d, job'[p][2] = "final" PROVE Finalized(p, d)
    <3>1. CASE pc[p] \in Busy /\ job'[p] = job[p]
      BY Zenon, <2>3, <3>1 DEF Finalized, Busy
    <3>2. orphans[p] = {}
      BY Zenon DEF LockFileInv
    <3> QED
      BY Zenon, <2>3, <3>1, <3>2 DEF Tasks, IsJob, Finalized
  <2> QED
    BY Zenon, <1>2, <2>1, <2>2, <2>3 DEF Finalized, Busy
<1> QED
  BY Zenon, <1>1, <1>2

(* And what is listed as unfinished, or given up by its session, or old by *)
(* now.                                                                    *)
LEMMA UnfinishedStep ==
  ASSUME SessTypeOK, SessTypeOK', LockFileInv, ~ slow, NEW p \in Processes, Others(p), Times(p),
         Lists(p), Tasks(p), NEW q \in Processes, NEW d \in D, Unfinished(q, d)'
  PROVE  \/ Unfinished(q, d)
         \/ dir[d] = "working" /\ d <= aged
         \/ dir[d] # "final" /\ ~ Pending(d)
         \/ /\ pc[p] \in {"failed", "compile"} /\ d = cur[p]
            /\ pc'[p] = "remove" /\ Deleting(p, d)'
<1>0. \/ d <= aged' => d <= aged
      \/ pc[p] = "collect" /\ ~ Pending(d)
  <2>1. d \in Nat /\ aged \in Nat /\ aged' \in Nat
    BY DEF SessTypeOK, D
  <2>2. d <= aged \/ d > aged
    BY <2>1
  <2> QED
    BY Zenon, <2>2 DEF Times
<1>1. ASSUME NEW r \in Processes, <<d, "working">> \in pairs[r], d <= aged'
      PROVE  Unfinished(r, d) \/ (dir[d] # "final" /\ ~ Pending(d))
  BY Zenon, <1>0, <1>1 DEF Unfinished, Pending
<1>2. CASE q # p
  <2>1. /\ pc'[q] = pc[q] /\ pairs'[q] = pairs[q] /\ job'[q] = job[q]
    BY Zenon, <1>2 DEF Others
  <2> QED
    BY Zenon, <1>1, <2>1 DEF Unfinished
<1>3. CASE q = p
  <2>1. ASSUME <<d, "working">> \in pairs'[p], d <= aged'
        PROVE  \/ Unfinished(p, d)
               \/ dir[d] = "working" /\ d <= aged
               \/ dir[d] # "final" /\ ~ Pending(d)
    <3>1. CASE <<d, "working">> \in pairs[p]
      BY Zenon, <1>1, <2>1, <3>1
    <3>2. CASE pc[p] = "list" /\ dir[d] = "working"
      BY Zenon, <1>0, <2>1, <3>2
    <3> QED
      BY Zenon, <2>1, <3>1, <3>2 DEF Lists
  <2>2. ASSUME pc'[p] \in Busy, job'[p][1] = d, job'[p][2] = "working"
        PROVE  \/ Unfinished(p, d)
               \/ dir[d] # "final" /\ ~ Pending(d)
               \/ /\ pc[p] \in {"failed", "compile"} /\ d = cur[p]
                  /\ pc'[p] = "remove" /\ Deleting(p, d)'
    <3>1. CASE pc[p] \in Busy /\ job'[p] = job[p]
      BY Zenon, <2>2, <3>1 DEF Unfinished, Busy
    <3>2. orphans[p] = {}
      BY Zenon DEF LockFileInv
    <3>3. CASE <<d, "working">> \in pairs[p] /\ d <= aged'
      BY Zenon, <1>1, <3>3
    <3> QED
      BY Zenon, <2>2, <3>1, <3>2, <3>3 DEF Tasks, IsJob, Deleting, Removing
  <2> QED
    BY Zenon, <1>3, <2>1, <2>2 DEF Unfinished, Busy
<1> QED
  BY Zenon, <1>2, <1>3

(* What nobody is going to finalize stays so. *)
LEMMA NoOwnerStep ==
  ASSUME SessTypeOK, SessTypeOK', HoldInv, TimeInv, FreshInv', NEW p \in Processes, Others(p),
         Locks(p), Keeps(p), Files(p), Times(p), Flow(p), NEW d \in D, NoOwner(d), d < next
  PROVE  NoOwner(d)' /\ (dir[d] # "final" => dir'[d] # "final")
<1>1. ASSUME NEW r \in Processes, cur'[r] = d, pc'[r] \in {"lock", "create"} PROVE FALSE
  <2>1. CASE r # p
    BY Zenon, <1>1, <2>1 DEF Others, NoOwner
  <2>2. CASE r = p /\ pc'[p] = "create"
    BY Zenon, <1>1, <2>2 DEF Flow, Times, NoOwner
  <2>3. CASE r = p /\ pc'[p] = "lock"
    <3>1. d = next
      BY Zenon, <1>1, <2>3 DEF Times
    <3> QED
      BY <3>1 DEF D
  <2> QED
    BY Zenon, <1>1, <2>1, <2>2, <2>3
<1>2. ~ (pc[p] = "create" /\ cur[p] = d)
  BY Zenon DEF NoOwner
<1>3. ASSUME NEW r \in Processes, cur'[r] = d, dir'[d] = "working", Own(r, d)' PROVE FALSE
  <2>1. cur[r] = d /\ Own(r, d)
    BY Zenon, <1>1, <1>3, OwnStep
  <2>2. dir[d] = "working"
    BY Zenon, <1>2, <1>3 DEF Files
  <2> QED
    BY Zenon, <2>1, <2>2 DEF NoOwner
<1>4. ~ (pc[p] = "compile" /\ cur[p] = d /\ dir[d] = "working")
  <2>1. pc[p] = "compile" /\ cur[p] = d => Own(p, d)
    BY Zenon DEF HoldInv, Holds, Own, Deleting, Session, Removing
  <2> QED
    BY Zenon, <2>1 DEF NoOwner
<1>5. dir[d] # "final" => dir'[d] # "final"
  BY Zenon, <1>4 DEF Files
<1> QED
  BY Zenon, <1>1, <1>3, <1>5 DEF NoOwner

(* A directory listed as finalized does not turn unfinished. *)
LEMMA FinalStep ==
  ASSUME SessTypeOK, SessTypeOK', FreshInv, LockFileInv, FinalInv, NEW p \in Processes,
         Others(p), Files(p), Times(p), Lists(p), Tasks(p)
  PROVE  FinalInv'
<1>1. newest \in Nat /\ newest' \in Nat /\ newest <= newest' /\ D \subseteq Nat
  BY DEF SessTypeOK, Times, D
<1>2. ASSUME NEW d \in D, dir'[d] = "final" PROVE d <= newest'
  <2>1. dir[d] = "final" \/ d <= newest'
    BY Zenon, <1>2 DEF Files
  <2>2. dir[d] = "final" => d <= newest
    BY Zenon DEF FinalInv
  <2>3. d \in Nat
    BY Zenon, <1>1
  <2> QED
    BY <1>1, <2>1, <2>2, <2>3
<1>3. ASSUME NEW q \in Processes, NEW d \in D, Finalized(q, d)'
      PROVE  dir'[d] # "working" /\ d <= newest'
  <2>1. Finalized(q, d) \/ dir[d] = "final"
    BY Zenon, <1>3, FinalizedStep
  <2>2. dir[d] # "working" /\ d <= newest
    BY Zenon, <2>1 DEF FinalInv
  <2>3. ~ (pc[p] = "create" /\ cur[p] = d)
    BY Zenon, <2>1 DEF FreshInv, Finalized, Seen, Listed, Paths
  <2>4. dir'[d] # "working"
    BY Zenon, <2>2, <2>3 DEF Files
  <2> QED
    BY <1>1, <2>2, <2>4
<1> QED
  BY Zenon, <1>2, <1>3 DEF FinalInv

(* A directory that is old or was listed as unfinished is not finalized *)
(* afterwards.                                                          *)
LEMMA AbandonedStep ==
  ASSUME SessTypeOK, SessTypeOK', HoldInv, TimeInv, TimeInv', FreshInv', LiveInv, LockFileInv,
         AbandonedInv, ~ slow, NEW p \in Processes, Others(p), Locks(p), Keeps(p), Files(p),
         Times(p), Lists(p), Tasks(p), Flow(p)
  PROVE  AbandonedInv'
<1>0. ASSUME NEW d \in D, ~ Pending(d) PROVE NoOwner(d)
  BY Zenon, <1>0 DEF Pending, NoOwner, Own
<1>1. ASSUME NEW d \in D, d <= aged' PROVE NoOwner(d) /\ d < next
  <2>1. d \in Nat /\ aged \in Nat /\ aged' \in Nat /\ next \in Nat
    BY DEF SessTypeOK, D
  <2>2. NoOwner(d)
    <3>1. d <= aged \/ d > aged
      BY <2>1
    <3>2. CASE d <= aged
      BY Zenon, <3>2 DEF AbandonedInv
    <3>3. CASE d > aged /\ d <= aged /\ aged' = aged
      BY <2>1, <3>3
    <3> QED
      BY Zenon, <1>0, <1>1, <3>1, <3>2 DEF Times
  <2>3. aged' < next
    <3>1. CASE aged' = aged
      BY Zenon, <3>1 DEF TimeInv
    <3>2. CASE aged' # aged
      <4>1. Seen(p, aged') /\ aged' \in D
        BY Zenon, <3>2 DEF Times, Seen, Listed, Paths
      <4>2. ~ (aged' >= next)
        BY Zenon, <4>1 DEF TimeInv
      <4> QED
        BY <2>1, <4>2
    <3> QED
      BY Zenon, <3>1, <3>2
  <2> QED
    BY <1>1, <2>1, <2>2, <2>3
<1>2. ASSUME NEW d \in D, d <= aged' PROVE NoOwner(d)'
  BY Zenon, <1>1, <1>2, NoOwnerStep
<1>3. ASSUME NEW q \in Processes, NEW d \in D, Unfinished(q, d)'
      PROVE  dir'[d] # "final" /\ NoOwner(d)'
  <2>1. CASE dir[d] # "final" /\ NoOwner(d)
    <3>1. d < next
      <4>1. Seen(q, d)'
        BY Zenon, <1>3 DEF Unfinished, Seen, Listed, Paths
      <4>2. d < next'
        <5>1. ~ (d >= next')
          BY Zenon, <4>1 DEF TimeInv
        <5> QED
          BY <5>1 DEF SessTypeOK, D
      <4>3. CASE next' = next
        BY Zenon, <4>2, <4>3
      <4>4. CASE pc'[p] = "lock" /\ cur'[p] = next /\ next' = next + 1
        <5>1. d # next
          BY Zenon, <4>1, <4>4 DEF FreshInv
        <5> QED
          BY <4>2, <4>4, <5>1 DEF SessTypeOK, D
      <4> QED
        BY Zenon, <4>3, <4>4 DEF Times
    <3> QED
      BY Zenon, <2>1, <3>1, NoOwnerStep
  <2>2. CASE \/ Unfinished(q, d) \/ (dir[d] = "working" /\ d <= aged)
             \/ (dir[d] # "final" /\ ~ Pending(d))
    BY Zenon, <1>0, <2>1, <2>2 DEF AbandonedInv
  <2>3. CASE /\ pc[p] \in {"failed", "compile"} /\ d = cur[p]
             /\ pc'[p] = "remove" /\ Deleting(p, d)'
    <3>1. Own(p, d)
      BY Zenon, <2>3 DEF HoldInv, Holds, Own, Deleting, Session, Removing
    <3>2. dir[d] = "working"
      BY Zenon, <2>3, <3>1 DEF LiveInv
    <3>3. dir'[d] # "final"
      BY Zenon, <2>3, <3>2 DEF Files
    <3>4. ASSUME NEW r \in Processes, cur'[r] = d
          PROVE  pc'[r] \notin {"lock", "create"} /\ ~ Own(r, d)'
      <4>1. Seen(q, d)'
        BY Zenon, <1>3 DEF Unfinished, Seen, Listed, Paths
      <4>2. pc'[r] \notin {"lock", "create"}
        BY Zenon, <3>4, <4>1 DEF FreshInv
      <4>3. Own(r, d)' => r = p
        BY Zenon, <2>3, <4>2, OwnStep, SessionNumbers DEF TimeInv
      <4> QED
        BY Zenon, <2>3, <4>2, <4>3 DEF Own
    <3> QED
      BY Zenon, <3>3, <3>4 DEF NoOwner
  <2> QED
    BY Zenon, <1>3, <2>2, <2>3, UnfinishedStep
<1> QED
  BY Zenon, <1>2, <1>3 DEF AbandonedInv

(* Lock files are removed after their directories. *)
LEMMA LockFileStep ==
  ASSUME SessTypeOK, SessTypeOK', JobInv, FreshInv, FinalInv, AbandonedInv, LockFileInv,
         HoldInv, NEW p \in Processes, Others(p), Files(p), Lists(p), Tasks(p), Flow(p)
  PROVE  LockFileInv'
<1>1. ASSUME NEW d \in D, dir'[d] # "none" PROVE d \in lockfile'
  <2>1. dir[d] # "none" \/ (pc[p] = "create" /\ cur[p] = d)
    BY Zenon, <1>1 DEF Files
  <2>2. d \in lockfile
    BY Zenon, <2>1 DEF LockFileInv, FreshInv
  <2>3. ~ (pc[p] = "unlink" /\ job[p][1] = d)
    BY Zenon, <2>1 DEF LockFileInv
  <2> QED
    BY Zenon, <2>2, <2>3 DEF Files
<1>2. ASSUME NEW r \in Processes PROVE orphans'[r] = {}
  <2>1. CASE r # p
    BY Zenon, <2>1 DEF Others, LockFileInv
  <2>2. CASE r = p
    <3>1. ASSUME NEW x \in orphans'[p] PROVE FALSE
      <4>1. x[1] \in D /\ x[2] \in Paths
        BY Zenon, PairParts DEF SessTypeOK
      <4>2. x[1] \notin lockfile /\ dir[x[1]] = x[2]
        BY Zenon DEF Lists, LockFileInv
      <4> QED
        BY Zenon, <4>1, <4>2 DEF LockFileInv, Paths
    <3> QED
      BY Zenon, <2>2, <3>1
  <2> QED
    BY Zenon, <2>1, <2>2
<1>3. ASSUME NEW r \in Processes, pc'[r] \in Removing PROVE job'[r][3] = "unlink"
  <2>1. CASE r # p
    <3>1. pc'[r] = pc[r] /\ job'[r] = job[r]
      BY Zenon, <2>1 DEF Others
    <3> QED
      BY Zenon, <1>3, <3>1 DEF LockFileInv
  <2>2. CASE r = p
    <3>1. pc[p] \in Busy => job[p][3] = "unlink"
      BY Zenon DEF Busy, LockFileInv, JobInv, JobOK
    <3>2. orphans[p] = {} /\ pc'[p] \in Busy
      BY Zenon, <1>3, <2>2 DEF Busy, LockFileInv
    <3> QED
      BY Zenon, <2>2, <3>1, <3>2 DEF Tasks, IsJob
  <2> QED
    BY Zenon, <2>1, <2>2
<1>4. ASSUME NEW r \in Processes, NEW d \in D, pc'[r] \in {"unlink", "unlock_only"},
             job'[r][1] = d
      PROVE  dir'[d] = "none"
  <2>1. CASE r # p
    <3>1. pc[r] \in {"unlink", "unlock_only"} /\ job[r][1] = d
      BY Zenon, <1>4, <2>1 DEF Others
    <3>2. dir[d] = "none"
      BY Zenon, <3>1 DEF LockFileInv
    <3>3. Seen(r, d)
      BY Zenon, <3>1 DEF Seen
    <3> QED
      BY Zenon, <3>2, <3>3 DEF Files, FreshInv
  <2>2. CASE r = p
    <3>1. pc[p] \in {"remove", "rmdir"} /\ (dir[job[p][1]] # job[p][2] \/ dir'[job[p][1]] = "none")
      BY Zenon, <1>4, <2>2 DEF Flow
    <3>7. job[p][2] \in Paths
      BY Zenon, <3>1, Works DEF Removing
    <3>8. job'[p] = job[p]
      BY Zenon, <1>4, <2>2, <3>1 DEF Tasks, Busy, Removing
    <3>2. job[p][1] = d /\ job[p][2] \in Paths
      BY Zenon, <1>4, <2>2, <3>7, <3>8
    <3>4. dir[d] \in {"none", "working", "final"} /\ pc[p] \in Removing /\ d \in D
      <4>1. dir[d] \in Paths \union {"none"}
        BY Zenon DEF SessTypeOK
      <4> QED
        BY Zenon, <3>1, <4>1 DEF Paths, Removing
    <3>5. job[p][2] = "final" => dir[d] # "working"
      BY Zenon, <3>2, <3>4 DEF FinalInv, Finalized
    <3>6. job[p][2] = "working" => dir[d] # "final"
      BY Zenon, <3>2, <3>4 DEF AbandonedInv, Unfinished
    <3>3. dir[d] # job[p][2] => dir[d] = "none"
      BY Zenon, <3>2, <3>4, <3>5, <3>6 DEF Paths
    <3> QED
      BY Zenon, <3>1, <3>2, <3>3 DEF Files
  <2> QED
    BY Zenon, <2>1, <2>2
<1>5. \A r \in Processes : pc'[r] \in {"unlink", "unlock_only"} => job'[r][1] \in D
  <2>1. ASSUME NEW r \in Processes, r # p, pc'[r] \in {"unlink", "unlock_only"} PROVE job'[r][1] \in D
    <3>1. pc[r] \in {"unlink", "unlock_only"} /\ job'[r] = job[r]
      BY Zenon, <2>1 DEF Others
    <3>2. job[r][1] \in D
      BY Zenon, <3>1, Works DEF Removing
    <3> QED
      BY Zenon, <3>1, <3>2
  <2>2. ASSUME pc'[p] \in {"unlink", "unlock_only"} PROVE job'[p][1] \in D
    BY Zenon, <2>2, Works DEF Flow, Tasks, Busy, Removing
  <2> QED
    BY Zenon, <2>1, <2>2
<1> QED
  BY Zenon, <1>1, <1>2, <1>3, <1>4, <1>5 DEF LockFileInv

(* No collection removes the newest finalized directory. *)
LEMMA NewestStep ==
  ASSUME SessTypeOK, SessTypeOK', JobInv, HoldInv, FreshInv, LiveInv, FinalInv, LockFileInv,
         NewestInv, ~ slow, NEW p \in Processes, Others(p), Files(p), Times(p), Lists(p),
         Tasks(p), Flow(p)
  PROVE  NewestInv'
<1>1. newest \in Nat /\ newest' \in Nat /\ newest <= newest' /\ D \subseteq Nat
  BY DEF SessTypeOK, Times, D
<1>2. NewestKept'
  <2> SUFFICES ASSUME NEW d \in D, newest' = d
               PROVE  dir'[d] = "final" /\ d \notin damaged' /\ d \in lockfile'
    BY Zenon DEF NewestKept, SessTypeOK
  <2>1. CASE newest = d
    <3>1. dir[d] = "final" /\ d \notin damaged /\ d \in lockfile
      BY Zenon, <2>1, SessionNumbers DEF NewestInv, NewestKept
    <3>2. pc[p] \in Removing /\ job[p][2] = "final" => job[p][1] # d
      <4>1. pc[p] \in Removing /\ job[p][2] = "final" => job[p][4] = "delete"
        BY Zenon, Works DEF JobInv, JobOK, LockFileInv
      <4>2. pc[p] \in Removing /\ job[p][4] = "delete" => job[p][1] < newest
        BY Zenon DEF NewestInv
      <4>3. ~ (newest < newest)
        BY <1>1
      <4> QED
        BY Zenon, <2>1, <4>1, <4>2, <4>3
    <3>3. ~ (pc[p] = "unlink" /\ job[p][1] = d)
      BY Zenon, <3>1 DEF LockFileInv
    <3>4. ~ (pc[p] = "create" /\ cur[p] = d)
      BY Zenon, <3>1 DEF FreshInv
    <3> QED
      BY Zenon, <3>1, <3>2, <3>3, <3>4 DEF Files, Removing
  <2>2. CASE newest # d
    <3>1. pc[p] = "compile" /\ cur[p] = d /\ dir'[d] = "final"
      BY Zenon, <2>2 DEF Times
    <3>2. Own(p, d)
      BY Zenon, <3>1 DEF HoldInv, Holds, Own, Deleting, Session, Removing
    <3>3. d \in lockfile /\ d \notin damaged
      BY Zenon, <3>1, <3>2 DEF LiveInv
    <3> QED
      BY Zenon, <3>1, <3>3 DEF Files
  <2> QED
    BY Zenon, <2>1, <2>2
<1>3. ASSUME NEW r \in Processes,
             pc'[r] = "delete" \/ (pc'[r] \in Removing /\ job'[r][4] = "delete")
      PROVE  /\ \A d \in candidates'[r] : d < newest
             /\ pc'[r] \in Removing => job'[r][1] < newest
  <2>1. CASE r # p
    BY Zenon, <1>3, <2>1 DEF Others, NewestInv
  <2>2. CASE r = p /\ pc'[p] = "delete"
    <3>1. CASE pc[p] = "collect" /\ \A d \in candidates'[p] : \E e \in candidates[p] : d < e
      <4>1. \A e \in candidates[p] : e \in D /\ e <= newest
        BY Zenon DEF SessTypeOK, FinalInv, Finalized
      <4>2. \A d \in candidates'[p] : d \in D
        BY Zenon DEF SessTypeOK
      <4>3. ASSUME NEW d \in candidates'[p] PROVE d < newest
        <5>1. PICK e \in candidates[p] : d < e
          BY Zenon, <3>1
        <5>2. d \in Nat /\ e \in Nat /\ e <= newest
          BY Zenon, <1>1, <4>1, <4>2
        <5> QED
          BY <1>1, <5>1, <5>2
      <4> QED
        BY Zenon, <2>2, <4>3 DEF Removing
    <3>2. CASE pc[p] \in Removing /\ job[p][4] = "delete"
      BY Zenon, <2>2, <3>2 DEF Lists, NewestInv, Removing
    <3> QED
      BY Zenon, <2>2, <3>1, <3>2 DEF Flow
  <2>3. CASE r = p /\ pc'[p] \in Removing /\ job'[p][4] = "delete"
    <3>1. CASE pc[p] \in Busy /\ job'[p] = job[p]
      <4>1. pc[p] \in Removing /\ job[p][4] = "delete"
        BY Zenon, <2>3, <3>1 DEF Busy, JobInv, JobOK
      <4>2. candidates'[p] = candidates[p]
        BY Zenon, <2>3, <4>1 DEF Lists, Removing
      <4> QED
        BY Zenon, <2>3, <3>1, <4>1, <4>2 DEF NewestInv
    <3>2. orphans[p] = {} /\ pc'[p] \in Busy /\ pc'[p] # "flock"
      BY Zenon, <2>3 DEF LockFileInv, Busy, Removing
    <3>3. CASE /\ pc[p] = "delete"
               /\ \E d \in candidates[p] : /\ IsJob(job'[p], d, "final", "unlink", "delete")
                                           /\ candidates'[p] = candidates[p] \ {d}
      BY Zenon, <2>3, <3>3 DEF NewestInv, IsJob
    <3> QED
      BY Zenon, <2>3, <3>1, <3>2, <3>3 DEF Tasks, IsJob
  <2> QED
    BY Zenon, <1>3, <2>1, <2>2, <2>3
<1>4. \A r \in Processes : candidates'[r] \subseteq Nat /\ job'[r][1] \in Nat
  <2>1. 0 \in Nat
    OBVIOUS
  <2>2. \A r \in Processes : candidates'[r] \subseteq D /\ job'[r][1] \in D \union {0}
    BY Zenon DEF SessTypeOK
  <2> QED
    BY Zenon, <1>1, <2>1, <2>2
<1>6. \A n \in Nat : n < newest => n < newest'
  BY <1>1
<1>5. ASSUME NEW r \in Processes,
             pc'[r] = "delete" \/ (pc'[r] \in Removing /\ job'[r][4] = "delete")
      PROVE  /\ \A d \in candidates'[r] : d < newest'
             /\ pc'[r] \in Removing => job'[r][1] < newest'
  BY Zenon, <1>3, <1>4, <1>5, <1>6
<1> QED
  BY Zenon, <1>2, <1>5 DEF NewestInv

(* A process that copies has the shared lock of the directory it copies. *)
LEMMA Copies ==
  ASSUME SessTypeOK, HoldInv, NEW p \in Processes, pc[p] \in {"read", "copy"}
  PROVE  src[p] \in D /\ p \in shared[src[p]]
<1>1. src[p] \in D \union {0}
  BY Zenon DEF SessTypeOK
<1>2. Holds(p)
  BY Zenon DEF HoldInv
<1> QED
  BY Zenon, <1>1, <1>2 DEF Holds

(* A shared lock keeps the deletion of a locked directory out. *)
LEMMA NotDeleted ==
  ASSUME HoldInv, NEW q \in Processes, NEW d \in D, shared[d] # {}
  PROVE  ~ Deleting(q, d)
<1>1. Holds(q) /\ excl[d] = None
  BY Zenon DEF HoldInv
<1> QED
  BY Zenon, <1>1, SessionAssumption DEF Holds

(* No collection removes the directory another process copies. *)
LEMMA CopyStep ==
  ASSUME SessTypeOK, JobInv, HoldInv, FreshInv, LockFileInv, CopyInv,
         NEW p \in Processes, Others(p), Files(p), Flow(p)
  PROVE  CopyInv'
<1> SUFFICES ASSUME NEW r \in Processes, pc'[r] = "copy" PROVE dir'[src'[r]] = "final"
  BY Zenon DEF CopyInv
<1>1. CASE r # p
  <2>1. pc[r] = "copy" /\ src'[r] = src[r]
    BY Zenon, <1>1 DEF Others
  <2>2. src[r] \in D /\ r \in shared[src[r]] /\ dir[src[r]] = "final"
    BY Zenon, <2>1, Copies DEF CopyInv
  <2>4. ~ (pc[p] = "rmdir" /\ job[p][1] = src[r])
    BY Zenon, <2>2, NotDeleted DEF LockFileInv, Deleting, Removing
  <2>5. ~ (pc[p] = "create" /\ cur[p] = src[r])
    BY Zenon, <2>2 DEF FreshInv
  <2> QED
    BY Zenon, <2>1, <2>2, <2>4, <2>5 DEF Files
<1>2. CASE r = p
  <2>1. pc[p] = "read" /\ src'[p] = src[p] /\ dir[src[p]] = "final" /\ src[p] \in D
    BY Zenon, <1>2, Copies DEF Flow
  <2> QED
    BY Zenon, <1>2, <2>1 DEF Files
<1> QED
  BY Zenon, <1>1, <1>2

-------------------------------------------------------------------------------
(* Every action keeps the invariant of long sessions, *)
LEMMA SessInvStep ==
  ASSUME SessInv, slow' = slow, NEW p \in Processes, Act(p)
  PROVE  SessInv' /\ Frame(p)
<1>1. SessTypeOK /\ JobInv /\ HoldInv /\ TimeInv /\ FreshInv /\ LiveInv
  BY Zenon DEF SessInv
<1>2. Others(p) /\ Locks(p) /\ Keeps(p) /\ Files(p)
  BY Zenon, <1>1, OthersStep, LocksStep, KeepsStep, FilesStep
<1>3. Times(p) /\ Lists(p) /\ Tasks(p) /\ Flow(p)
  BY Zenon, <1>1, TimesStep, ListsStep, TasksStep, FlowStep
<1>4. SessTypeOK' /\ JobInv'
  BY Zenon, <1>1, <1>2, <1>3, TypeStep, JobStep
<1>5. HoldInv'
  BY Zenon, <1>1, <1>2, <1>4, OwnHold, OthersHold
<1>6. TimeInv' /\ FreshInv'
  BY Zenon, <1>1, <1>2, <1>3, <1>4, TimeStep, FreshStep
<1>7. LiveInv'
  BY Zenon, <1>1, <1>2, <1>3, <1>4, <1>6, LiveStep
<1> QED
  BY Zenon, <1>2, <1>3, <1>4, <1>5, <1>6, <1>7 DEF SessInv, Frame

(* and, unless slow, the rest of it. *)
LEMMA ShortInvStep ==
  ASSUME SessInv, SessInv', ShortInv, ~ slow, NEW p \in Processes, Frame(p)
  PROVE  ShortInv'
<1>1. /\ SessTypeOK /\ JobInv /\ HoldInv /\ TimeInv /\ FreshInv /\ LiveInv
      /\ SessTypeOK' /\ TimeInv' /\ FreshInv'
  BY Zenon DEF SessInv
<1>2. FinalInv /\ AbandonedInv /\ LockFileInv /\ NewestInv /\ CopyInv
  BY Zenon DEF ShortInv
<1>3. /\ Others(p) /\ Locks(p) /\ Keeps(p) /\ Files(p)
      /\ Times(p) /\ Lists(p) /\ Tasks(p) /\ Flow(p)
  BY Zenon DEF Frame
<1>4. FinalInv'
  BY Zenon, <1>1, <1>2, <1>3, FinalStep
<1>5. AbandonedInv'
  BY Zenon, <1>1, <1>2, <1>3, AbandonedStep
<1>6. LockFileInv'
  BY Zenon, <1>1, <1>2, <1>3, LockFileStep
<1>7. NewestInv'
  BY Zenon, <1>1, <1>2, <1>3, NewestStep
<1>8. CopyInv'
  BY Zenon, <1>1, <1>2, <1>3, CopyStep
<1> QED
  BY Zenon, <1>4, <1>5, <1>6, <1>7, <1>8 DEF ShortInv

(* The invariant holds at first: whatever earlier compilers have left. *)
LEMMA SessionInit == SessInit => SessionInv
<1> SUFFICES ASSUME SessInit PROVE SessionInv
  OBVIOUS
<1> DEFINE finals == {d \in D : dir[d] = "final"} \union {0}
<1>1. finals \in SUBSET (0..Dirs) /\ finals # {} /\ newest = Max(finals)
  BY SessionAssumption DEF SessInit, D
<1>2. newest \in finals /\ \A d \in finals : d <= newest
  BY Zenon, <1>1, MaxFacts
<1>3. SessTypeOK
  BY <1>2, SessionAssumption DEF SessInit, SessTypeOK, NoJob, Control, Paths, D
<1>4. /\ next = Earlier + 1 /\ Earlier \in Nat /\ \A d \in D : dir[d] # "none" => d <= Earlier
  BY SessionAssumption DEF SessInit, D
<1>5. \A p \in Processes :
        /\ pc[p] = "start" /\ cur[p] = 0 /\ src[p] = 0 /\ job[p] = NoJob
        /\ orphans[p] = {} /\ pairs[p] = {} /\ candidates[p] = {}
  BY Zenon DEF SessInit
<1>6. \A p \in Processes, d \in D : ~ Seen(p, d) /\ ~ Own(p, d)
  <2>1. NoJob[1] = 0 /\ 0 \notin D
    BY Zenon, SessionNumbers
  <2> QED
    BY Zenon, <1>5, <2>1 DEF Seen, Listed, Own
<1>7. JobInv
  BY Zenon, <1>5 DEF JobInv, JobOK, Removing
<1>8. HoldInv
  BY Zenon, <1>5 DEF HoldInv, Holds, SessInit, Deleting, Session, Removing
<1>9. TimeInv
  <2>1. newest < next /\ aged < next
    BY <1>2, <1>4 DEF D, SessInit
  <2>2. ASSUME NEW d \in D, d >= next
        PROVE  dir[d] = "none" /\ excl[d] = None /\ d \notin lockfile /\ d \notin damaged
    BY <2>2, <1>4 DEF SessInit, D
  <2> QED
    BY <1>4, <1>5, <1>6, <2>1, <2>2, SMTT(30) DEF TimeInv
<1>10. FreshInv /\ LiveInv
  BY Zenon, <1>5, <1>6 DEF FreshInv, LiveInv
<1>11. FinalInv
  BY Zenon, <1>2, <1>5 DEF FinalInv, Finalized, Removing
<1>12. AbandonedInv
  BY Zenon, <1>5, <1>6 DEF AbandonedInv, NoOwner, Unfinished, Removing
<1>13. LockFileInv
  <2>1. \A d \in D : dir[d] # "none" => d \in lockfile
    BY <1>4 DEF SessInit, D
  <2> QED
    BY Zenon, <2>1, <1>5 DEF LockFileInv, Removing
<1>14. NewestInv
  <2>1. NewestKept
    BY Zenon, <1>2, <1>13 DEF NewestKept, LockFileInv, SessInit
  <2> QED
    BY Zenon, <2>1, <1>5 DEF NewestInv, Removing
<1>15. CopyInv
  BY Zenon, <1>5 DEF CopyInv
<1> QED
  BY Zenon, <1>3, <1>7, <1>8, <1>9, <1>10, <1>11, <1>12, <1>13, <1>14, <1>15
  DEF SessionInv, SessInv, ShortInv

(* The invariant depends on these variables only. *)
LEMMA SessionStutter ==
  ASSUME SessionInv, UNCHANGED <<sessVars, slow>>
  PROVE  SessionInv'
<1> USE DEF sessVars, files, locks, clock, prepVars, gcVars
<1>1. SessTypeOK' <=> SessTypeOK
  BY Zenon DEF SessTypeOK
<1>2. JobInv' <=> JobInv
  BY Zenon DEF JobInv, JobOK
<1>3. HoldInv' <=> HoldInv
  BY DEF HoldInv, Holds, Deleting
<1>4. TimeInv' <=> TimeInv
  BY Zenon DEF TimeInv, Seen, Listed
<1>5. FreshInv' <=> FreshInv
  BY DEF FreshInv, Seen, Listed
<1>6. LiveInv' <=> LiveInv
  BY SMTT(30) DEF LiveInv, Own, Deleting, Sweeping
<1>7. FinalInv' <=> FinalInv
  BY Zenon DEF FinalInv, Finalized
<1>8. AbandonedInv' <=> AbandonedInv
  BY DEF AbandonedInv, NoOwner, Unfinished, Own, Deleting
<1>9. (LockFileInv' <=> LockFileInv) /\ (CopyInv' <=> CopyInv)
  BY Zenon DEF LockFileInv, CopyInv
<1>10. NewestInv' <=> NewestInv
  BY Zenon DEF NewestInv, NewestKept
<1> QED
  BY Zenon, <1>1, <1>2, <1>3, <1>4, <1>5, <1>6, <1>7, <1>8, <1>9, <1>10
  DEF SessionInv, SessInv, ShortInv

-------------------------------------------------------------------------------
(* The invariant: whoever runs, whatever is cut short, and however long      *)
(* sessions last, the lock of a session protects its directory and its lock  *)
(* file; and if none becomes ten seconds old while it is pending, what a     *)
(* collection finds to be old was given up, every directory has its lock     *)
(* file, and no candidate for deletion is the newest.                        *)
THEOREM SessionInvariant == SessSpec => []SessionInv
<1>1. SessInit => SessionInv
  BY Zenon, SessionInit
<1>2. SessionInv /\ [SessNext]_<<sessVars, alone, slow>> => SessionInv'
  <2> SUFFICES ASSUME SessionInv, [SessNext]_<<sessVars, alone, slow>> PROVE SessionInv'
    OBVIOUS
  <2>1. CASE UNCHANGED <<sessVars, slow>>
    BY Zenon, <2>1, SessionStutter
  <2>2. ASSUME NEW p \in Processes, Act(p), slow' = slow PROVE SessionInv'
    <3>1. SessInv /\ (~ slow => ShortInv)
      BY Zenon DEF SessionInv
    <3>2. SessInv' /\ Frame(p)
      BY Zenon, <2>2, <3>1, SessInvStep
    <3>3. ~ slow => ShortInv'
      BY Zenon, <3>1, <3>2, ShortInvStep
    <3> QED
      BY Zenon, <2>2, <3>2, <3>3 DEF SessionInv
  <2> QED
    BY Zenon, <2>1, <2>2 DEF SessNext, Act
<1> QED
  BY <1>1, <1>2, PTL DEF SessSpec

(* Nobody removes the directory or the lock file of a session in progress,   *)
(* however long it lasts: the lock of prepare_session_directory is enough.   *)
THEOREM SessionsAreKept == SessSpec => []LiveIsKept
<1>1. SessionInv => LiveIsKept
  <2> SUFFICES ASSUME SessionInv, NEW p \in Processes,
                      pc[p] \in {"find", "open", "share", "read", "copy", "compile"}
               PROVE  dir[cur[p]] = "working" /\ cur[p] \in lockfile /\ cur[p] \notin damaged
    BY Zenon DEF LiveIsKept
  <2>1. SessTypeOK /\ HoldInv /\ LiveInv
    BY Zenon DEF SessionInv, SessInv
  <2>2. cur[p] \in D
    <3>1. Holds(p) /\ cur[p] \in D \union {0}
      BY Zenon, <2>1 DEF SessTypeOK, HoldInv
    <3> QED
      BY Zenon, <3>1 DEF Holds
  <2>3. Own(p, cur[p])
    BY Zenon, <2>1, <2>2 DEF HoldInv, Holds, Own, Deleting, Session, Removing
  <2> QED
    BY Zenon, <2>1, <2>2, <2>3 DEF LiveInv
<1> QED
  BY <1>1, SessionInvariant, PTL

(* If no session becomes ten seconds old while it is pending, nobody removes *)
(* the directory copy_files copies: its shared lock keeps every collection   *)
(* out.                                                                      *)
THEOREM CopiesAreUndisturbed == SessSpec => []UndisturbedCopy
<1>1. SessionInv => UndisturbedCopy
  <2> SUFFICES ASSUME SessionInv, ~ slow, NEW p \in Processes, NEW q \in Processes,
                      pc[p] = "copy"
               PROVE  /\ dir[src[p]] = "final"
                      /\ ~ (pc[q] \in {"remove", "rmdir"} /\ job[q][1] = src[p])
    BY Zenon DEF UndisturbedCopy
  <2>1. SessTypeOK /\ HoldInv /\ LockFileInv /\ CopyInv
    BY Zenon DEF SessionInv, SessInv, ShortInv
  <2>2. src[p] \in D /\ p \in shared[src[p]]
    BY Zenon, <2>1, Copies
  <2>4. ~ Deleting(q, src[p])
    BY Zenon, <2>1, <2>2, NotDeleted
  <2> QED
    BY Zenon, <2>1, <2>4 DEF CopyInv, LockFileInv, Deleting, Removing
<1> QED
  BY <1>1, SessionInvariant, PTL

(* And the newest finalized directory then survives every collection, the    *)
(* ones that run at the same time and the ones that end in the middle        *)
(* included.                                                                 *)
THEOREM NewestIsKept == SessSpec => []NewestKept
<1>1. SessionInv => NewestKept
  BY Zenon DEF SessionInv, ShortInv, NewestInv, NewestKept
<1> QED
  BY <1>1, SessionInvariant, PTL

-------------------------------------------------------------------------------
(* Every lock is held for a purpose: for the session of the process, as that *)
(* of a candidate or of what it removes; a shared one for the source.        *)
Accounted(q) ==
  \A d \in D :
    /\ excl[d] = q =>
         \/ cur[q] = d /\ pc[q] \notin {"start", "retry", "lock", "ended"}
         \/ d \in candidates[q] \/ Deleting(q, d)
    /\ q \in shared[d] => pc[q] \in {"read", "copy", "failed"} /\ src[q] = d

HeldInv == \A q \in Processes : Accounted(q)

(* The two halves of a collection. *)
Gathering(p) == pc[p] \in {"collect", "flock"} \/ (pc[p] \in Removing /\ job[p][4] = "collect")
Pruning(p) == pc[p] = "delete" \/ (pc[p] \in Removing /\ job[p][4] = "delete")

(* p is still going to make d a candidate, or it is one; and it is still going *)
(* to remove it.                                                               *)
Awaits(p, d) ==
  \/ <<d, "final">> \in pairs[p] \/ d \in candidates[p]
  \/ pc[p] = "flock" /\ job[p][1] = d /\ job[p][2] = "final"
Doomed(p, d) == d \in candidates[p] \/ Deleting(p, d)

(* A collection of p during which the others rest misses no directory. *)
Complete(p) ==
  /\ Gathering(p) \/ Pruning(p) => \A q \in Processes \ {p} : pc[q] \in Resting
  /\ Gathering(p) => \A d \in D : dir[d] = "final" => Awaits(p, d)
  /\ Pruning(p) => \A d \in D : dir[d] = "final" => d = newest \/ Doomed(p, d)

AloneInv == \A p \in Processes : alone = p => Complete(p)

(* What holds, beyond SessionInv, of locks and of undisturbed collections. *)
CollectInv == HeldInv /\ (~ slow => AloneInv)

(* A step of p gives up the locks it has no use for, *)
Returns(p) ==
  /\ pc'[p] # "start"
  /\ pc'[p] \in {"retry", "ended"} /\ pc[p] # "lock" => excl'[cur[p]] # p
  /\ \A d \in D : p \in shared'[d] => pc'[p] \in {"read", "copy", "failed"} /\ src'[p] = d

(* and goes on with its collection. *)
Collects(p) ==
  /\ Gathering(p)' =>
       \/ /\ pc[p] = "list"
          /\ \A d \in D : dir[d] = "final" /\ d \in lockfile => <<d, "final">> \in pairs'[p]
       \/ /\ Gathering(p) /\ candidates[p] \subseteq candidates'[p]
          /\ \A d \in D : Awaits(p, d) /\ d \in lockfile =>
               Awaits(p, d)' \/ (pc[p] = "flock" /\ job[p][1] = d /\ ~ CanLock(d))
  /\ Pruning(p)' =>
       \/ /\ pc[p] = "collect" /\ pairs[p] = {}
          /\ \A d \in candidates[p] : d \in candidates'[p] \/ d = Max(candidates[p])
       \/ /\ Pruning(p)
          /\ \A d \in D : Doomed(p, d) => Doomed(p, d)' \/ (pc[p] \in {"unlink", "unlock_only"} /\ job[p][1] = d)

(* Each action of a session keeps a shared lock only while it copies, and its *)
(* own only while the session lasts.                                          *)
LEMMA ReturnsStep ==
  ASSUME SessTypeOK, JobInv, HoldInv, NEW p \in Processes, Accounted(p), Act(p)
  PROVE  Returns(p)
<1> USE DEF Go, files, locks, clock, prepVars, gcVars
<1>0. /\ p # None /\ pc \in [Processes -> Control] /\ src \in [Processes -> D \union {0}]
      /\ excl \in [D -> Processes \union {None}] /\ shared \in [D -> SUBSET Processes]
  BY Zenon, SessionAssumption DEF SessTypeOK
<1>s. ASSUME pc'[p] \notin {"start", "retry", "ended"},
             pc[p] \notin {"read", "copy", "failed"},
             \A d \in D : shared'[d] \subseteq shared[d]
      PROVE  Returns(p)
  BY Zenon, <1>s DEF Returns, Accounted
<1>1. ASSUME generate(p) \/ create_dir(p) \/ find_source_directory(p) \/ copy_open(p)
     PROVE Returns(p)
  <2>1. pc'[p] \in {"lock", "find", "list", "open", "share", "failed"} /\ shared' = shared
        /\ pc[p] \in {"start", "retry", "create", "find", "open"}
    BY Zenon, <1>0, <1>1 DEF generate, create_dir, find_source_directory, copy_open, Open
  <2> QED
    BY Zenon, <2>1, <1>s
<1>2. ASSUME lock_directory(p) PROVE Returns(p)
  <2>1. pc[p] = "lock" /\ pc'[p] \in {"create", "ended"} /\ shared' = shared
    BY Zenon, <1>0, <1>2 DEF lock_directory, Lock
  <2> QED
    BY Zenon, <2>1 DEF Returns, Accounted
<1>3. ASSUME copy_lock(p) PROVE Returns(p)
  <2>1. pc[p] = "share" /\ src' = src /\ pc'[p] \in {"read", "failed"}
    BY Zenon, <1>0, <1>3 DEF copy_lock
  <2>2. \A d \in D : p \in shared'[d] /\ p \notin shared[d] => d = src[p] /\ pc'[p] = "read"
    BY Zenon, <1>0, <1>3 DEF copy_lock
  <2> QED
    BY Zenon, <2>1, <2>2 DEF Returns, Accounted
<1>4. ASSUME copy_read(p) \/ copy_error(p) PROVE Returns(p)
  <2>1. shared' = shared /\ src' = src /\ pc'[p] \in {"copy", "failed"}
    BY Zenon, <1>0, <1>4 DEF copy_read, copy_error
  <2> QED
    BY Zenon, <2>1 DEF Returns, Accounted
<1>5. ASSUME copy_files(p) \/ copy_failed(p) PROVE Returns(p)
  <2>1. pc'[p] \in {"list", "remove"} /\ Unlock(p, src[p])
    BY Zenon, <1>0, <1>5 DEF copy_files, copy_failed, Remove
  <2>2. \A d \in D : p \in shared'[d] => p \in shared[d] /\ d # src[p]
    BY Zenon, <2>1, <1>0 DEF Unlock
  <2> QED
    BY Zenon, <2>1, <2>2 DEF Returns, Accounted
<1>6. ASSUME finalize(p) \/ finalize_errors(p) \/ remove_files(p) \/ remove_dir(p)
     PROVE Returns(p)
  <2>1. job[p][3] \in {"unlink", "collect"} \/ pc[p] = "compile"
    BY Zenon, <1>6, Works DEF finalize, finalize_errors, remove_files, remove_dir, Removing
  <2>2. /\ pc[p] \in {"compile", "remove", "rmdir"} /\ shared' = shared
        /\ pc'[p] \in {"unlock", "remove", "rmdir", "unlink", "collect", "unlock_only"}
    BY Zenon, <1>0, <1>6, <2>1 DEF finalize, finalize_errors, remove_files, remove_dir, Remove
  <2> QED
    BY Zenon, <2>2, <1>s
<1>7. ASSUME finalize_incr_comp_session(p) \/ gc_spare(p) PROVE Returns(p)
  <2>1. /\ pc[p] \in {"unlock", "collect"} /\ pc'[p] \in {"list", "delete"}
        /\ shared' = shared \/ \E d : Unlock(p, d)
    BY Zenon, <1>0, <1>7 DEF finalize_incr_comp_session, gc_spare
  <2>2. \A d \in D : shared'[d] \subseteq shared[d]
    BY Zenon, <2>1, <1>0 DEF Unlock
  <2> QED
    BY Zenon, <2>1, <2>2, <1>s
<1>8. ASSUME delete_session_dir_lock_file(p) PROVE Returns(p)
  <2>1. /\ pc[p] \in {"unlink", "unlock_only"} /\ pc'[p] = job[p][4]
        /\ Unlock(p, job[p][1])
    BY Zenon, <1>0, <1>8 DEF delete_session_dir_lock_file
  <2>2. job[p][1] \in D /\ job[p][4] \in {"retry", "list", "collect", "delete"}
    BY Zenon, <2>1, Works DEF Removing
  <2>3. /\ \A d \in D : shared'[d] \subseteq shared[d]
        /\ excl'[job[p][1]] # p
    BY Zenon, <2>1, <2>2, <1>0 DEF Unlock
  <2>4. pc'[p] = "retry" => job[p][1] = cur[p]
    BY Zenon, <2>1, <2>2 DEF JobInv, JobOK, Removing
  <2> QED
    BY Zenon, <2>1, <2>2, <2>3, <2>4 DEF Returns, Accounted
<1>9. ASSUME gc_list(p) \/ gc_orphan(p) \/ gc_open(p) \/ gc_lock(p) \/ gc_delete(p)
     PROVE Returns(p)
  <2>1. /\ pc[p] \in {"list", "collect", "flock", "delete"} /\ shared' = shared
        /\ pc'[p] \in {"collect", "remove", "flock"}
    BY Zenon, <1>0, <1>9 DEF gc_list, gc_orphan, gc_open, gc_lock, gc_delete, Lock, Open, Remove
  <2> QED
    BY Zenon, <2>1, <1>s
<1>10. ASSUME gc_end(p) PROVE Returns(p)
  <2>1. /\ pc[p] = "delete" /\ shared' = shared /\ excl' = excl
        /\ pc'[p] = IF excl[cur[p]] = p THEN "compile" ELSE "ended"
    BY Zenon, <1>0, <1>10 DEF gc_end
  <2> QED
    BY Zenon, <2>1 DEF Returns, Accounted
<1>11. ASSUME exit(p) PROVE Returns(p)
  <2>1. /\ pc'[p] = "ended" /\ pc[p] # "start"
        /\ \A d \in D : p \notin shared'[d] /\ excl'[d] # p
    BY Zenon, <1>0, <1>11 DEF exit
  <2>2. cur[p] \in D
    <3>1. Holds(p) /\ cur[p] \in D \union {0}
      BY Zenon DEF SessTypeOK, HoldInv
    <3> QED
      BY Zenon, <2>1, <3>1 DEF Holds
  <2> QED
    BY Zenon, <2>1, <2>2 DEF Returns
<1> HIDE DEF Go, files, locks, clock, prepVars, gcVars
<1> QED
  BY Zenon, <1>1, <1>2, <1>3, <1>4, <1>5, <1>6, <1>7, <1>8, <1>9, <1>10, <1>11 DEF Act, Step

(* So the locks stay accounted for. *)
LEMMA HeldStep ==
  ASSUME SessInv, HeldInv, NEW p \in Processes, Act(p), Frame(p)
  PROVE  HeldInv'
<1>1. Others(p) /\ Locks(p) /\ Keeps(p) /\ Times(p) /\ Flow(p)
  BY Zenon DEF Frame
<1>2. Returns(p)
  BY Zenon, ReturnsStep DEF SessInv, HeldInv
<1>3. ASSUME NEW q \in Processes, q # p PROVE Accounted(q)'
  <2>1. /\ pc'[q] = pc[q] /\ cur'[q] = cur[q] /\ src'[q] = src[q]
        /\ candidates'[q] = candidates[q] /\ job'[q] = job[q]
    BY Zenon, <1>1, <1>3 DEF Others
  <2>2. \A d \in D : (excl'[d] = q => excl[d] = q) /\ (q \in shared'[d] => q \in shared[d])
    BY Zenon, <1>1, <1>3, SessionAssumption DEF Locks
  <2>3. Accounted(q) /\ \A d \in D : Deleting(q, d) => Deleting(q, d)'
    BY Zenon, <2>1 DEF HeldInv, Deleting
  <2> QED
    BY Zenon, <2>1, <2>2, <2>3 DEF Accounted
<1>4. ASSUME NEW d \in D, excl'[d] = p
     PROVE  \/ cur'[p] = d /\ pc'[p] \notin {"start", "retry", "lock", "ended"}
            \/ d \in candidates'[p] \/ Deleting(p, d)'
  <2>1. CASE excl[d] # p
    <3>1. (pc[p] = "lock" /\ d = cur[p]) \/ pc[p] = "flock"
      BY Zenon, <1>1, <1>4, <2>1, SessionAssumption DEF Locks
    <3>2. CASE pc[p] = "lock" /\ d = cur[p]
      BY Zenon, <1>1, <1>4, <2>1, <3>2 DEF Flow, Times
    <3>3. CASE pc[p] = "flock"
      BY Zenon, <1>1, <1>4, <2>1, <3>3 DEF Keeps
    <3> QED
      BY Zenon, <3>1, <3>2, <3>3
  <2>2. CASE excl[d] = p /\ (d \in candidates[p] \/ Deleting(p, d))
    BY Zenon, <1>1, <1>4, <2>2 DEF Keeps
  <2>3. CASE excl[d] = p /\ cur[p] = d /\ pc[p] \notin {"start", "retry", "lock", "ended"}
    BY Zenon, <1>1, <1>2, <1>4, <2>3 DEF Times, Returns
  <2> QED
    BY Zenon, <2>1, <2>2, <2>3 DEF HeldInv, Accounted
<1>5. Accounted(p)'
  BY Zenon, <1>2, <1>4 DEF Returns, Accounted
<1> QED
  BY Zenon, <1>3, <1>5 DEF HeldInv

(* Only the listing begins a collection, and no step of one forgets a        *)
(* directory: what cannot be locked, the most recent and what is removed are *)
(* the only ones it is done with.                                            *)
LEMMA CollectsStep ==
  ASSUME SessTypeOK, JobInv, HoldInv, NEW p \in Processes, Act(p), Tasks(p)
  PROVE  Collects(p)
<1> USE DEF Go, files, locks, clock, prepVars, gcVars
<1>0. /\ pc \in [Processes -> Control] /\ candidates \in [Processes -> SUBSET D]
      /\ pairs \in [Processes -> SUBSET (D \X Paths)]
  BY Zenon DEF SessTypeOK
<1>s. ASSUME pc'[p] \notin {"collect", "flock", "delete"},
             pc[p] \notin Busy \union {"collect", "delete"}
      PROVE  Collects(p)
  <2>1. pc'[p] \in Removing => job'[p][4] \in {"retry", "list"}
    BY Zenon, <1>s DEF Tasks, IsJob, Busy
  <2> QED
    BY Zenon, <1>s, <2>1 DEF Collects, Gathering, Pruning
<1>1. ASSUME \/ generate(p) \/ lock_directory(p) \/ create_dir(p) \/ find_source_directory(p)
             \/ copy_open(p) \/ copy_lock(p)
     PROVE Collects(p)
  <2>1. /\ pc[p] \in {"start", "retry", "lock", "create", "find", "open", "share"}
        /\ pc'[p] \in {"lock", "create", "ended", "find", "list", "open", "share", "failed", "read"}
    BY Zenon, <1>0, <1>1
    DEF generate, lock_directory, create_dir, find_source_directory, copy_open, copy_lock, Open
  <2> QED
    BY Zenon, <2>1, <1>s DEF Busy, Removing
<1>2. ASSUME \/ copy_read(p) \/ copy_files(p) \/ copy_error(p) \/ copy_failed(p)
             \/ finalize(p) \/ finalize_errors(p) \/ finalize_incr_comp_session(p)
     PROVE Collects(p)
  <2>1. /\ pc[p] \in {"read", "copy", "failed", "compile", "unlock"}
        /\ pc'[p] \in {"copy", "failed", "list", "remove", "unlock"}
    BY Zenon, <1>0, <1>2
    DEF copy_read, copy_files, copy_error, copy_failed, finalize, finalize_errors,
        finalize_incr_comp_session, Remove
  <2> QED
    BY Zenon, <2>1, <1>s DEF Busy, Removing
<1>3. ASSUME remove_files(p) \/ remove_dir(p) PROVE Collects(p)
  <2>1. /\ pc[p] \in {"remove", "rmdir"}
        /\ pairs' = pairs /\ candidates' = candidates /\ job' = job
    BY Zenon, <1>3 DEF remove_files, remove_dir
  <2>2. job[p][3] \in {"unlink", "collect"} /\ (job[p][3] = "collect" => job[p][4] = "collect")
    BY Zenon, <2>1, Works DEF JobInv, JobOK, Removing
  <2>3. pc'[p] \in Removing \/ (pc'[p] = "collect" /\ job[p][4] = "collect")
    <3>1. pc'[p] \in {"rmdir", "unlock_only", job[p][3]}
      BY Zenon, <1>0, <1>3 DEF remove_files, remove_dir
    <3> QED
      BY Zenon, <3>1, <2>2 DEF Removing
  <2> QED
    BY Zenon, <2>1, <2>3 DEF Collects, Gathering, Pruning, Awaits, Doomed, Deleting, Removing
<1>4. ASSUME delete_session_dir_lock_file(p) PROVE Collects(p)
  <2>1. /\ pc[p] \in {"unlink", "unlock_only"} /\ pc'[p] = job[p][4]
        /\ pairs' = pairs /\ candidates' = candidates
    BY Zenon, <1>0, <1>4 DEF delete_session_dir_lock_file
  <2>2. job[p][4] \in {"retry", "list", "collect", "delete"}
    BY Zenon, <2>1, Works DEF Removing
  <2> QED
    BY Zenon, <2>1, <2>2 DEF Collects, Gathering, Pruning, Awaits, Doomed, Deleting, Removing
<1>5. ASSUME gc_list(p) PROVE Collects(p)
  <2>1. pc[p] = "list" /\ pc'[p] = "collect"
    BY Zenon, <1>0, <1>5 DEF gc_list
  <2>2. ASSUME NEW d \in D, dir[d] = "final", d \in lockfile PROVE <<d, "final">> \in pairs'[p]
    <3> DEFINE found == {<<e, dir[e]>> : e \in {e \in D : dir[e] # "none"}}
    <3>1. pairs' = [pairs EXCEPT ![p] = {x \in found : x[1] \in lockfile}]
      BY Zenon, <1>5 DEF gc_list
    <3>2. pairs'[p] = {x \in found : x[1] \in lockfile}
      BY Zenon, <1>0, <3>1
    <3>3. <<d, dir[d]>> \in found /\ <<d, dir[d]>>[1] = d
      BY <2>2
    <3> HIDE DEF found
    <3>4. <<d, dir[d]>> \in pairs'[p]
      BY Zenon, <2>2, <3>2, <3>3
    <3> QED
      BY Zenon, <3>4, <2>2
  <2> QED
    BY Zenon, <2>1, <2>2 DEF Collects, Gathering, Pruning, Removing
<1>6. ASSUME gc_orphan(p) PROVE Collects(p)
  <2>1. /\ pc[p] = "collect" /\ pc'[p] = "remove"
        /\ pairs' = pairs /\ candidates' = candidates
    BY Zenon, <1>0, <1>6 DEF gc_orphan, Remove
  <2>2. job'[p][4] = "collect"
    BY Zenon, <2>1 DEF Tasks, IsJob, Busy, Removing
  <2> QED
    BY Zenon, <2>1, <2>2 DEF Collects, Gathering, Pruning, Awaits, Removing
<1>7. ASSUME gc_open(p) PROVE Collects(p)
  <2>1. PICK x \in pairs[p] :
          /\ pairs' = [pairs EXCEPT ![p] = @ \ {x}]
          /\ \/ /\ job' = [job EXCEPT ![p] = IF x[1] \in lockfile
                             THEN <<x[1], x[2], "unlink", "collect">> ELSE NoJob]
                /\ Open(p, x[1], "flock", "collect")
             \/ x[2] = "working" /\ Go(p, "collect")
    BY Zenon, <1>7 DEF gc_open
  <2>2. pc[p] = "collect" /\ candidates' = candidates
    BY Zenon, <1>7 DEF gc_open
  <2>3. /\ pairs'[p] = pairs[p] \ {x} /\ pc'[p] \in {"flock", "collect"}
        /\ x[1] \in lockfile /\ x[2] = "final" => pc'[p] = "flock"
    BY Zenon, <1>0, <2>1 DEF Open
  <2>4. x[1] \in lockfile /\ x[2] = "final" => job'[p][1] = x[1] /\ job'[p][2] = x[2]
    <3>1. x[1] \in lockfile /\ x[2] = "final" => job'[p] = <<x[1], x[2], "unlink", "collect">>
      BY Zenon, <2>1 DEF SessTypeOK
    <3> QED
      BY <3>1
  <2>5. \A d : <<d, "final">> = x => x[1] = d /\ x[2] = "final"
    OBVIOUS
  <2>6. \A d \in D : Awaits(p, d) /\ d \in lockfile => Awaits(p, d)'
    BY Zenon, <2>2, <2>3, <2>4, <2>5 DEF Awaits
  <2> QED
    BY Zenon, <2>2, <2>3, <2>6 DEF Collects, Gathering, Pruning, Removing
<1>8. ASSUME gc_lock(p) PROVE Collects(p)
  <2>1. pc[p] = "flock" /\ pairs' = pairs /\ job[p][4] = "collect"
    BY Zenon, <1>8 DEF gc_lock, JobInv, JobOK
  <2>2. /\ pc'[p] \in {"collect", "remove"}
        /\ candidates[p] \subseteq candidates'[p]
        /\ CanLock(job[p][1]) /\ job[p][2] = "final" => job[p][1] \in candidates'[p]
    <3>1. CASE CanLock(job[p][1])
      <4>1. /\ candidates'[p] = IF job[p][2] = "final" THEN candidates[p] \union {job[p][1]}
                                                      ELSE candidates[p]
            /\ pc'[p] = IF job[p][2] = "final" THEN "collect" ELSE "remove"
        BY Zenon, <1>0, <1>8, <3>1 DEF gc_lock
      <4> QED
        BY Zenon, <4>1
    <3>2. CASE ~ CanLock(job[p][1])
      BY Zenon, <1>0, <1>8, <3>2 DEF gc_lock
    <3> QED
      BY Zenon, <3>1, <3>2
  <2>3. pc'[p] = "remove" => job'[p] = job[p]
    BY Zenon, <2>1 DEF Tasks, Busy, Removing
  <2> QED
    BY Zenon, <2>1, <2>2, <2>3 DEF Collects, Gathering, Pruning, Awaits, Removing
<1>9. ASSUME gc_spare(p) PROVE Collects(p)
  <2>1. pc[p] = "collect" /\ pc'[p] = "delete" /\ pairs[p] = {}
    BY Zenon, <1>0, <1>9 DEF gc_spare
  <2>2. \A d \in candidates[p] : d \in candidates'[p] \/ d = Max(candidates[p])
    BY Zenon, <1>0, <1>9 DEF gc_spare
  <2> QED
    BY Zenon, <2>1, <2>2 DEF Collects, Gathering, Removing
<1>10. ASSUME gc_delete(p) PROVE Collects(p)
  <2>1. pc[p] = "delete" /\ pc'[p] = "remove"
    BY Zenon, <1>0, <1>10 DEF gc_delete, Remove
  <2>2. PICK d \in candidates[p] : /\ IsJob(job'[p], d, "final", "unlink", "delete")
                                   /\ candidates'[p] = candidates[p] \ {d}
    BY Zenon, <2>1 DEF Tasks, Busy, Removing
  <2> QED
    BY Zenon, <2>1, <2>2 DEF Collects, Gathering, Pruning, Doomed, Deleting, IsJob, Removing
<1>11. ASSUME gc_end(p) \/ exit(p) PROVE Collects(p)
  <2>1. pc'[p] \in {"compile", "ended"}
    BY Zenon, <1>0, <1>11 DEF gc_end, exit
  <2> QED
    BY Zenon, <2>1 DEF Collects, Gathering, Pruning, Removing
<1> HIDE DEF Go, files, locks, clock, prepVars, gcVars
<1> QED
  BY Zenon, <1>1, <1>2, <1>3, <1>4, <1>5, <1>6, <1>7, <1>8, <1>9, <1>10, <1>11 DEF Act, Step

(* While the others rest they hold no lock, and p has none of the finalized  *)
(* directories that it has yet to lock.                                      *)
LEMMA NobodyInTheWay ==
  ASSUME SessInv, HeldInv, NEW p \in Processes, NEW d \in D,
         \A q \in Processes \ {p} : pc[q] \in Resting,
         pc[p] = "flock", dir[d] = "final", d \notin candidates[p]
  PROVE  CanLock(d)
<1>1. SessTypeOK /\ HoldInv /\ LiveInv
  BY Zenon DEF SessInv
<1>2. ASSUME NEW q \in Processes, q # p PROVE excl[d] # q /\ q \notin shared[d]
  <2>1. pc[q] \in Resting
    BY Zenon, <1>2
  <2>2. candidates[q] = {} /\ ~ Deleting(q, d)
    BY Zenon, <1>1, <2>1 DEF HoldInv, Holds, Deleting, Resting, Removing
  <2> QED
    BY Zenon, <2>1, <2>2 DEF HeldInv, Accounted, Resting
<1>3. excl[d] # p /\ p \notin shared[d]
  <2>1. ~ Deleting(p, d)
    BY Zenon DEF Deleting, Removing
  <2>2. ~ Own(p, d)
    BY Zenon, <1>1 DEF LiveInv
  <2> QED
    BY Zenon, <2>1, <2>2 DEF HeldInv, Accounted, Own
<1>4. excl[d] \in Processes \union {None} /\ shared[d] \subseteq Processes
  BY Zenon, <1>1 DEF SessTypeOK
<1> QED
  BY Zenon, <1>2, <1>3, <1>4 DEF CanLock

(* When p has gone through its listing, the newest of its candidates is the *)
(* newest finalized directory.                                              *)
LEMMA NewestIsSpared ==
  ASSUME SessTypeOK, FinalInv, NewestInv, ~ slow, NEW p \in Processes, NEW d \in D,
         pc[p] = "collect", pairs[p] = {}, \A e \in D : dir[e] = "final" => Awaits(p, e),
         dir[d] = "final"
  PROVE  d \in candidates[p] /\ newest = Max(candidates[p])
<1>1. newest \in D \union {0} /\ d <= newest /\ d \in candidates[p]
  BY Zenon DEF SessTypeOK, FinalInv, Awaits
<1>2. newest # 0
  BY Zenon, <1>1, SessionOrder
<1>3. newest \in candidates[p]
  BY Zenon, <1>1, <1>2 DEF NewestInv, NewestKept, Awaits
<1>4. /\ Max(candidates[p]) \in candidates[p] /\ Max(candidates[p]) \in D
      /\ newest <= Max(candidates[p])
  BY Zenon, <1>3, NewestCandidate
<1>5. Max(candidates[p]) <= newest
  BY Zenon, <1>4 DEF FinalInv, Finalized
<1> QED
  BY Zenon, <1>1, <1>4, <1>5, SessionOrder

(* A step of p, or of another process, keeps the collection of p complete. *)
LEMMA AloneStep ==
  ASSUME SessInv, ShortInv, ~ slow, HeldInv, AloneInv, NEW p \in Processes, Act(p), Frame(p),
         alone' = CASE pc[p] = "list" /\ (\A q \in Processes \ {p} : pc[q] \in Resting) -> p
                    [] alone = p /\ pc[p] # "list" -> p
                    [] OTHER -> None
  PROVE  AloneInv'
<1>1. /\ SessTypeOK /\ JobInv /\ HoldInv /\ FinalInv /\ LockFileInv /\ NewestInv
      /\ Others(p) /\ Files(p) /\ Times(p) /\ Tasks(p)
  BY Zenon DEF SessInv, ShortInv, Frame
<1>2. Collects(p)
  BY Zenon, <1>1, CollectsStep
<1>3. \/ pc[p] = "list" /\ (\A q \in Processes \ {p} : pc[q] \in Resting) /\ alone' = p
      \/ alone = p /\ pc[p] # "list" /\ alone' = p
      \/ alone' = None
  BY Zenon
<1>4. SUFFICES ASSUME alone' = p PROVE Complete(p)'
  <2>1. \A r \in Processes : alone' = r => r = p
    BY Zenon, <1>3, SessionAssumption
  <2> QED
    BY Zenon, <1>4, <2>1 DEF AloneInv
<1>5. SUFFICES ASSUME Gathering(p)' \/ Pruning(p)' PROVE Complete(p)'
  BY Zenon DEF Complete
<1>6. pc[p] # "compile" /\ pc[p] # "create"
  BY Zenon, <1>2, <1>5 DEF Collects, Gathering, Pruning, Removing
<1>7. newest' = newest /\ \A d \in D : dir'[d] = "final" => dir[d] = "final"
  BY Zenon, <1>1, <1>6 DEF Times, Files
<1>8. \A q \in Processes \ {p} : pc[q] \in Resting
  <2>1. CASE pc[p] = "list"
    BY Zenon, <1>3, <1>4, <2>1, SessionAssumption
  <2>2. CASE pc[p] # "list"
    <3>1. Complete(p)
      BY Zenon, <1>3, <1>4, <2>2, SessionAssumption DEF AloneInv
    <3>2. Gathering(p) \/ Pruning(p)
      BY Zenon, <1>2, <1>5, <2>2 DEF Collects, Gathering
    <3> QED
      BY Zenon, <3>1, <3>2 DEF Complete
  <2> QED
    BY Zenon, <2>1, <2>2
<1>9. \A q \in Processes \ {p} : pc'[q] \in Resting
  BY Zenon, <1>1, <1>8 DEF Others
<1>10. \A d \in D : dir[d] = "final" => d \in lockfile
  BY Zenon, <1>1 DEF LockFileInv
<1>11. pc[p] # "list" => Complete(p)
  BY Zenon, <1>3, <1>4, SessionAssumption DEF AloneInv
<1>12. ASSUME Gathering(p)', NEW d \in D, dir'[d] = "final" PROVE Awaits(p, d)'
  <2>1. dir[d] = "final" /\ d \in lockfile
    BY Zenon, <1>7, <1>10, <1>12
  <2>2. CASE pc[p] = "list"
    BY Zenon, <1>2, <1>12, <2>1, <2>2 DEF Collects, Gathering, Removing, Awaits
  <2>3. CASE pc[p] # "list"
    <3>1. Gathering(p) /\ Awaits(p, d)
      BY Zenon, <1>2, <1>11, <1>12, <2>1, <2>3 DEF Collects, Complete
    <3>2. Awaits(p, d)' \/ (pc[p] = "flock" /\ job[p][1] = d /\ ~ CanLock(d))
      BY Zenon, <1>2, <1>12, <2>1, <2>3, <3>1 DEF Collects
    <3>3. CASE d \in candidates[p]
      BY Zenon, <1>2, <1>12, <2>3, <3>3 DEF Collects, Awaits
    <3>4. CASE d \notin candidates[p]
      BY Zenon, <3>2, <3>4, <2>1, <1>8, NobodyInTheWay
    <3> QED
      BY Zenon, <3>3, <3>4
  <2> QED
    BY Zenon, <2>2, <2>3
<1>13. ASSUME Pruning(p)', NEW d \in D, dir'[d] = "final" PROVE (d = newest \/ Doomed(p, d))'
  <2>1. dir[d] = "final" /\ newest' = newest
    BY Zenon, <1>7, <1>13
  <2>2. pc[p] # "list" /\ Complete(p)
    BY Zenon, <1>2, <1>11, <1>13 DEF Collects, Pruning, Removing
  <2>3. CASE Pruning(p)
    <3>1. d = newest \/ Doomed(p, d)
      BY Zenon, <2>1, <2>2, <2>3 DEF Complete
    <3>2. Doomed(p, d) => Doomed(p, d)' \/ (pc[p] \in {"unlink", "unlock_only"} /\ job[p][1] = d)
      BY Zenon, <1>2, <1>13, <2>3 DEF Collects, Pruning, Removing
    <3>3. ~ (pc[p] \in {"unlink", "unlock_only"} /\ job[p][1] = d)
      BY Zenon, <1>1, <2>1 DEF LockFileInv
    <3> QED
      BY Zenon, <2>1, <3>1, <3>2, <3>3
  <2>4. CASE ~ Pruning(p)
    <3>1. /\ pc[p] = "collect" /\ pairs[p] = {}
          /\ \A e \in candidates[p] : e \in candidates'[p] \/ e = Max(candidates[p])
      BY Zenon, <1>2, <1>13, <2>4 DEF Collects
    <3>2. \A e \in D : dir[e] = "final" => Awaits(p, e)
      BY Zenon, <2>2, <3>1 DEF Complete, Gathering
    <3>3. d \in candidates[p] /\ newest = Max(candidates[p])
      BY Zenon, <1>1, <2>1, <3>1, <3>2, NewestIsSpared
    <3> QED
      BY Zenon, <2>1, <3>1, <3>3 DEF Doomed
  <2> QED
    BY Zenon, <2>3, <2>4
<1> QED
  BY Zenon, <1>9, <1>12, <1>13 DEF Complete

(* The invariant of collections, on top of that of sessions. *)
THEOREM CollectionInvariant == SessSpec => []CollectInv
<1>1. SessInit => CollectInv
  <2> SUFFICES ASSUME SessInit PROVE CollectInv
    OBVIOUS
  <2>1. HeldInv
    BY Zenon, SessionAssumption DEF SessInit, HeldInv, Accounted
  <2>2. AloneInv
    BY Zenon, SessionAssumption DEF SessInit, AloneInv
  <2> QED
    BY Zenon, <2>1, <2>2 DEF CollectInv
<1>2. SessionInv /\ CollectInv /\ [SessNext]_<<sessVars, alone, slow>> => CollectInv'
  <2> SUFFICES ASSUME SessionInv, CollectInv, [SessNext]_<<sessVars, alone, slow>>
               PROVE  CollectInv'
    OBVIOUS
  <2>1. CASE UNCHANGED <<sessVars, alone, slow>>
    <3> USE <2>1 DEF sessVars, files, locks, clock, prepVars, gcVars
    <3>1. HeldInv' <=> HeldInv
      BY DEF HeldInv, Accounted, Deleting
    <3>2. AloneInv' <=> AloneInv
      BY DEF AloneInv, Complete, Gathering, Pruning, Awaits, Doomed, Deleting
    <3> QED
      BY Zenon, <3>1, <3>2 DEF CollectInv
  <2>2. ASSUME NEW p \in Processes, Act(p), slow' = slow,
               alone' = CASE pc[p] = "list" /\ (\A q \in Processes \ {p} : pc[q] \in Resting) -> p
                          [] alone = p /\ pc[p] # "list" -> p
                          [] OTHER -> None
        PROVE  CollectInv'
    <3>1. SessInv /\ (~ slow => ShortInv) /\ HeldInv /\ (~ slow => AloneInv)
      BY Zenon DEF SessionInv, CollectInv
    <3>2. Frame(p)
      BY Zenon, <2>2, <3>1, SessInvStep
    <3>3. HeldInv'
      BY Zenon, <2>2, <3>1, <3>2, HeldStep
    <3>4. ~ slow => AloneInv'
      BY Zenon, <2>2, <3>1, <3>2, AloneStep
    <3> QED
      BY Zenon, <2>2, <3>3, <3>4 DEF CollectInv
  <2> QED
    BY Zenon, <2>1, <2>2 DEF SessNext, Act
<1> QED
  BY <1>1, <1>2, SessionInvariant, PTL DEF SessSpec

(* And a collection nobody interferes with then leaves only the newest       *)
(* finalized directory, whatever earlier ones that were cut short have left  *)
(* behind: garbage_collect_session_directories can lock every one it has     *)
(* listed.                                                                   *)
THEOREM CollectionsAreComplete == SessSpec => []CollectedWhenAlone
<1>1. CollectInv => CollectedWhenAlone
  BY Zenon DEF CollectInv, AloneInv, Complete, Pruning, Doomed, Deleting, Removing,
       CollectedWhenAlone, Collected
<1> QED
  BY <1>1, CollectionInvariant, PTL

===============================================================================
