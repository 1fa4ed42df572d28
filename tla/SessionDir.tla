------------------------------ MODULE SessionDir -------------------------------
(***************************************************************************)
(* The directory of incremental compilation sessions of one crate          *)
(* (compiler/rustc_incremental/src/persist/fs.rs), shared by compiler      *)
(* processes.  A session directory is named by its timestamp, a number     *)
(* that grows; its path ends in "-working" until it is finalized.  Each    *)
(* call that touches the file system is a step, and a process may end      *)
(* between any two of them, which releases its file locks.                 *)
(***************************************************************************)
EXTENDS Integers, FiniteSets, FiniteSetsExt

CONSTANTS
  Processes,         \* compilers of the crate, each of which has one session
  Dirs,              \* bound on the timestamps: 1..Dirs
  Earlier,           \* how many of these were given to earlier sessions
  Slow               \* whether sessions and collections may outlast ten seconds: a set of Booleans

None == "none"

ASSUME SessionAssumption ==
  /\ Dirs \in Nat /\ Earlier \in 0..Dirs /\ Slow \subseteq BOOLEAN
  /\ None \notin Processes

VARIABLES
  dir,               \* what is at the path of a session: "none", "working", "final"
  damaged,           \* directories some of whose files have been removed
  lockfile,          \* the sessions that have a lock file
  excl, shared,      \* who holds its lock: at most one exclusively, or some
  next,              \* the time: the timestamp of the next session,
  aged,              \* and the last that was ten seconds old when the clock was read
  slow,              \* the choice from Slow
  pc, cur,           \* where each process is, and its session
  src, tried,        \* find_source_directory
  orphans, pairs,    \* what garbage_collect_session_directories listed,
  candidates,        \* its deletion_candidates
  job,               \* what is being removed (or locked), and where to go on
  newest,            \* history: the newest session that was finalized
  alone              \* and the process that did all the steps since its listing

files == <<dir, damaged, lockfile>>
locks == <<excl, shared>>
clock == <<next, aged>>
prepVars == <<src, tried>>
gcVars == <<orphans, pairs, candidates>>
sessVars == <<files, locks, clock, pc, cur, prepVars, gcVars, job, newest>>

D == 1..Dirs
NoJob == <<0, None, None, None>>

(* Earlier sessions have been finalized or have ended before that, with or  *)
(* without a directory but with a lock file, and none was collected.        *)
SessInit ==
  /\ dir \in [D -> {"none", "working", "final"}]
  /\ \A d \in D : d > Earlier => dir[d] = "none"
  /\ lockfile = 1..Earlier
  /\ damaged = {}
  /\ newest = Max({d \in D : dir[d] = "final"} \union {0})
  /\ excl = [d \in D |-> None] /\ shared = [d \in D |-> {}]
  /\ next = Earlier + 1 /\ aged = 0 /\ slow \in Slow
  /\ pc = [p \in Processes |-> "start"] /\ cur = [p \in Processes |-> 0]
  /\ src = [p \in Processes |-> 0] /\ tried = [p \in Processes |-> {}]
  /\ orphans = [p \in Processes |-> {}] /\ pairs = [p \in Processes |-> {}]
  /\ candidates = [p \in Processes |-> {}]
  /\ job = [p \in Processes |-> NoJob] /\ alone = None

Go(p, q) == pc' = [pc EXCEPT ![p] = q]

(* flock::Lock::new: the file is opened, and then locked if it can be.  The *)
(* lock belongs to the open file: a process is in its own way.              *)
Open(p, d, yes, no) == Go(p, IF d \in lockfile THEN yes ELSE no)
CanLock(d) == excl[d] = None /\ shared[d] = {}
Lock(p, d) == excl' = [excl EXCEPT ![d] = p] /\ UNCHANGED shared
Unlock(p, d) ==
  /\ excl' = IF excl[d] = p THEN [excl EXCEPT ![d] = None] ELSE excl
  /\ shared' = [shared EXCEPT ![d] = @ \ {p}]

(* safe_remove_dir_all of the path of session d, then go to q; "unlink" also *)
(* deletes the lock file and unlocks it, and goes on at back.                *)
Remove(p, d, path, q, back) ==
  /\ job' = [job EXCEPT ![p] = <<d, path, q, back>>]
  /\ Go(p, "remove")

-------------------------------------------------------------------------------
(* prepare_session_directory *)

(* generate_session_dir_path, and lock_directory creates the lock file, *)
generate(p) ==
  /\ pc[p] \in {"start", "retry"} /\ next <= Dirs
  /\ next' = next + 1
  /\ cur' = [cur EXCEPT ![p] = next]
  /\ lockfile' = lockfile \union {next}
  /\ Go(p, "lock")
  /\ UNCHANGED <<dir, damaged, locks, aged, prepVars, gcVars, job, newest>>

(* and locks it; if it cannot that is an error. *)
lock_directory(p) ==
  /\ pc[p] = "lock"
  /\ IF CanLock(cur[p]) THEN Lock(p, cur[p]) /\ Go(p, "create")
                        ELSE Go(p, "ended") /\ UNCHANGED locks
  /\ UNCHANGED <<files, clock, cur, prepVars, gcVars, job, newest>>

create_dir(p) ==
  /\ pc[p] = "create"
  /\ dir' = [dir EXCEPT ![cur[p]] = "working"]
  /\ Go(p, "find")
  /\ UNCHANGED <<damaged, lockfile, locks, clock, cur, prepVars, gcVars, job, newest>>

(* The newest finalized directory that was not tried; with none the session *)
(* begins with an empty directory.                                          *)
find_source_directory(p) ==
  LET sources == {d \in D : dir[d] = "final" /\ d \notin tried[p]}
  IN  /\ pc[p] = "find"
      /\ src' = [src EXCEPT ![p] = IF sources = {} THEN 0 ELSE Max(sources)]
      /\ Go(p, IF sources = {} THEN "list" ELSE "open")
      /\ UNCHANGED <<files, locks, clock, cur, tried, gcVars, job, newest>>

(* copy_files: a shared lock on the lock file, which has to exist, *)
copy_open(p) ==
  /\ pc[p] = "open"
  /\ Open(p, src[p], "share", "failed")
  /\ UNCHANGED <<files, locks, clock, cur, prepVars, gcVars, job, newest>>

(* A slip: the lock is dropped at once, as let _ = Lock::new(..) would. *)
LockNotKept(p) ==
  /\ pc[p] = "share"
  /\ Go(p, IF excl[src[p]] = None THEN "read" ELSE "failed")
  /\ UNCHANGED <<files, locks, clock, cur, prepVars, gcVars, job, newest>>

copy_lock(p) ==
  /\ pc[p] = "share"
  /\ IF excl[src[p]] = None
       THEN shared' = [shared EXCEPT ![src[p]] = @ \union {p}] /\ Go(p, "read")
       ELSE Go(p, "failed") /\ UNCHANGED shared
  /\ UNCHANGED <<files, excl, clock, cur, prepVars, gcVars, job, newest>>

(* the list of files, *)
copy_read(p) ==
  /\ pc[p] = "read"
  /\ Go(p, IF dir[src[p]] = "final" THEN "copy" ELSE "failed")
  /\ UNCHANGED <<files, locks, clock, cur, prepVars, gcVars, job, newest>>

(* and their links or copies. *)
copy_files(p) ==
  /\ pc[p] = "copy"
  /\ Unlock(p, src[p])
  /\ src' = [src EXCEPT ![p] = 0] /\ tried' = [tried EXCEPT ![p] = {}]
  /\ Go(p, "list")
  /\ UNCHANGED <<files, clock, cur, gcVars, job, newest>>

(* One that is gone is an error. *)
copy_error(p) ==
  /\ pc[p] = "copy" /\ (dir[src[p]] # "final" \/ src[p] \in damaged)
  /\ Go(p, "failed")
  /\ UNCHANGED <<files, locks, clock, cur, prepVars, gcVars, job, newest>>

(* A slip: the source that failed may be tried again. *)
TryAgain(p) ==
  /\ pc[p] = "failed"
  /\ Unlock(p, src[p])
  /\ src' = [src EXCEPT ![p] = 0]
  /\ Remove(p, cur[p], "working", "unlink", "retry")
  /\ UNCHANGED <<files, clock, cur, tried, gcVars, newest>>

(* The next source, after what was allocated is removed. *)
copy_failed(p) ==
  /\ pc[p] = "failed"
  /\ Unlock(p, src[p])
  /\ tried' = [tried EXCEPT ![p] = @ \union {src[p]}] /\ src' = [src EXCEPT ![p] = 0]
  /\ Remove(p, cur[p], "working", "unlink", "retry")
  /\ UNCHANGED <<files, clock, cur, gcVars, newest>>

-------------------------------------------------------------------------------
(* finalize_session_directory *)

(* After a compilation without errors the directory is renamed, *)
finalize(p) ==
  /\ pc[p] = "compile"
  /\ IF dir[cur[p]] = "working"
       THEN /\ dir' = [dir EXCEPT ![cur[p]] = "final"]
            /\ newest' = Max({newest, cur[p]})
       ELSE UNCHANGED <<dir, newest>>
  /\ Go(p, "unlock")
  /\ UNCHANGED <<damaged, lockfile, locks, clock, cur, prepVars, gcVars, job>>

(* which ends the session, as an error of the rename does; *)
finalize_incr_comp_session(p) ==
  /\ pc[p] = "unlock"
  /\ Unlock(p, cur[p])
  /\ Go(p, "list")
  /\ UNCHANGED <<files, clock, cur, prepVars, gcVars, job, newest>>

(* after errors it is removed, and the rename finds nothing. *)
finalize_errors(p) ==
  /\ pc[p] = "compile"
  /\ Remove(p, cur[p], "working", "unlink", "list")
  /\ UNCHANGED <<files, locks, clock, cur, prepVars, gcVars, newest>>

-------------------------------------------------------------------------------
(* safe_remove_dir_all, which is done if there is nothing at the path; *)
remove_files(p) ==
  LET d == job[p][1]
      found == dir[d] = job[p][2]
  IN  /\ pc[p] = "remove"
      /\ damaged' = IF found THEN damaged \union {d} ELSE damaged
      /\ Go(p, IF found THEN "rmdir" ELSE job[p][3])
      /\ UNCHANGED <<dir, lockfile, locks, clock, cur, prepVars, gcVars, job, newest>>

(* an error in a collection leaves the lock file to a later one. *)
remove_dir(p) ==
  LET d == job[p][1]
      found == dir[d] = job[p][2]
  IN  /\ pc[p] = "rmdir"
      /\ dir' = IF found THEN [dir EXCEPT ![d] = "none"] ELSE dir
      /\ damaged' = IF found THEN damaged \ {d} ELSE damaged
      /\ Go(p, IF found \/ job[p][4] \in {"retry", "list"} THEN job[p][3] ELSE "unlock_only")
      /\ UNCHANGED <<lockfile, locks, clock, cur, prepVars, gcVars, job, newest>>

(* The lock file is deleted, and the lock dropped. *)
delete_session_dir_lock_file(p) ==
  /\ pc[p] \in {"unlink", "unlock_only"}
  /\ lockfile' = IF pc[p] = "unlink" THEN lockfile \ {job[p][1]} ELSE lockfile
  /\ Unlock(p, job[p][1])
  /\ Go(p, job[p][4]) /\ job' = [job EXCEPT ![p] = NoJob]
  /\ UNCHANGED <<dir, damaged, clock, cur, prepVars, gcVars, newest>>

-------------------------------------------------------------------------------
(* garbage_collect_session_directories *)

(* One pass over the crate directory.  A lock file without a directory is    *)
(* left: extract_timestamp_from_session_dir fails for every one, as its name *)
(* ends in ".lock" and has two dashes.                                       *)
gc_list(p) ==
  LET found == {<<d, dir[d]>> : d \in {d \in D : dir[d] # "none"}}
  IN  /\ pc[p] = "list"
      /\ orphans' = [orphans EXCEPT ![p] = {x \in found : x[1] \notin lockfile}]
      /\ pairs' = [pairs EXCEPT ![p] = {x \in found : x[1] \in lockfile}]
      /\ Go(p, "collect")
      /\ UNCHANGED <<files, locks, clock, cur, prepVars, candidates, job, newest>>

(* Directories without a lock file are removed first. *)
gc_orphan(p) ==
  /\ pc[p] = "collect"
  /\ \E x \in orphans[p] :
       /\ orphans' = [orphans EXCEPT ![p] = @ \ {x}]
       /\ Remove(p, x[1], x[2], "collect", "collect")
  /\ UNCHANGED <<files, locks, clock, cur, prepVars, pairs, candidates, newest>>

(* The session d goes on, or it was finalized and a collection that listed *)
(* it as "-working" before that has still to come to it.                   *)
Pending(d) ==
  \/ \E p \in Processes :
       cur[p] = d /\ (pc[p] \in {"lock", "create"} \/ (dir[d] = "working" /\ excl[d] = p))
  \/ dir[d] = "final" /\ \E p \in Processes : <<d, "working">> \in pairs[p]

(* The clock is read, and since it was last read d, and all before it, may  *)
(* have become ten seconds old.  Unless slow, none of them is pending then: *)
(* a session, and a collection that met it, take less than ten seconds.     *)
is_old_enough_to_be_collected(d) ==
  \/ d <= aged /\ UNCHANGED aged
  \/ /\ d > aged /\ aged' = d
     /\ slow \/ \A e \in (aged + 1)..d : ~ Pending(e)

(* The lock file of each of the others is locked if it can be, that of a *)
(* "-working" directory only if it is old,                               *)
gc_open(p) ==
  /\ pc[p] = "collect" /\ orphans[p] = {}
  /\ \E x \in pairs[p] :
       /\ \/ /\ IF x[2] = "final" THEN UNCHANGED aged ELSE is_old_enough_to_be_collected(x[1])
             /\ Open(p, x[1], "flock", "collect")
             /\ job' = [job EXCEPT ![p] = IF x[1] \in lockfile
                          THEN <<x[1], x[2], "unlink", "collect">> ELSE NoJob]
          \/ /\ x[2] = "working" /\ x[1] > aged
             /\ Go(p, "collect")
             /\ UNCHANGED <<aged, job>>
       /\ pairs' = [pairs EXCEPT ![p] = @ \ {x}]
  /\ UNCHANGED <<files, locks, next, cur, prepVars, orphans, candidates, newest>>

(* A slip: a "-working" directory is removed because of its age alone. *)
RemoveOld(p) ==
  LET d == job[p][1]
      final == job[p][2] = "final"
  IN  /\ pc[p] = "flock"
      /\ IF CanLock(d) /\ final
           THEN Lock(p, d) /\ candidates' = [candidates EXCEPT ![p] = @ \union {d}]
           ELSE UNCHANGED <<locks, candidates>>
      /\ Go(p, IF final THEN "collect" ELSE "remove")
      /\ job' = IF final THEN [job EXCEPT ![p] = NoJob] ELSE job
      /\ UNCHANGED <<files, clock, cur, prepVars, orphans, pairs, newest>>

(* and a "-working" directory that was is removed (delete_old). *)
gc_lock(p) ==
  LET d == job[p][1]
      final == job[p][2] = "final"
  IN  /\ pc[p] = "flock"
      /\ IF CanLock(d)
           THEN /\ Lock(p, d)
                /\ candidates' = [candidates EXCEPT ![p] = IF final THEN @ \union {d} ELSE @]
                /\ Go(p, IF final THEN "collect" ELSE "remove")
           ELSE Go(p, "collect") /\ UNCHANGED <<locks, candidates>>
      /\ job' = IF CanLock(d) /\ ~ final THEN job ELSE [job EXCEPT ![p] = NoJob]
      /\ UNCHANGED <<files, clock, cur, prepVars, orphans, pairs, newest>>

(* A slip: the wrong end of the order is spared. *)
SpareOldest(p) ==
  /\ pc[p] = "collect" /\ orphans[p] = {} /\ pairs[p] = {}
  /\ IF candidates[p] = {}
       THEN UNCHANGED <<locks, candidates>>
       ELSE /\ Unlock(p, Min(candidates[p]))
            /\ candidates' = [candidates EXCEPT ![p] = @ \ {Min(@)}]
  /\ Go(p, "delete")
  /\ UNCHANGED <<files, clock, cur, prepVars, orphans, pairs, job, newest>>

(* all_except_most_recent: the most recent candidate is unlocked, *)
gc_spare(p) ==
  /\ pc[p] = "collect" /\ orphans[p] = {} /\ pairs[p] = {}
  /\ IF candidates[p] = {}
       THEN UNCHANGED <<locks, candidates>>
       ELSE /\ Unlock(p, Max(candidates[p]))
            /\ candidates' = [candidates EXCEPT ![p] = @ \ {Max(@)}]
  /\ Go(p, "delete")
  /\ UNCHANGED <<files, clock, cur, prepVars, orphans, pairs, job, newest>>

(* A slip: only one of the others is removed. *)
DeleteOne(p) ==
  /\ pc[p] = "delete"
  /\ \E d \in candidates[p] :
       /\ candidates' = [candidates EXCEPT ![p] = {}]
       /\ Remove(p, d, "final", "unlink", "delete")
  /\ UNCHANGED <<files, locks, clock, cur, prepVars, orphans, pairs, newest>>

(* and the others are removed. *)
gc_delete(p) ==
  /\ pc[p] = "delete"
  /\ \E d \in candidates[p] :
       /\ candidates' = [candidates EXCEPT ![p] = @ \ {d}]
       /\ Remove(p, d, "final", "unlink", "delete")
  /\ UNCHANGED <<files, locks, clock, cur, prepVars, orphans, pairs, newest>>

(* An active session goes on, a finalized or invalid one is over. *)
gc_end(p) ==
  /\ pc[p] = "delete" /\ candidates[p] = {}
  /\ Go(p, IF excl[cur[p]] = p THEN "compile" ELSE "ended")
  /\ UNCHANGED <<files, locks, clock, cur, prepVars, gcVars, job, newest>>

-------------------------------------------------------------------------------
Step(p) ==
  \/ (pc[p] = "retry" /\ generate(p)) \/ lock_directory(p) \/ create_dir(p) \/ find_source_directory(p)
  \/ copy_open(p) \/ copy_lock(p) \/ copy_read(p) \/ copy_files(p) \/ copy_error(p)
  \/ copy_failed(p)
  \/ finalize(p) \/ finalize_errors(p) \/ finalize_incr_comp_session(p)
  \/ remove_files(p) \/ remove_dir(p) \/ delete_session_dir_lock_file(p)
  \/ gc_list(p) \/ gc_orphan(p) \/ gc_open(p) \/ gc_lock(p) \/ gc_spare(p) \/ gc_delete(p)
  \/ gc_end(p)

(* The process exits or is killed: its files are closed, which unlocks them. *)
exit(p) ==
  /\ pc[p] \notin {"start", "ended"}
  /\ Go(p, "ended")
  /\ excl' = [d \in D |-> IF excl[d] = p THEN None ELSE excl[d]]
  /\ shared' = [d \in D |-> shared[d] \ {p}]
  /\ src' = [src EXCEPT ![p] = 0] /\ tried' = [tried EXCEPT ![p] = {}]
  /\ orphans' = [orphans EXCEPT ![p] = {}] /\ pairs' = [pairs EXCEPT ![p] = {}]
  /\ candidates' = [candidates EXCEPT ![p] = {}] /\ job' = [job EXCEPT ![p] = NoJob]
  /\ UNCHANGED <<files, clock, cur, newest>>

Resting == {"start", "ended"}

(* Who is alone is a matter of the history of steps; all may have ended. *)
SessNext ==
  /\ \/ (\A p \in Processes : pc[p] = "ended") /\ UNCHANGED <<sessVars, alone>>
     \/ \E p \in Processes :
          /\ (pc[p] = "start" /\ generate(p)) \/ Step(p) \/ exit(p)
          /\ alone' = CASE pc[p] = "list" /\ (\A q \in Processes \ {p} : pc[q] \in Resting) -> p
                        [] alone = p /\ pc[p] # "list" -> p
                        [] OTHER -> None
  /\ UNCHANGED slow

(* While there are sessions some of them goes on; no process has to begin  *)
(* one or to end.                                                          *)
SessFairness == WF_sessVars(\E p \in Processes : Step(p))

SessSpec == SessInit /\ [][SessNext]_<<sessVars, alone, slow>> /\ SessFairness

-------------------------------------------------------------------------------
(* Nobody removes the directory or the lock file of a session that is in     *)
(* progress, however long it lasts: prepare_session_directory leaves "a      *)
(* valid incremental compilation session directory", one with a locked lock  *)
(* file, and finalize_session_directory finds it.                            *)
LiveIsKept ==
  \A p \in Processes :
    pc[p] \in {"find", "open", "share", "read", "copy", "compile"} =>
      dir[cur[p]] = "working" /\ cur[p] \in lockfile /\ cur[p] \notin damaged

(* copy_files holds a shared lock "so that nobody deletes it out from under  *)
(* us while we are reading from it": as long as no session becomes ten       *)
(* seconds old while it is pending, the source stays where it is and no      *)
(* collection is removing it.                                                *)
UndisturbedCopy ==
  ~ slow => \A p, q \in Processes :
    pc[p] = "copy" =>
      dir[src[p]] = "final" /\ ~ (pc[q] \in {"remove", "rmdir"} /\ job[q][1] = src[p])

(* As long as no session becomes ten seconds old while it is pending, the    *)
(* newest finalized directory is there, whole and with its lock file:        *)
(* collections run "except for the most recent one" also when each of them   *)
(* sees another state of the directory or dies in the middle.                *)
NewestKept ==
  ~ slow /\ newest # 0 =>
    dir[newest] = "final" /\ newest \notin damaged /\ newest \in lockfile

(* When p is at the end of a collection during which no other process did *)
(* anything.                                                              *)
Collected(p) == pc[p] = "delete" /\ candidates[p] = {} /\ alone = p

(* As long as no session becomes ten seconds old while it is pending, a      *)
(* collection that nobody interferes with leaves one finalized directory,    *)
(* whatever earlier ones that were cut short have left behind.               *)
CollectedWhenAlone ==
  \A p \in Processes : Collected(p) /\ ~ slow =>
    \A d \in D : dir[d] = "final" => d = newest

(* Every session that began ends, and prepare_session_directory does not try *)
(* sources for ever, also while the other process publishes one and both     *)
(* collect them; an ended process does not begin again.                      *)
SessionEnds == <>[](\A p \in Processes : pc[p] \in Resting)

===============================================================================
