---------------------------- MODULE CommonioLock ----------------------------
(***************************************************************************)
(* The file locks of lib/commonio.c: commonio_lock, commonio_lock_nowait,  *)
(* do_lock_file and commonio_unlock, one action per system call that       *)
(* another process can observe.                                            *)
(*                                                                         *)
(* A database file f is locked by the link "f.lock" to a temporary file    *)
(* "f.<pid>" that holds the pid of the owner.  A link that exists is       *)
(* broken when no process has the pid written in it.  With the database    *)
(* at its default name, the first lock of a process is taken under the     *)
(* lckpwdf() lock of the C library; a process in SetName works on named    *)
(* files (pwck FILE, --prefix) and never calls lckpwdf().                  *)
(*                                                                         *)
(* A member of Procs is a pid.  A process of Mortal can end at any point,  *)
(* and its pid can be given to a new process (Start).                      *)
(***************************************************************************)
EXTENDS Naturals

CONSTANTS
  Procs,       \* the pids
  Files,       \* passwd, shadow, group, ...: databases with a lock file
  SetName,     \* processes whose databases were named with commonio_setname
  Mortal,      \* processes that may end
  LockTries,   \* LOCK_TRIES of commonio_lock
  None,        \* no lock file, no lckpwdf holder, no attempt under way
  Garbage      \* a lock file that holds no readable pid

ASSUME NamesAssumption ==
  /\ SetName \subseteq Procs
  /\ Mortal \subseteq Procs
  /\ LockTries \in Nat \ {0}
  /\ None \notin Procs
  /\ Garbage \notin Procs
  /\ None # Garbage

VARIABLES
  pc,          \* where each process is in the locking code
  cur,         \* the file a process is locking
  seen,        \* the pid a process read in somebody's lock file
  tries,       \* attempts made by the loop of commonio_lock
  tmp,         \* "f.<pid>": absent, a file, or a file the lock links to
  lock,        \* "f.lock": absent, or the pid it holds
  locked,      \* db->locked
  lockCount,   \* lock_count
  lckHolder    \* the process inside lckpwdf() / ulckpwdf()

vars == <<pc, cur, seen, tries, tmp, lock, locked, lockCount, lckHolder>>

\* The steps of an attempt; "idle" is tool code, "failing" is a tool that
\* was refused a lock and is on its way to exit().
Attempt == {"lckpwdf", "create", "write", "link", "check", "read", "kill",
            "break", "relink"}

TypeOK ==
  /\ pc \in [Procs -> Attempt \cup {"idle", "failing", "dead"}]
  /\ cur \in [Procs -> Files \cup {None}]
  /\ \A p \in Procs : pc[p] \in Attempt => cur[p] \in Files
  /\ seen \in [Procs -> Procs \cup {None}]
  /\ \A p \in Procs : pc[p] \in {"kill", "break"} => seen[p] \in Procs
  /\ tries \in [Procs -> 0 .. LockTries]
  /\ tmp \in [Procs -> [Files -> {"absent", "file", "linked"}]]
  /\ lock \in [Files -> Procs \cup {None, Garbage}]
  /\ locked \in [Procs -> [Files -> BOOLEAN]]
  /\ lockCount \in [Procs -> Nat]
  /\ lckHolder \in Procs \cup {None}

Init ==
  /\ pc = [p \in Procs |-> "idle"]
  /\ cur = [p \in Procs |-> None]
  /\ seen = [p \in Procs |-> None]
  /\ tries = [p \in Procs |-> 0]
  /\ tmp = [p \in Procs |-> [f \in Files |-> "absent"]]
  /\ lock \in [Files -> {None, Garbage}]
  /\ locked = [p \in Procs |-> [f \in Files |-> FALSE]]
  /\ lockCount = [p \in Procs |-> 0]
  /\ lckHolder = None

Alive(p) == pc[p] # "dead"

\* Variant: a build that lost lckpwdf().
NeverUsesLckpwdf(p) == FALSE

UsesLckpwdf(p) == p \notin SetName

GoTo(p, label) == pc' = [pc EXCEPT ![p] = label]

SetTmp(p, f, state) == tmp' = [tmp EXCEPT ![p][f] = state]

\* tmp after the lock of f was unlinked: whatever file it linked to has
\* lost its second name.
UnlinkedLock(f) ==
  [q \in Procs |-> [tmp[q] EXCEPT ![f] = IF @ = "linked" THEN "file" ELSE @]]

\* lckHolder after ulckpwdf() in p, which does nothing unless p holds it.
Ulckpwdf(p) == IF lckHolder = p THEN None ELSE lckHolder

-----------------------------------------------------------------------------
(* commonio_lock *)

\* db->locked already: commonio_lock_nowait returns 1 at once, so only the
\* calls that find the database unlocked start an attempt.
BeginLock(p, f) ==
  /\ pc[p] = "idle"
  /\ ~ locked[p][f]
  /\ cur' = [cur EXCEPT ![p] = f]
  /\ GoTo(p, IF UsesLckpwdf(p) /\ lockCount[p] = 0 THEN "lckpwdf" ELSE "create")
  /\ UNCHANGED <<seen, tries, tmp, lock, locked, lockCount, lckHolder>>

LckpwdfGranted(p) ==
  /\ pc[p] = "lckpwdf"
  /\ lckHolder = None
  /\ lckHolder' = p
  /\ GoTo(p, "create")
  /\ UNCHANGED <<cur, seen, tries, tmp, lock, locked, lockCount>>

\* Variant: the -1 of lckpwdf() is not looked at.
LckpwdfTimeoutIgnored(p) ==
  /\ pc[p] = "lckpwdf"
  /\ lckHolder # None
  /\ GoTo(p, "create")
  /\ UNCHANGED <<cur, seen, tries, tmp, lock, locked, lockCount, lckHolder>>

\* The C library gives up after its time limit.
LckpwdfTimeout(p) ==
  /\ pc[p] = "lckpwdf"
  /\ lckHolder # None
  /\ GoTo(p, "failing")
  /\ cur' = [cur EXCEPT ![p] = None]
  /\ UNCHANGED <<seen, tries, tmp, lock, locked, lockCount, lckHolder>>

\* commonio_lock returns in p, and its locals are gone.
Returns(p, label) ==
  /\ GoTo(p, label)
  /\ cur' = [cur EXCEPT ![p] = None]
  /\ tries' = [tries EXCEPT ![p] = 0]
  /\ seen' = [seen EXCEPT ![p] = None]

\* Variant: the loop of commonio_lock does not count its attempts.
RefusedUncounted(p) ==
  /\ seen' = [seen EXCEPT ![p] = None]
  /\ GoTo(p, "create")
  /\ UNCHANGED <<cur, tries, locked, lockCount, lckHolder>>

\* do_lock_file returned 0 in p.  Under lckpwdf() there is one attempt, and
\* its failure releases lckpwdf() whatever lock_count is; otherwise the loop
\* makes LOCK_TRIES attempts.
Refused(p) ==
  /\ \/ /\ UsesLckpwdf(p)
        /\ lckHolder' = Ulckpwdf(p)
        /\ Returns(p, "failing")
     \/ /\ ~ UsesLckpwdf(p)
        /\ tries[p] + 1 < LockTries
        /\ tries' = [tries EXCEPT ![p] = @ + 1]
        /\ seen' = [seen EXCEPT ![p] = None]
        /\ GoTo(p, "create")
        /\ UNCHANGED <<cur, lckHolder>>
     \/ /\ ~ UsesLckpwdf(p)
        /\ tries[p] + 1 >= LockTries
        /\ Returns(p, "failing")
        /\ UNCHANGED lckHolder
  /\ UNCHANGED <<locked, lockCount>>

\* do_lock_file returned 1 in p.
Granted(p) ==
  /\ Returns(p, "idle")
  /\ locked' = [locked EXCEPT ![p][cur[p]] = TRUE]
  /\ lockCount' = [lockCount EXCEPT ![p] = @ + 1]
  /\ UNCHANGED lckHolder

-----------------------------------------------------------------------------
(* do_lock_file *)

\* open (file, O_CREAT | O_TRUNC | O_WRONLY).  A file left behind by an
\* earlier process with this pid is truncated; if it is still the target of
\* the lock, the lock loses its pid as well.
CreateTmp(p) ==
  LET f == cur[p] IN
  /\ pc[p] = "create"
  /\ IF tmp[p][f] = "linked"
       THEN /\ lock' = [lock EXCEPT ![f] = Garbage]
            /\ UNCHANGED tmp
       ELSE /\ SetTmp(p, f, "file")
            /\ UNCHANGED lock
  /\ GoTo(p, "write")
  /\ UNCHANGED <<cur, seen, tries, locked, lockCount, lckHolder>>

CreateTmpFails(p) ==
  /\ pc[p] = "create"
  /\ Refused(p)
  /\ UNCHANGED <<tmp, lock>>

\* write_full and fdatasync of the pid.
WriteTmp(p) ==
  LET f == cur[p] IN
  /\ pc[p] = "write"
  /\ lock' = IF tmp[p][f] = "linked" THEN [lock EXCEPT ![f] = p] ELSE lock
  /\ GoTo(p, "link")
  /\ UNCHANGED <<cur, seen, tries, tmp, locked, lockCount, lckHolder>>

WriteTmpFails(p) ==
  /\ pc[p] = "write"
  /\ SetTmp(p, cur[p], "absent")
  /\ Refused(p)
  /\ UNCHANGED lock

\* The link() that both calls of do_lock_file make.
LinkSucceeds(p) ==
  /\ lock[cur[p]] = None
  /\ lock' = [lock EXCEPT ![cur[p]] = p]
  /\ SetTmp(p, cur[p], "linked")
  /\ GoTo(p, "check")
  /\ UNCHANGED <<cur, seen, tries, locked, lockCount, lckHolder>>

LinkTmp(p) == pc[p] = "link" /\ LinkSucceeds(p)

LinkExists(p) ==
  /\ pc[p] = "link"
  /\ lock[cur[p]] # None
  /\ GoTo(p, "read")
  /\ UNCHANGED <<cur, seen, tries, tmp, lock, locked, lockCount, lckHolder>>

\* Variant: a link() that succeeded is enough.
LinkCountIgnored(p) ==
  /\ pc[p] = "check"
  /\ SetTmp(p, cur[p], "absent")
  /\ Granted(p)
  /\ UNCHANGED lock

\* check_link_count, then unlink (file): the lock is ours only if our file
\* still has two names.
CheckLinkCount(p) ==
  /\ pc[p] = "check"
  /\ SetTmp(p, cur[p], "absent")
  /\ IF tmp[p][cur[p]] = "linked" THEN Granted(p) ELSE Refused(p)
  /\ UNCHANGED lock

\* Variant: what was read is taken for a pid unchecked.
PidNotChecked(p) ==
  /\ pc[p] = "read"
  /\ seen' = [seen EXCEPT ![p] = lock[cur[p]]]
  /\ GoTo(p, "kill")
  /\ UNCHANGED <<cur, tries, tmp, lock, locked, lockCount, lckHolder>>

\* open and read the existing lock: it may be gone by now, or hold no pid.
ReadLock(p) ==
  LET f == cur[p] IN
  /\ pc[p] = "read"
  /\ IF lock[f] \in Procs
       THEN /\ seen' = [seen EXCEPT ![p] = lock[f]]
            /\ GoTo(p, "kill")
            /\ UNCHANGED <<cur, tries, tmp, locked, lockCount, lckHolder>>
       ELSE /\ SetTmp(p, f, "absent")
            /\ Refused(p)
  /\ UNCHANGED lock

\* Variant: the owner is not probed.
OwnerNotProbed(p) ==
  /\ pc[p] = "kill"
  /\ GoTo(p, "break")
  /\ UNCHANGED <<cur, seen, tries, tmp, lock, locked, lockCount, lckHolder>>

\* kill (pid, 0)
ProbeOwner(p) ==
  /\ pc[p] = "kill"
  /\ IF Alive(seen[p])
       THEN /\ SetTmp(p, cur[p], "absent")
            /\ Refused(p)
       ELSE /\ GoTo(p, "break")
            /\ UNCHANGED <<cur, seen, tries, tmp, locked, lockCount, lckHolder>>
  /\ UNCHANGED lock

\* unlink (lock), whatever the lock holds by now.
BreakLock(p) ==
  LET f == cur[p] IN
  /\ pc[p] = "break"
  /\ IF lock[f] # None
       THEN /\ lock' = [lock EXCEPT ![f] = None]
            /\ tmp' = UnlinkedLock(f)
            /\ GoTo(p, "relink")
            /\ UNCHANGED <<cur, seen, tries, locked, lockCount, lckHolder>>
       ELSE /\ SetTmp(p, f, "absent")
            /\ Refused(p)
            /\ UNCHANGED lock

Relink(p) == pc[p] = "relink" /\ LinkSucceeds(p)

\* Variant: the last error path of do_lock_file forgets unlink (file).
RelinkFailsUnclean(p) ==
  /\ pc[p] = "relink"
  /\ lock[cur[p]] # None
  /\ Refused(p)
  /\ UNCHANGED <<tmp, lock>>

RelinkFails(p) ==
  /\ pc[p] = "relink"
  /\ lock[cur[p]] # None
  /\ SetTmp(p, cur[p], "absent")
  /\ Refused(p)
  /\ UNCHANGED lock

-----------------------------------------------------------------------------
(* commonio_unlock, and the life of a process *)

\* Variant: dec_lock_count tests lock_count before it decrements it.
UnlockLate(p, f) ==
  /\ pc[p] \in {"idle", "failing"}
  /\ locked[p][f]
  /\ locked' = [locked EXCEPT ![p][f] = FALSE]
  /\ lock' = [lock EXCEPT ![f] = None]
  /\ tmp' = UnlinkedLock(f)
  /\ lockCount' = [lockCount EXCEPT ![p] = IF @ > 0 THEN @ - 1 ELSE @]
  /\ lckHolder' = IF lockCount[p] = 0 THEN Ulckpwdf(p) ELSE lckHolder
  /\ UNCHANGED <<pc, cur, seen, tries>>

\* commonio_unlock with dec_lock_count.  It removes the lock file by name;
\* the close of an open database is a read-only one and cannot fail.
Unlock(p, f) ==
  /\ pc[p] \in {"idle", "failing"}
  /\ locked[p][f]
  /\ locked' = [locked EXCEPT ![p][f] = FALSE]
  /\ lock' = [lock EXCEPT ![f] = None]
  /\ tmp' = UnlinkedLock(f)
  /\ lockCount' = [lockCount EXCEPT ![p] = IF @ > 0 THEN @ - 1 ELSE @]
  /\ lckHolder' = IF lockCount[p] = 1 THEN Ulckpwdf(p) ELSE lckHolder
  /\ UNCHANGED <<pc, cur, seen, tries>>

\* exit() or a signal: the lock files stay, the kernel drops the lock of
\* lckpwdf().
Die(p) ==
  /\ p \in Mortal
  /\ Alive(p)
  /\ Returns(p, "dead")
  /\ locked' = [locked EXCEPT ![p] = [f \in Files |-> FALSE]]
  /\ lockCount' = [lockCount EXCEPT ![p] = 0]
  /\ lckHolder' = Ulckpwdf(p)
  /\ UNCHANGED <<tmp, lock>>

\* A new process is given the pid of a dead one.
Start(p) ==
  /\ pc[p] = "dead"
  /\ GoTo(p, "idle")
  /\ UNCHANGED <<cur, seen, tries, tmp, lock, locked, lockCount, lckHolder>>

AttemptStep(p) ==
  \/ LckpwdfGranted(p) \/ LckpwdfTimeout(p)
  \/ CreateTmp(p) \/ CreateTmpFails(p)
  \/ WriteTmp(p) \/ WriteTmpFails(p)
  \/ LinkTmp(p) \/ LinkExists(p)
  \/ CheckLinkCount(p)
  \/ ReadLock(p) \/ ProbeOwner(p)
  \/ BreakLock(p) \/ Relink(p) \/ RelinkFails(p)

Step(p) ==
  \/ \E f \in Files : BeginLock(p, f) \/ Unlock(p, f)
  \/ AttemptStep(p)
  \/ Die(p)
  \/ Start(p)

Next == \E p \in Procs : Step(p)

\* A process that is inside commonio_lock keeps running; lckpwdf() returns
\* within its time limit.  Nothing makes a tool start or finish its work.
Fairness == \A p \in Procs : WF_vars(AttemptStep(p))

Spec == Init /\ [][Next]_vars

FairSpec == Spec /\ Fairness
-----------------------------------------------------------------------------
(* Properties *)

\* A lock is for one process: two processes never have db->locked set for
\* the same file.
MutualExclusion ==
  \A f \in Files : \A p, q \in Procs : locked[p][f] /\ locked[q][f] => p = q

\* The lock file of a held database is there and names its holder: nobody
\* breaks a lock that is in use (do_lock_file), and no unlink of
\* commonio_unlock hits the lock of somebody else.
HolderOwnsLockFile ==
  \A p \in Procs, f \in Files : locked[p][f] => lock[f] = p

\* A lock is granted only while the lock file is the caller's: a process whose
\* fresh lock was broken by a rival between link and check_link_count is
\* refused.
GrantOwnsLock ==
  [][\A p \in Procs, f \in Files :
       ~ locked[p][f] /\ locked'[p][f] => lock'[f] = p]_vars

\* The lock of the C library is held only by a process that is taking a lock
\* or has one: no path of commonio_lock and commonio_unlock leaves it behind.
LckpwdfNotLeftBehind ==
  \A p \in Procs :
    lckHolder = p => pc[p] \in Attempt \/ (pc[p] = "idle" /\ lockCount[p] > 0)

\* Every return of do_lock_file has removed "f.<pid>".  A process that was
\* killed leaves its file, hence the restriction to processes that live on.
TmpRemoved ==
  \A p \in Procs \ Mortal, f \in Files :
    tmp[p][f] # "absent" => pc[p] \in Attempt \ {"lckpwdf", "create"} /\ cur[p] = f

\* commonio_lock returns, with the lock or without it, or its process ends.
AttemptEnds ==
  \A p \in Procs : pc[p] \in Attempt ~> pc[p] \notin Attempt

\* The protocol implements the abstract lock: a file is held by those that
\* have db->locked set.
Abstract == INSTANCE AbstractLocks
              WITH holders <- [f \in Files |-> {p \in Procs : locked[p][f]}]

ImplementsLock == Abstract!ASpec
=============================================================================
