------------------------- MODULE CommonioLockProofs -------------------------
(***************************************************************************)
(* Proofs about CommonioLock, for any set of processes and of files.       *)
(*                                                                         *)
(* Base holds whichever processes use lckpwdf(): a temporary file is       *)
(* removed on every path but a death, the lock that is linked to a         *)
(* process's own file names it, and lckpwdf() is not left behind.          *)
(*                                                                         *)
(* Exclusion needs that every process takes its first lock under lckpwdf() *)
(* (SetName is empty).  The argument.  A process inside do_lock_file holds lckpwdf(), so one    *)
(* process at a time creates or breaks lock files; the only other step on  *)
(* a lock file is the commonio_unlock of its holder, who may have lost     *)
(* lckpwdf() by a refused lock.  Hence what a process read in a lock file  *)
(* is still there, or the lock is gone, when it probes the owner; and an   *)
(* owner found dead holds nothing, so the lock that is broken is nobody's. *)
(***************************************************************************)
EXTENDS CommonioLock, TLAPS

\* The steps of do_lock_file.
InLockFile == Attempt \ {"lckpwdf"}

\* A process that waits for lckpwdf() is not in it, and only those that use
\* it are.
LckpwdfAsked ==
  \A p \in Procs :
    /\ pc[p] = "lckpwdf" => UsesLckpwdf(p) /\ lckHolder # p
    /\ lckHolder = p => UsesLckpwdf(p)

\* A process inside do_lock_file, or that works with a lock, is in lckpwdf().
LckpwdfHeld ==
  \A p \in Procs :
    /\ pc[p] \in InLockFile => lckHolder = p
    /\ pc[p] = "idle" /\ lockCount[p] > 0 => lckHolder = p

DeadHoldNothing ==
  \A p \in Procs : pc[p] = "dead" => lockCount[p] = 0 /\ \A f \in Files : ~ locked[p][f]

\* A process takes no lock that it has.
NotYetLocked ==
  \A p \in Procs : pc[p] \in Attempt => ~ locked[p][cur[p]]

\* The lock that is probed is the lock that was read.
ReadIsCurrent ==
  \A p \in Procs : pc[p] = "kill" => lock[cur[p]] \in {seen[p], None}

\* The lock that is broken is nobody's.
BrokenIsFree ==
  \A p \in Procs : pc[p] = "break" => \A q \in Procs : ~ locked[q][cur[p]]

\* A temporary file that the lock links to decides what the lock holds, and
\* there is one such file.
LinkedIsOwn ==
  \A p \in Procs, f \in Files :
    tmp[p][f] = "linked" =>
      /\ lock[f] \in {p, Garbage}
      /\ pc[p] = "check" /\ cur[p] = f => lock[f] = p
      /\ \A q \in Procs : tmp[q][f] = "linked" => q = p

\* Whether or not the processes use lckpwdf().
Base ==
  /\ TypeOK
  /\ LckpwdfAsked
  /\ LckpwdfNotLeftBehind
  /\ DeadHoldNothing
  /\ NotYetLocked
  /\ LinkedIsOwn
  /\ TmpRemoved

\* When all of them do.
IInv ==
  /\ Base
  /\ LckpwdfHeld
  /\ HolderOwnsLockFile
  /\ ReadIsCurrent
  /\ BrokenIsFree

-----------------------------------------------------------------------------
(* Whichever processes use lckpwdf() *)

\* What a refusal does, whether it is the last one or the loop tries again.
LEMMA RefusedEffect ==
  ASSUME TypeOK, NEW p \in Procs, pc[p] \in InLockFile, Refused(p)
  PROVE  /\ \/ pc' = [pc EXCEPT ![p] = "failing"] /\ cur' = [cur EXCEPT ![p] = None]
            \/ pc' = [pc EXCEPT ![p] = "create"] /\ UNCHANGED cur /\ ~ UsesLckpwdf(p)
         /\ tries' \in [Procs -> 0 .. LockTries]
         /\ seen' = [seen EXCEPT ![p] = None]
         /\ \/ lckHolder' = Ulckpwdf(p) /\ pc'[p] = "failing"
            \/ UNCHANGED lckHolder /\ ~ UsesLckpwdf(p)
         /\ UNCHANGED <<locked, lockCount>>
<1>. USE NamesAssumption DEF TypeOK, Refused, Returns, GoTo
<1>1. tries' \in [Procs -> 0 .. LockTries]
  <2>1. 0 \in 0 .. LockTries
    OBVIOUS
  <2>2. tries[p] + 1 < LockTries => tries[p] + 1 \in 0 .. LockTries
    OBVIOUS
  <2>. QED
    BY <2>1, <2>2
<1>. QED
  BY <1>1

\* A refusal, on any path of do_lock_file: the temporary file is gone, or was
\* never made, and the lock file is untouched.
LEMMA RefusedKeepsBase ==
  ASSUME Base, NEW p \in Procs, pc[p] \in InLockFile, Refused(p),
         UNCHANGED lock,
         \/ UNCHANGED tmp /\ pc[p] = "create"
         \/ tmp' = [tmp EXCEPT ![p][cur[p]] = "absent"]
  PROVE  Base'
<1>1. /\ \/ pc' = [pc EXCEPT ![p] = "failing"] /\ cur' = [cur EXCEPT ![p] = None]
         \/ pc' = [pc EXCEPT ![p] = "create"] /\ UNCHANGED cur /\ ~ UsesLckpwdf(p)
      /\ tries' \in [Procs -> 0 .. LockTries]
      /\ seen' = [seen EXCEPT ![p] = None]
      /\ \/ lckHolder' = Ulckpwdf(p) /\ pc'[p] = "failing"
         \/ UNCHANGED lckHolder /\ ~ UsesLckpwdf(p)
      /\ UNCHANGED <<locked, lockCount>>
  BY RefusedEffect DEF Base
<1>. USE NamesAssumption DEF Base, TypeOK, InLockFile, Attempt
<1>2. /\ tmp' \in [Procs -> [Files -> {"absent", "file", "linked"}]]
      /\ \A q \in Procs, f \in Files : tmp'[q][f] \in {tmp[q][f], "absent"}
      /\ pc[p] # "create" => tmp'[p][cur[p]] = "absent"
  <2>1. CASE UNCHANGED tmp /\ pc[p] = "create"
    BY <2>1
  <2>2. CASE tmp' = [tmp EXCEPT ![p][cur[p]] = "absent"]
    BY <2>2
  <2>. QED
    BY <2>1, <2>2
<1>3. \A q \in Procs \ {p} : pc'[q] = pc[q] /\ cur'[q] = cur[q] /\ seen'[q] = seen[q]
  BY <1>1
<1>4. pc'[p] \in {"failing", "create"} /\ (pc'[p] = "create" => cur'[p] = cur[p])
  BY <1>1
<1>5. TypeOK'
  <2>1. /\ pc' \in [Procs -> Attempt \cup {"idle", "failing", "dead"}]
        /\ cur' \in [Procs -> Files \cup {None}]
        /\ seen' \in [Procs -> Procs \cup {None}]
        /\ lckHolder' \in Procs \cup {None}
    <3>1. pc' \in [Procs -> Attempt \cup {"idle", "failing", "dead"}]
      BY <1>1
    <3>2. cur' \in [Procs -> Files \cup {None}]
      BY <1>1
    <3>3. seen' \in [Procs -> Procs \cup {None}]
      BY <1>1
    <3>4. lckHolder' \in Procs \cup {None}
      BY <1>1 DEF Ulckpwdf
    <3>. QED
      BY <3>1, <3>2, <3>3, <3>4
  <2>2. \A q \in Procs : /\ pc'[q] \in Attempt => cur'[q] \in Files
                         /\ pc'[q] \in {"kill", "break"} => seen'[q] \in Procs
    BY <1>3, <1>4
  <2>. QED
    BY <1>1, <1>2, <2>1, <2>2
<1>6. LckpwdfAsked'
  BY <1>1, <1>3, <1>4 DEF LckpwdfAsked, Ulckpwdf
<1>7. LckpwdfNotLeftBehind'
  BY <1>1, <1>3, <1>4 DEF LckpwdfNotLeftBehind, LckpwdfAsked, Ulckpwdf
<1>8. DeadHoldNothing' /\ NotYetLocked'
  BY <1>1, <1>3, <1>4 DEF DeadHoldNothing, NotYetLocked
<1>9. LinkedIsOwn'
  BY <1>2, <1>3, <1>4 DEF LinkedIsOwn
<1>10. TmpRemoved'
  BY <1>2, <1>3, <1>4 DEF TmpRemoved
<1>. QED
  BY <1>5, <1>6, <1>7, <1>8, <1>9, <1>10

\* The lock may lose its pid.
LEMMA CreateTmpKeepsBase ==
  ASSUME Base, NEW p \in Procs, CreateTmp(p)
  PROVE  Base'
<1>. USE NamesAssumption DEF Base, TypeOK, Attempt, InLockFile
<1>. DEFINE f == cur[p]
<1>1. /\ pc[p] = "create" /\ f \in Files
      /\ pc' = [pc EXCEPT ![p] = "write"]
      /\ UNCHANGED <<cur, seen, tries, locked, lockCount, lckHolder>>
  BY DEF CreateTmp, GoTo
<1>2. \/ tmp[p][f] = "linked" /\ lock' = [lock EXCEPT ![f] = Garbage] /\ UNCHANGED tmp
      \/ tmp[p][f] # "linked" /\ UNCHANGED lock /\ tmp' = [tmp EXCEPT ![p][f] = "file"]
  BY DEF CreateTmp, SetTmp
<1>3. TypeOK'
  <2>1. tmp' \in [Procs -> [Files -> {"absent", "file", "linked"}]]
    <3>1. CASE UNCHANGED tmp
      BY <3>1
    <3>2. CASE tmp' = [tmp EXCEPT ![p][f] = "file"]
      BY <1>1, <3>2
    <3>. QED
      BY <1>2, <3>1, <3>2
  <2>2. lock' \in [Files -> Procs \cup {None, Garbage}]
    BY <1>1, <1>2
  <2>. QED
    BY <1>1, <2>1, <2>2
<1>4. LckpwdfAsked' /\ LckpwdfNotLeftBehind' /\ DeadHoldNothing' /\ NotYetLocked'
  BY <1>1 DEF LckpwdfAsked, LckpwdfNotLeftBehind, DeadHoldNothing, NotYetLocked
<1>5. LinkedIsOwn'
  <2>1. CASE tmp[p][f] = "linked" /\ lock' = [lock EXCEPT ![f] = Garbage] /\ UNCHANGED tmp
    BY <1>1, <2>1 DEF LinkedIsOwn
  <2>2. CASE tmp[p][f] # "linked" /\ UNCHANGED lock /\ tmp' = [tmp EXCEPT ![p][f] = "file"]
    BY <1>1, <2>2 DEF LinkedIsOwn
  <2>. QED
    BY <1>2, <2>1, <2>2
<1>6. TmpRemoved'
  <2>1. CASE UNCHANGED tmp
    BY <1>1, <2>1 DEF TmpRemoved
  <2>2. CASE tmp' = [tmp EXCEPT ![p][f] = "file"]
    BY <1>1, <2>2 DEF TmpRemoved
  <2>. QED
    BY <1>2, <2>1, <2>2
<1>. QED
  BY <1>3, <1>4, <1>5, <1>6

\* link() creates the lock: nothing was linked to it before.
LEMMA LinkSucceedsKeepsBase ==
  ASSUME Base, NEW p \in Procs, pc[p] \in {"link", "relink"}, LinkSucceeds(p)
  PROVE  Base'
<1>. USE NamesAssumption DEF Base, TypeOK, Attempt, InLockFile, LinkSucceeds, GoTo, SetTmp
<1>1. TypeOK'
  OBVIOUS
<1>2. LckpwdfAsked'
  BY DEF LckpwdfAsked
<1>3. LckpwdfNotLeftBehind'
  BY DEF LckpwdfNotLeftBehind
<1>4. DeadHoldNothing' /\ NotYetLocked'
  BY DEF DeadHoldNothing, NotYetLocked
<1>5. LinkedIsOwn'
  BY DEF LinkedIsOwn
<1>6. TmpRemoved'
  BY DEF TmpRemoved
<1>. QED
  BY <1>1, <1>2, <1>3, <1>4, <1>5, <1>6

\* A process starts to take a lock.
LEMMA BeginLockKeepsBase ==
  ASSUME Base, NEW p \in Procs, NEW f \in Files, BeginLock(p, f)
  PROVE  Base'
<1>. USE NamesAssumption DEF Base, TypeOK, Attempt, InLockFile, BeginLock, GoTo, UsesLckpwdf
<1>1. TypeOK'
  OBVIOUS
<1>2. LckpwdfAsked'
  BY DEF LckpwdfAsked, LckpwdfNotLeftBehind
<1>3. LckpwdfNotLeftBehind'
  BY DEF LckpwdfNotLeftBehind
<1>4. DeadHoldNothing' /\ NotYetLocked'
  BY DEF DeadHoldNothing, NotYetLocked
<1>5. LinkedIsOwn'
  BY DEF LinkedIsOwn
<1>6. TmpRemoved'
  BY DEF TmpRemoved
<1>. QED
  BY <1>1, <1>2, <1>3, <1>4, <1>5, <1>6

\* lckpwdf() returns 0.
LEMMA LckpwdfGrantedKeepsBase ==
  ASSUME Base, NEW p \in Procs, LckpwdfGranted(p)
  PROVE  Base'
<1>. USE NamesAssumption DEF Base, TypeOK, Attempt, InLockFile, LckpwdfGranted, GoTo
<1>1. TypeOK'
  OBVIOUS
<1>2. LckpwdfAsked'
  BY DEF LckpwdfAsked
<1>3. LckpwdfNotLeftBehind'
  BY DEF LckpwdfNotLeftBehind, LckpwdfAsked
<1>4. DeadHoldNothing' /\ NotYetLocked'
  BY DEF DeadHoldNothing, NotYetLocked
<1>5. LinkedIsOwn'
  BY DEF LinkedIsOwn
<1>6. TmpRemoved'
  BY DEF TmpRemoved
<1>. QED
  BY <1>1, <1>2, <1>3, <1>4, <1>5, <1>6

\* lckpwdf() returns -1.
LEMMA LckpwdfTimeoutKeepsBase ==
  ASSUME Base, NEW p \in Procs, LckpwdfTimeout(p)
  PROVE  Base'
<1>. USE NamesAssumption DEF Base, TypeOK, Attempt, InLockFile, LckpwdfTimeout, GoTo
<1>1. TypeOK'
  OBVIOUS
<1>2. LckpwdfAsked'
  BY DEF LckpwdfAsked
<1>3. LckpwdfNotLeftBehind'
  BY DEF LckpwdfNotLeftBehind, LckpwdfAsked
<1>4. DeadHoldNothing' /\ NotYetLocked'
  BY DEF DeadHoldNothing, NotYetLocked
<1>5. LinkedIsOwn'
  BY DEF LinkedIsOwn
<1>6. TmpRemoved'
  BY DEF TmpRemoved
<1>. QED
  BY <1>1, <1>2, <1>3, <1>4, <1>5, <1>6

\* The lock may get the pid back.
LEMMA WriteTmpKeepsBase ==
  ASSUME Base, NEW p \in Procs, WriteTmp(p)
  PROVE  Base'
<1>. USE NamesAssumption DEF Base, TypeOK, Attempt, InLockFile, WriteTmp, GoTo
<1>1. TypeOK'
  OBVIOUS
<1>2. LckpwdfAsked'
  BY DEF LckpwdfAsked
<1>3. LckpwdfNotLeftBehind'
  BY DEF LckpwdfNotLeftBehind
<1>4. DeadHoldNothing' /\ NotYetLocked'
  BY DEF DeadHoldNothing, NotYetLocked
<1>5. LinkedIsOwn'
  BY DEF LinkedIsOwn
<1>6. TmpRemoved'
  BY DEF TmpRemoved
<1>. QED
  BY <1>1, <1>2, <1>3, <1>4, <1>5, <1>6

\* link() finds a lock.
LEMMA LinkExistsKeepsBase ==
  ASSUME Base, NEW p \in Procs, LinkExists(p)
  PROVE  Base'
<1>. USE NamesAssumption DEF Base, TypeOK, Attempt, InLockFile, LinkExists, GoTo
<1>1. TypeOK'
  OBVIOUS
<1>2. LckpwdfAsked'
  BY DEF LckpwdfAsked
<1>3. LckpwdfNotLeftBehind'
  BY DEF LckpwdfNotLeftBehind
<1>4. DeadHoldNothing' /\ NotYetLocked'
  BY DEF DeadHoldNothing, NotYetLocked
<1>5. LinkedIsOwn'
  BY DEF LinkedIsOwn
<1>6. TmpRemoved'
  BY DEF TmpRemoved
<1>. QED
  BY <1>1, <1>2, <1>3, <1>4, <1>5, <1>6

\* do_lock_file returns 1 with the lock linked to its own file.
LEMMA GrantedKeepsBase ==
  ASSUME Base, NEW p \in Procs, pc[p] = "check",
         tmp[p][cur[p]] = "linked", Granted(p), UNCHANGED lock,
         tmp' = [tmp EXCEPT ![p][cur[p]] = "absent"]
  PROVE  Base'
<1>. USE NamesAssumption DEF Base, TypeOK, Attempt, InLockFile, Granted, Returns, GoTo
<1>1. TypeOK'
  OBVIOUS
<1>2. LckpwdfAsked'
  BY DEF LckpwdfAsked
<1>3. LckpwdfNotLeftBehind'
  BY DEF LckpwdfNotLeftBehind
<1>4. DeadHoldNothing' /\ NotYetLocked'
  BY DEF DeadHoldNothing, NotYetLocked
<1>5. LinkedIsOwn'
  BY DEF LinkedIsOwn
<1>6. TmpRemoved'
  BY DEF TmpRemoved
<1>. QED
  BY <1>1, <1>2, <1>3, <1>4, <1>5, <1>6

\* The pid read is the pid the lock holds.
LEMMA ReadLockKeepsBase ==
  ASSUME Base, NEW p \in Procs, pc[p] = "read", lock[cur[p]] \in Procs,
         seen' = [seen EXCEPT ![p] = lock[cur[p]]], GoTo(p, "kill"),
         UNCHANGED <<cur, tries, tmp, lock, locked, lockCount, lckHolder>>
  PROVE  Base'
<1>. USE NamesAssumption DEF Base, TypeOK, Attempt, InLockFile, GoTo
<1>1. TypeOK'
  OBVIOUS
<1>2. LckpwdfAsked'
  BY DEF LckpwdfAsked
<1>3. LckpwdfNotLeftBehind'
  BY DEF LckpwdfNotLeftBehind
<1>4. DeadHoldNothing' /\ NotYetLocked'
  BY DEF DeadHoldNothing, NotYetLocked
<1>5. LinkedIsOwn'
  BY DEF LinkedIsOwn
<1>6. TmpRemoved'
  BY DEF TmpRemoved
<1>. QED
  BY <1>1, <1>2, <1>3, <1>4, <1>5, <1>6

\* An owner found dead holds nothing, so the lock is free or gone.
LEMMA OwnerDeadKeepsBase ==
  ASSUME Base, NEW p \in Procs, pc[p] = "kill", ~ Alive(seen[p]),
         GoTo(p, "break"),
         UNCHANGED <<cur, seen, tries, tmp, lock, locked, lockCount, lckHolder>>
  PROVE  Base'
<1>. USE NamesAssumption DEF Base, TypeOK, Attempt, InLockFile, GoTo, Alive
<1>1. TypeOK'
  OBVIOUS
<1>2. LckpwdfAsked'
  BY DEF LckpwdfAsked
<1>3. LckpwdfNotLeftBehind'
  BY DEF LckpwdfNotLeftBehind
<1>4. DeadHoldNothing' /\ NotYetLocked'
  BY DEF DeadHoldNothing, NotYetLocked
<1>5. LinkedIsOwn'
  BY DEF LinkedIsOwn
<1>6. TmpRemoved'
  BY DEF TmpRemoved
<1>. QED
  BY <1>1, <1>2, <1>3, <1>4, <1>5, <1>6

\* A free lock is unlinked.
LEMMA LockBrokenKeepsBase ==
  ASSUME Base, NEW p \in Procs, pc[p] = "break",
         lock' = [lock EXCEPT ![cur[p]] = None], tmp' = UnlinkedLock(cur[p]),
         GoTo(p, "relink"),
         UNCHANGED <<cur, seen, tries, locked, lockCount, lckHolder>>
  PROVE  Base'
<1>. USE NamesAssumption DEF Base, TypeOK, Attempt, InLockFile, GoTo, UnlinkedLock
<1>1. TypeOK'
  OBVIOUS
<1>2. LckpwdfAsked'
  BY DEF LckpwdfAsked
<1>3. LckpwdfNotLeftBehind'
  BY DEF LckpwdfNotLeftBehind
<1>4. DeadHoldNothing' /\ NotYetLocked'
  BY DEF DeadHoldNothing, NotYetLocked
<1>5. LinkedIsOwn'
  BY DEF LinkedIsOwn
<1>6. TmpRemoved'
  BY DEF TmpRemoved
<1>. QED
  BY <1>1, <1>2, <1>3, <1>4, <1>5, <1>6

\* commonio_unlock: the lock that is unlinked is that of the caller.
LEMMA UnlockKeepsBase ==
  ASSUME Base, NEW p \in Procs, NEW f \in Files, Unlock(p, f)
  PROVE  Base'
<1>. USE NamesAssumption DEF Base, TypeOK, Attempt, InLockFile, Unlock, UnlinkedLock, Ulckpwdf
<1>1. TypeOK'
  OBVIOUS
<1>2. LckpwdfAsked'
  BY DEF LckpwdfAsked
<1>3. LckpwdfNotLeftBehind'
  BY DEF LckpwdfNotLeftBehind
<1>4. DeadHoldNothing' /\ NotYetLocked'
  BY DEF DeadHoldNothing, NotYetLocked
<1>5. LinkedIsOwn'
  BY DEF LinkedIsOwn
<1>6. TmpRemoved'
  BY DEF TmpRemoved
<1>. QED
  BY <1>1, <1>2, <1>3, <1>4, <1>5, <1>6

\* A process ends.
LEMMA DieKeepsBase ==
  ASSUME Base, NEW p \in Procs, Die(p)
  PROVE  Base'
<1>. USE NamesAssumption DEF Base, TypeOK, Attempt, InLockFile, Die, Returns, GoTo, Ulckpwdf, Alive
<1>1. TypeOK'
  OBVIOUS
<1>2. LckpwdfAsked'
  BY DEF LckpwdfAsked
<1>3. LckpwdfNotLeftBehind'
  BY DEF LckpwdfNotLeftBehind
<1>4. DeadHoldNothing' /\ NotYetLocked'
  BY DEF DeadHoldNothing, NotYetLocked
<1>5. LinkedIsOwn'
  BY DEF LinkedIsOwn
<1>6. TmpRemoved'
  BY DEF TmpRemoved
<1>. QED
  BY <1>1, <1>2, <1>3, <1>4, <1>5, <1>6

\* A pid is used again.
LEMMA StartKeepsBase ==
  ASSUME Base, NEW p \in Procs, Start(p)
  PROVE  Base'
<1>. USE NamesAssumption DEF Base, TypeOK, Attempt, InLockFile, Start, GoTo
<1>1. TypeOK'
  OBVIOUS
<1>2. LckpwdfAsked'
  BY DEF LckpwdfAsked
<1>3. LckpwdfNotLeftBehind'
  BY DEF LckpwdfNotLeftBehind
<1>4. DeadHoldNothing' /\ NotYetLocked'
  BY DEF DeadHoldNothing, NotYetLocked
<1>5. LinkedIsOwn'
  BY DEF LinkedIsOwn
<1>6. TmpRemoved'
  BY DEF TmpRemoved
<1>. QED
  BY <1>1, <1>2, <1>3, <1>4, <1>5, <1>6

\* Every step, with or without a refusal in it, keeps Base.
LEMMA AttemptKeepsBase ==
  ASSUME Base, NEW p \in Procs, AttemptStep(p)
  PROVE  Base'
<1>. USE DEF InLockFile, Attempt
<1>1. CASE LckpwdfGranted(p)
  BY <1>1, LckpwdfGrantedKeepsBase
<1>2. CASE LckpwdfTimeout(p)
  BY <1>2, LckpwdfTimeoutKeepsBase
<1>3. CASE CreateTmp(p)
  BY <1>3, CreateTmpKeepsBase
<1>4. CASE CreateTmpFails(p)
  BY <1>4, RefusedKeepsBase DEF CreateTmpFails
<1>5. CASE WriteTmp(p)
  BY <1>5, WriteTmpKeepsBase
<1>6. CASE WriteTmpFails(p)
  BY <1>6, RefusedKeepsBase DEF WriteTmpFails, SetTmp
<1>7. CASE LinkTmp(p)
  BY <1>7, LinkSucceedsKeepsBase DEF LinkTmp
<1>8. CASE LinkExists(p)
  BY <1>8, LinkExistsKeepsBase
<1>9. CASE CheckLinkCount(p)
  BY <1>9, GrantedKeepsBase, RefusedKeepsBase DEF CheckLinkCount, SetTmp
<1>10. CASE ReadLock(p)
  BY <1>10, ReadLockKeepsBase, RefusedKeepsBase DEF ReadLock, SetTmp
<1>11. CASE ProbeOwner(p)
  BY <1>11, OwnerDeadKeepsBase, RefusedKeepsBase DEF ProbeOwner, SetTmp
<1>12. CASE BreakLock(p)
  BY <1>12, LockBrokenKeepsBase, RefusedKeepsBase DEF BreakLock, SetTmp
<1>13. CASE Relink(p)
  BY <1>13, LinkSucceedsKeepsBase DEF Relink
<1>14. CASE RelinkFails(p)
  BY <1>14, RefusedKeepsBase DEF RelinkFails, SetTmp
<1>. QED
  BY <1>1, <1>2, <1>3, <1>4, <1>5, <1>6, <1>7, <1>8, <1>9, <1>10, <1>11, <1>12,
     <1>13, <1>14 DEF AttemptStep

LEMMA NextKeepsBase ==
  ASSUME Base, [Next]_vars
  PROVE  Base'
<1>1. CASE UNCHANGED vars
  BY <1>1 DEF vars, Base, TypeOK, LckpwdfAsked, LckpwdfNotLeftBehind, DeadHoldNothing,
     NotYetLocked, LinkedIsOwn, TmpRemoved
<1>2. ASSUME NEW p \in Procs, Step(p)
      PROVE  Base'
  BY <1>2, BeginLockKeepsBase, UnlockKeepsBase, AttemptKeepsBase, DieKeepsBase,
     StartKeepsBase DEF Step
<1>. QED
  BY <1>1, <1>2 DEF Next

\* Nobody has a lock at first, whatever lock files are found.
LEMMA InitBase == Init => Base
<1>. SUFFICES ASSUME Init
              PROVE  Base
  OBVIOUS
<1>. USE NamesAssumption DEF Init
<1>1. TypeOK
  BY DEF TypeOK, Attempt
<1>2. LckpwdfAsked /\ LckpwdfNotLeftBehind /\ DeadHoldNothing
  BY DEF LckpwdfAsked, LckpwdfNotLeftBehind, DeadHoldNothing
<1>3. NotYetLocked /\ LinkedIsOwn /\ TmpRemoved
  BY DEF NotYetLocked, LinkedIsOwn, TmpRemoved, Attempt
<1>. QED
  BY <1>1, <1>2, <1>3 DEF Base

\* What holds of the lock protocol for any number of processes and files,
\* with lckpwdf() and without it (commonio_lock, do_lock_file and
\* commonio_unlock, also on files named with commonio_setname).
THEOREM LockBase == Spec => []Base
<1>1. Base /\ [Next]_vars => Base'
  BY NextKeepsBase
<1>. QED
  BY <1>1, InitBase, PTL DEF Spec

-----------------------------------------------------------------------------
(* When all use lckpwdf() *)

\* A refusal, on any path of do_lock_file.
LEMMA RefusedKeepsIInv ==
  ASSUME SetName = {}, IInv, NEW p \in Procs, pc[p] \in InLockFile, Refused(p),
         UNCHANGED lock,
         \/ UNCHANGED tmp /\ pc[p] = "create"
         \/ tmp' = [tmp EXCEPT ![p][cur[p]] = "absent"]
  PROVE  IInv'
<1>1. Base'
  BY RefusedKeepsBase DEF IInv
<1>2. UsesLckpwdf(p)
  BY DEF UsesLckpwdf
<1>3. /\ pc' = [pc EXCEPT ![p] = "failing"]
      /\ cur' = [cur EXCEPT ![p] = None]
      /\ seen' = [seen EXCEPT ![p] = None]
      /\ lckHolder' = IF lckHolder = p THEN None ELSE lckHolder
      /\ UNCHANGED <<locked, lockCount>>
  BY <1>2, RefusedEffect DEF IInv, Base, Ulckpwdf
<1>4. LckpwdfHeld'
  BY <1>3, NamesAssumption DEF IInv, Base, TypeOK, LckpwdfHeld, InLockFile, Attempt
<1>5. HolderOwnsLockFile'
  BY <1>3 DEF IInv, HolderOwnsLockFile
<1>6. ReadIsCurrent'
  BY <1>3 DEF IInv, Base, TypeOK, ReadIsCurrent
<1>7. BrokenIsFree'
  BY <1>3 DEF IInv, Base, TypeOK, BrokenIsFree
<1>. QED
  BY <1>1, <1>4, <1>5, <1>6, <1>7 DEF IInv

\* The lock may lose its pid; nobody holds it then.
LEMMA CreateTmpKeepsIInv ==
  ASSUME SetName = {}, IInv, NEW p \in Procs, CreateTmp(p)
  PROVE  IInv'
<1>. USE NamesAssumption DEF IInv, Base, TypeOK, Attempt, InLockFile
<1>. DEFINE f == cur[p]
<1>1. /\ pc[p] = "create" /\ f \in Files
      /\ pc' = [pc EXCEPT ![p] = "write"]
      /\ UNCHANGED <<cur, seen, tries, locked, lockCount, lckHolder>>
  BY DEF CreateTmp, GoTo
<1>2. \/ tmp[p][f] = "linked" /\ lock' = [lock EXCEPT ![f] = Garbage]
      \/ UNCHANGED lock
  BY DEF CreateTmp
<1>3. \A q \in Procs : ~ (tmp[p][f] = "linked" /\ locked[q][f])
  <2>1. SUFFICES ASSUME NEW q \in Procs, tmp[p][f] = "linked", locked[q][f]
                 PROVE  FALSE
    OBVIOUS
  <2>2. lock[f] = q /\ lock[f] \in {p, Garbage}
    BY <1>1, <2>1 DEF HolderOwnsLockFile, LinkedIsOwn
  <2>3. q # p
    BY <1>1, <2>1 DEF NotYetLocked
  <2>. QED
    BY <2>2, <2>3
<1>4. Base'
  BY CreateTmpKeepsBase
<1>5. LckpwdfHeld'
  BY <1>1 DEF LckpwdfHeld
<1>6. HolderOwnsLockFile'
  BY <1>1, <1>2, <1>3 DEF HolderOwnsLockFile
<1>7. ReadIsCurrent' /\ BrokenIsFree'
  BY <1>1 DEF ReadIsCurrent, BrokenIsFree, LckpwdfHeld
<1>. QED
  BY <1>4, <1>5, <1>6, <1>7 DEF IInv

\* link() creates the lock: nothing was linked to it before.
LEMMA LinkSucceedsKeepsIInv ==
  ASSUME SetName = {}, IInv, NEW p \in Procs, pc[p] \in {"link", "relink"}, LinkSucceeds(p)
  PROVE  IInv'
<1>. USE NamesAssumption DEF IInv, Base, TypeOK, Attempt, InLockFile, LinkSucceeds, GoTo, SetTmp
<1>1. Base'
  BY LinkSucceedsKeepsBase
<1>2. LckpwdfHeld'
  BY DEF LckpwdfHeld
<1>3. HolderOwnsLockFile'
  BY DEF HolderOwnsLockFile
<1>4. ReadIsCurrent'
  BY DEF ReadIsCurrent, LckpwdfHeld
<1>5. BrokenIsFree'
  BY DEF BrokenIsFree, LckpwdfHeld
<1>. QED
  BY <1>1, <1>2, <1>3, <1>4, <1>5 DEF IInv

\* A process starts to take a lock.
LEMMA BeginLockKeepsIInv ==
  ASSUME SetName = {}, IInv, NEW p \in Procs, NEW f \in Files, BeginLock(p, f)
  PROVE  IInv'
<1>. USE NamesAssumption DEF IInv, Base, TypeOK, Attempt, InLockFile, BeginLock, GoTo, UsesLckpwdf
<1>1. Base'
  BY BeginLockKeepsBase
<1>2. LckpwdfHeld'
  BY DEF LckpwdfHeld, LckpwdfNotLeftBehind
<1>3. HolderOwnsLockFile'
  BY DEF HolderOwnsLockFile
<1>4. ReadIsCurrent'
  BY DEF ReadIsCurrent
<1>5. BrokenIsFree'
  BY DEF BrokenIsFree
<1>. QED
  BY <1>1, <1>2, <1>3, <1>4, <1>5 DEF IInv

\* lckpwdf() returns 0.
LEMMA LckpwdfGrantedKeepsIInv ==
  ASSUME SetName = {}, IInv, NEW p \in Procs, LckpwdfGranted(p)
  PROVE  IInv'
<1>. USE NamesAssumption DEF IInv, Base, TypeOK, Attempt, InLockFile, LckpwdfGranted, GoTo
<1>1. Base'
  BY LckpwdfGrantedKeepsBase
<1>2. LckpwdfHeld'
  BY DEF LckpwdfHeld, LckpwdfNotLeftBehind
<1>3. HolderOwnsLockFile'
  BY DEF HolderOwnsLockFile
<1>4. ReadIsCurrent'
  BY DEF ReadIsCurrent
<1>5. BrokenIsFree'
  BY DEF BrokenIsFree
<1>. QED
  BY <1>1, <1>2, <1>3, <1>4, <1>5 DEF IInv

\* lckpwdf() returns -1.
LEMMA LckpwdfTimeoutKeepsIInv ==
  ASSUME SetName = {}, IInv, NEW p \in Procs, LckpwdfTimeout(p)
  PROVE  IInv'
<1>. USE NamesAssumption DEF IInv, Base, TypeOK, Attempt, InLockFile, LckpwdfTimeout, GoTo
<1>1. Base'
  BY LckpwdfTimeoutKeepsBase
<1>2. LckpwdfHeld'
  BY DEF LckpwdfHeld, LckpwdfNotLeftBehind
<1>3. HolderOwnsLockFile'
  BY DEF HolderOwnsLockFile
<1>4. ReadIsCurrent'
  BY DEF ReadIsCurrent
<1>5. BrokenIsFree'
  BY DEF BrokenIsFree
<1>. QED
  BY <1>1, <1>2, <1>3, <1>4, <1>5 DEF IInv

\* The lock may get the pid back.
LEMMA WriteTmpKeepsIInv ==
  ASSUME SetName = {}, IInv, NEW p \in Procs, WriteTmp(p)
  PROVE  IInv'
<1>. USE NamesAssumption DEF IInv, Base, TypeOK, Attempt, InLockFile, WriteTmp, GoTo
<1>1. Base'
  BY WriteTmpKeepsBase
<1>2. LckpwdfHeld'
  BY DEF LckpwdfHeld
<1>3. HolderOwnsLockFile'
  BY DEF HolderOwnsLockFile, LinkedIsOwn
<1>4. ReadIsCurrent'
  BY DEF ReadIsCurrent, LckpwdfHeld
<1>5. BrokenIsFree'
  BY DEF BrokenIsFree, LckpwdfHeld
<1>. QED
  BY <1>1, <1>2, <1>3, <1>4, <1>5 DEF IInv

\* link() finds a lock.
LEMMA LinkExistsKeepsIInv ==
  ASSUME SetName = {}, IInv, NEW p \in Procs, LinkExists(p)
  PROVE  IInv'
<1>. USE NamesAssumption DEF IInv, Base, TypeOK, Attempt, InLockFile, LinkExists, GoTo
<1>1. Base'
  BY LinkExistsKeepsBase
<1>2. LckpwdfHeld'
  BY DEF LckpwdfHeld
<1>3. HolderOwnsLockFile'
  BY DEF HolderOwnsLockFile
<1>4. ReadIsCurrent'
  BY DEF ReadIsCurrent
<1>5. BrokenIsFree'
  BY DEF BrokenIsFree
<1>. QED
  BY <1>1, <1>2, <1>3, <1>4, <1>5 DEF IInv

\* do_lock_file returns 1 with the lock linked to its own file.
LEMMA GrantedKeepsIInv ==
  ASSUME SetName = {}, IInv, NEW p \in Procs, pc[p] = "check",
         tmp[p][cur[p]] = "linked", Granted(p), UNCHANGED lock,
         tmp' = [tmp EXCEPT ![p][cur[p]] = "absent"]
  PROVE  IInv'
<1>. USE NamesAssumption DEF IInv, Base, TypeOK, Attempt, InLockFile, Granted, Returns, GoTo
<1>1. Base'
  BY GrantedKeepsBase
<1>2. LckpwdfHeld'
  BY DEF LckpwdfHeld, LckpwdfNotLeftBehind
<1>3. HolderOwnsLockFile'
  BY DEF HolderOwnsLockFile, LinkedIsOwn
<1>4. ReadIsCurrent'
  BY DEF ReadIsCurrent, LckpwdfHeld
<1>5. BrokenIsFree'
  BY DEF BrokenIsFree, LckpwdfHeld
<1>. QED
  BY <1>1, <1>2, <1>3, <1>4, <1>5 DEF IInv

\* The pid read is the pid the lock holds.
LEMMA ReadLockKeepsIInv ==
  ASSUME SetName = {}, IInv, NEW p \in Procs, pc[p] = "read", lock[cur[p]] \in Procs,
         seen' = [seen EXCEPT ![p] = lock[cur[p]]], GoTo(p, "kill"),
         UNCHANGED <<cur, tries, tmp, lock, locked, lockCount, lckHolder>>
  PROVE  IInv'
<1>. USE NamesAssumption DEF IInv, Base, TypeOK, Attempt, InLockFile, GoTo
<1>1. Base'
  BY ReadLockKeepsBase
<1>2. LckpwdfHeld'
  BY DEF LckpwdfHeld
<1>3. HolderOwnsLockFile'
  BY DEF HolderOwnsLockFile
<1>4. ReadIsCurrent'
  BY DEF ReadIsCurrent
<1>5. BrokenIsFree'
  BY DEF BrokenIsFree
<1>. QED
  BY <1>1, <1>2, <1>3, <1>4, <1>5 DEF IInv

\* An owner found dead holds nothing, so the lock is free or gone.
LEMMA OwnerDeadKeepsIInv ==
  ASSUME SetName = {}, IInv, NEW p \in Procs, pc[p] = "kill", ~ Alive(seen[p]),
         GoTo(p, "break"),
         UNCHANGED <<cur, seen, tries, tmp, lock, locked, lockCount, lckHolder>>
  PROVE  IInv'
<1>. USE NamesAssumption DEF IInv, Base, TypeOK, Attempt, InLockFile, GoTo, Alive
<1>1. Base'
  BY OwnerDeadKeepsBase
<1>2. LckpwdfHeld'
  BY DEF LckpwdfHeld
<1>3. HolderOwnsLockFile'
  BY DEF HolderOwnsLockFile
<1>4. ReadIsCurrent'
  BY DEF ReadIsCurrent
<1>5. BrokenIsFree'
  <2>1. \A q \in Procs : ~ locked[q][cur[p]]
    <3>1. cur[p] \in Files /\ seen[p] \in Procs
      OBVIOUS
    <3>2. \A q \in Procs : locked[q][cur[p]] => q = seen[p]
      BY <3>1 DEF ReadIsCurrent, HolderOwnsLockFile
    <3>. QED
      BY <3>1, <3>2 DEF DeadHoldNothing
  <2>. QED
    BY <2>1 DEF BrokenIsFree
<1>. QED
  BY <1>1, <1>2, <1>3, <1>4, <1>5 DEF IInv

\* A free lock is unlinked.
LEMMA LockBrokenKeepsIInv ==
  ASSUME SetName = {}, IInv, NEW p \in Procs, pc[p] = "break",
         lock' = [lock EXCEPT ![cur[p]] = None], tmp' = UnlinkedLock(cur[p]),
         GoTo(p, "relink"),
         UNCHANGED <<cur, seen, tries, locked, lockCount, lckHolder>>
  PROVE  IInv'
<1>. USE NamesAssumption DEF IInv, Base, TypeOK, Attempt, InLockFile, GoTo, UnlinkedLock
<1>1. Base'
  BY LockBrokenKeepsBase
<1>2. LckpwdfHeld'
  BY DEF LckpwdfHeld
<1>3. HolderOwnsLockFile'
  BY DEF HolderOwnsLockFile, BrokenIsFree
<1>4. ReadIsCurrent'
  BY DEF ReadIsCurrent, LckpwdfHeld
<1>5. BrokenIsFree'
  BY DEF BrokenIsFree, LckpwdfHeld
<1>. QED
  BY <1>1, <1>2, <1>3, <1>4, <1>5 DEF IInv

\* commonio_unlock: the lock that is unlinked is that of the caller.
LEMMA UnlockKeepsIInv ==
  ASSUME SetName = {}, IInv, NEW p \in Procs, NEW f \in Files, Unlock(p, f)
  PROVE  IInv'
<1>. USE NamesAssumption DEF IInv, Base, TypeOK, Attempt, InLockFile, Unlock, UnlinkedLock, Ulckpwdf
<1>1. Base'
  BY UnlockKeepsBase
<1>2. LckpwdfHeld'
  BY DEF LckpwdfHeld, LckpwdfNotLeftBehind
<1>3. HolderOwnsLockFile'
  BY DEF HolderOwnsLockFile
<1>4. ReadIsCurrent'
  BY DEF ReadIsCurrent
<1>5. BrokenIsFree'
  BY DEF BrokenIsFree
<1>. QED
  BY <1>1, <1>2, <1>3, <1>4, <1>5 DEF IInv

\* A process ends.
LEMMA DieKeepsIInv ==
  ASSUME SetName = {}, IInv, NEW p \in Procs, Die(p)
  PROVE  IInv'
<1>. USE NamesAssumption DEF IInv, Base, TypeOK, Attempt, InLockFile, Die, Returns, GoTo, Ulckpwdf, Alive
<1>1. Base'
  BY DieKeepsBase
<1>2. LckpwdfHeld'
  BY DEF LckpwdfHeld
<1>3. HolderOwnsLockFile'
  BY DEF HolderOwnsLockFile
<1>4. ReadIsCurrent'
  BY DEF ReadIsCurrent
<1>5. BrokenIsFree'
  BY DEF BrokenIsFree
<1>. QED
  BY <1>1, <1>2, <1>3, <1>4, <1>5 DEF IInv

\* A pid is used again.
LEMMA StartKeepsIInv ==
  ASSUME SetName = {}, IInv, NEW p \in Procs, Start(p)
  PROVE  IInv'
<1>. USE NamesAssumption DEF IInv, Base, TypeOK, Attempt, InLockFile, Start, GoTo
<1>1. Base'
  BY StartKeepsBase
<1>2. LckpwdfHeld'
  BY DEF LckpwdfHeld, DeadHoldNothing, LckpwdfNotLeftBehind
<1>3. HolderOwnsLockFile'
  BY DEF HolderOwnsLockFile
<1>4. ReadIsCurrent'
  BY DEF ReadIsCurrent
<1>5. BrokenIsFree'
  BY DEF BrokenIsFree
<1>. QED
  BY <1>1, <1>2, <1>3, <1>4, <1>5 DEF IInv

\* Every step, with or without a refusal in it, keeps the invariant.
LEMMA AttemptKeepsIInv ==
  ASSUME SetName = {}, IInv, NEW p \in Procs, AttemptStep(p)
  PROVE  IInv'
<1>. USE DEF InLockFile, Attempt
<1>1. CASE LckpwdfGranted(p)
  BY <1>1, LckpwdfGrantedKeepsIInv
<1>2. CASE LckpwdfTimeout(p)
  BY <1>2, LckpwdfTimeoutKeepsIInv
<1>3. CASE CreateTmp(p)
  BY <1>3, CreateTmpKeepsIInv
<1>4. CASE CreateTmpFails(p)
  BY <1>4, RefusedKeepsIInv DEF CreateTmpFails
<1>5. CASE WriteTmp(p)
  BY <1>5, WriteTmpKeepsIInv
<1>6. CASE WriteTmpFails(p)
  BY <1>6, RefusedKeepsIInv DEF WriteTmpFails, SetTmp
<1>7. CASE LinkTmp(p)
  BY <1>7, LinkSucceedsKeepsIInv DEF LinkTmp
<1>8. CASE LinkExists(p)
  BY <1>8, LinkExistsKeepsIInv
<1>9. CASE CheckLinkCount(p)
  BY <1>9, GrantedKeepsIInv, RefusedKeepsIInv DEF CheckLinkCount, SetTmp
<1>10. CASE ReadLock(p)
  BY <1>10, ReadLockKeepsIInv, RefusedKeepsIInv DEF ReadLock, SetTmp
<1>11. CASE ProbeOwner(p)
  BY <1>11, OwnerDeadKeepsIInv, RefusedKeepsIInv DEF ProbeOwner, SetTmp
<1>12. CASE BreakLock(p)
  BY <1>12, LockBrokenKeepsIInv, RefusedKeepsIInv DEF BreakLock, SetTmp
<1>13. CASE Relink(p)
  BY <1>13, LinkSucceedsKeepsIInv DEF Relink
<1>14. CASE RelinkFails(p)
  BY <1>14, RefusedKeepsIInv DEF RelinkFails, SetTmp
<1>. QED
  BY <1>1, <1>2, <1>3, <1>4, <1>5, <1>6, <1>7, <1>8, <1>9, <1>10, <1>11, <1>12,
     <1>13, <1>14 DEF AttemptStep

\* No step of the lock protocol loses the invariant (do_lock_file and its
\* callers, the death of a process and a new one with its pid).
LEMMA NextKeepsIInv ==
  ASSUME SetName = {}, IInv, [Next]_vars
  PROVE  IInv'
<1>1. CASE UNCHANGED vars
  <2>1. Base'
    BY NextKeepsBase DEF IInv
  <2>. QED
    BY <1>1, <2>1 DEF vars, IInv, LckpwdfHeld, HolderOwnsLockFile, ReadIsCurrent, BrokenIsFree
<1>2. ASSUME NEW p \in Procs, Step(p)
      PROVE  IInv'
  BY <1>2, BeginLockKeepsIInv, UnlockKeepsIInv, AttemptKeepsIInv, DieKeepsIInv,
     StartKeepsIInv DEF Step
<1>. QED
  BY <1>1, <1>2 DEF Next

\* The invariant holds when nobody has a lock, whatever lock files are found.
LEMMA InitIInv == Init => IInv
<1>. SUFFICES ASSUME Init
              PROVE  IInv
  OBVIOUS
<1>1. LckpwdfHeld /\ HolderOwnsLockFile /\ ReadIsCurrent /\ BrokenIsFree
  BY DEF Init, LckpwdfHeld, HolderOwnsLockFile, ReadIsCurrent, BrokenIsFree, InLockFile,
     Attempt
<1>. QED
  BY <1>1, InitBase DEF IInv

\* The invariant of the lock protocol, for any number of processes and files
\* (commonio_lock and commonio_unlock under lckpwdf).
THEOREM LockInvariant ==
  ASSUME SetName = {}
  PROVE  Spec => []IInv
<1>1. IInv /\ [Next]_vars => IInv'
  BY NextKeepsIInv
<1>. QED
  BY <1>1, InitIInv, PTL DEF Spec

-----------------------------------------------------------------------------
(* The results *)

\* The locking code keeps its state well typed.
THEOREM LockTypeOK == Spec => []TypeOK
<1>1. Base => TypeOK
  BY DEF Base
<1>. QED
  BY <1>1, LockBase, PTL

\* Two processes never hold the lock of one database file, whatever stale
\* locks they find, whoever dies and whichever pid is used again
\* (do_lock_file under lckpwdf).
THEOREM LockMutualExclusion ==
  ASSUME SetName = {}
  PROVE  Spec => []MutualExclusion
<1>1. IInv => MutualExclusion
  BY DEF IInv, HolderOwnsLockFile, MutualExclusion
<1>. QED
  BY <1>1, LockInvariant, PTL

\* The lock file of a held database is never broken or replaced by another
\* process.
THEOREM LockFileIsHolders ==
  ASSUME SetName = {}
  PROVE  Spec => []HolderOwnsLockFile
<1>1. IInv => HolderOwnsLockFile
  BY DEF IInv
<1>. QED
  BY <1>1, LockInvariant, PTL

\* commonio_lock and commonio_unlock never leave lckpwdf() locked behind them,
\* whichever processes use it.
THEOREM LockLckpwdfReleased == Spec => []LckpwdfNotLeftBehind
<1>1. Base => LckpwdfNotLeftBehind
  BY DEF Base
<1>. QED
  BY <1>1, LockBase, PTL

\* No path of do_lock_file forgets "f.<pid>": the temporary file of a process
\* that lives on is there only between its creation and the return, with
\* lckpwdf() or without.
THEOREM LockTmpRemoved == Spec => []TmpRemoved
<1>1. Base => TmpRemoved
  BY DEF Base
<1>. QED
  BY <1>1, LockBase, PTL

\* The link count decides: db->locked is set only while the lock file is the
\* caller's, also when nobody uses lckpwdf() and rivals break each other's
\* locks (check_link_count in do_lock_file).
THEOREM LockGrantOwns == Spec => GrantOwnsLock
<1>1. ASSUME Base, [Next]_vars, NEW p \in Procs, NEW f \in Files, ~ locked[p][f], locked'[p][f]
      PROVE  lock'[f] = p
  <2>1. PICK q \in Procs : Step(q)
    BY <1>1 DEF Next, vars
  <2>2. UNCHANGED locked \/ CheckLinkCount(q) \/ Die(q) \/ \E g \in Files : Unlock(q, g)
    BY <2>1 DEF Step, BeginLock, Start, AttemptStep, LckpwdfGranted, LckpwdfTimeout, CreateTmp,
       CreateTmpFails, WriteTmp, WriteTmpFails, LinkTmp, LinkExists, ReadLock, ProbeOwner,
       BreakLock, Relink, RelinkFails, LinkSucceeds, Refused
  <2>3. CASE UNCHANGED locked
    BY <1>1, <2>3
  <2>4. CASE CheckLinkCount(q)
    <3>1. /\ tmp[q][cur[q]] = "linked" /\ pc[q] = "check"
          /\ locked' = [locked EXCEPT ![q][cur[q]] = TRUE] /\ UNCHANGED lock
      BY <1>1, <2>4 DEF CheckLinkCount, Granted, Refused
    <3>2. q = p /\ cur[q] = f
      BY <1>1, <3>1 DEF Base, TypeOK
    <3>. QED
      BY <1>1, <3>1, <3>2 DEF Base, LinkedIsOwn
  <2>5. CASE Die(q)
    BY <1>1, <2>5 DEF Die, Base, TypeOK
  <2>6. CASE \E g \in Files : Unlock(q, g)
    BY <1>1, <2>6 DEF Unlock, Base, TypeOK
  <2>. QED
    BY <2>2, <2>3, <2>4, <2>5, <2>6
<1>2. Base /\ [Next]_vars =>
        [\A p \in Procs, f \in Files : ~ locked[p][f] /\ locked'[p][f] => lock'[f] = p]_vars
  BY <1>1
<1>. QED
  BY <1>2, LockBase, PTL DEF Spec, GrantOwnsLock

-----------------------------------------------------------------------------
(* Refinement *)

\* The processes that hold each file, the variable of AbstractLocks.
Holders == [f \in Files |-> {p \in Procs : locked[p][f]}]

\* A step that leaves db->locked alone leaves the abstract lock alone.
LEMMA SameHolders ==
  ASSUME UNCHANGED locked
  PROVE  UNCHANGED Holders
  BY DEF Holders

\* A lock that is granted was held by nobody.
LEMMA GrantedAcquires ==
  ASSUME IInv, NEW p \in Procs, NEW f \in Files, f = cur[p],
         pc[p] = "check", tmp[p][cur[p]] = "linked", Granted(p)
  PROVE  Abstract!Acquire(p, f)
<1>1. lock[f] = p /\ ~ locked[p][f]
  BY DEF IInv, Base, TypeOK, LinkedIsOwn, NotYetLocked, Attempt
<1>2. \A q \in Procs : ~ locked[q][f]
  BY <1>1 DEF IInv, HolderOwnsLockFile
<1>3. locked' = [locked EXCEPT ![p][f] = TRUE]
  BY DEF Granted
<1>4. Holders[f] = {}
  BY <1>1, <1>2 DEF Holders
<1>5. Holders' = [Holders EXCEPT ![f] = {p}]
  <2>1. \A g \in Files : g # f => {q \in Procs : locked'[q][g]} = {q \in Procs : locked[q][g]}
    BY <1>3 DEF IInv, Base, TypeOK
  <2>2. {q \in Procs : locked'[q][f]} = {p}
    BY <1>1, <1>2, <1>3 DEF IInv, Base, TypeOK
  <2>. QED
    BY <1>1, <2>1, <2>2 DEF Holders
<1>. QED
  BY <1>1, <1>4, <1>5 DEF Abstract!Acquire, Holders

\* commonio_unlock is the release of the abstract lock.
LEMMA UnlockReleases ==
  ASSUME IInv, NEW p \in Procs, NEW f \in Files, Unlock(p, f)
  PROVE  Abstract!Release(p, f)
<1>1. locked' = [locked EXCEPT ![p][f] = FALSE] /\ locked[p][f]
  BY DEF Unlock
<1>2. Holders' = [Holders EXCEPT ![f] = @ \ {p}]
  <2>1. \A g \in Files : g # f => {q \in Procs : locked'[q][g]} = {q \in Procs : locked[q][g]}
    BY <1>1 DEF IInv, Base, TypeOK
  <2>2. {q \in Procs : locked'[q][f]} = {q \in Procs : locked[q][f]} \ {p}
    BY <1>1 DEF IInv, Base, TypeOK
  <2>. QED
    BY <2>1, <2>2 DEF Holders
<1>. QED
  BY <1>1, <1>2 DEF Abstract!Release, Holders

\* The death of a process gives back all it held.
LEMMA DieVanishes ==
  ASSUME IInv, NEW p \in Procs, Die(p)
  PROVE  Abstract!Vanish(p)
<1>1. \A f \in Files : {q \in Procs : locked'[q][f]} = {q \in Procs : locked[q][f]} \ {p}
  BY DEF Die, IInv, Base, TypeOK
<1>. QED
  BY <1>1 DEF Abstract!Vanish

\* Every step of the protocol is a step of the abstract lock, or none.
LEMMA NextImplementsLock ==
  ASSUME SetName = {}, IInv, [Next]_vars
  PROVE  [Abstract!ANext]_Holders
<1>1. CASE UNCHANGED vars
  BY <1>1, SameHolders DEF vars
<1>2. ASSUME NEW p \in Procs, Step(p)
      PROVE  [Abstract!ANext]_Holders
  <2>1. ASSUME NEW f \in Files, BeginLock(p, f)
        PROVE  UNCHANGED Holders
    BY <2>1, SameHolders DEF BeginLock
  <2>2. ASSUME NEW f \in Files, Unlock(p, f)
        PROVE  Abstract!ANext
    BY <2>2, UnlockReleases DEF Abstract!ANext
  <2>3. ASSUME CheckLinkCount(p)
        PROVE  Abstract!ANext \/ UNCHANGED Holders
    <3>1. CASE tmp[p][cur[p]] = "linked"
      <4>1. Granted(p) /\ pc[p] = "check" /\ cur[p] \in Files
        BY <2>3, <3>1 DEF CheckLinkCount, IInv, Base, TypeOK, Attempt
      <4>2. PICK f \in Files : f = cur[p]
        BY <4>1
      <4>3. Abstract!Acquire(p, f)
        BY <3>1, <4>1, <4>2, GrantedAcquires
      <4>. QED
        BY <4>3 DEF Abstract!ANext
    <3>2. CASE tmp[p][cur[p]] # "linked"
      BY <2>3, <3>2, SameHolders DEF CheckLinkCount, Refused
    <3>. QED
      BY <3>1, <3>2
  <2>4. ASSUME Die(p)
        PROVE  Abstract!ANext
    BY <2>4, DieVanishes DEF Abstract!ANext
  <2>5. ASSUME Start(p)
        PROVE  UNCHANGED Holders
    BY <2>5, SameHolders DEF Start
  <2>6. ASSUME AttemptStep(p), ~ CheckLinkCount(p)
        PROVE  UNCHANGED Holders
    BY <2>6, SameHolders DEF AttemptStep, LckpwdfGranted, LckpwdfTimeout, CreateTmp,
       CreateTmpFails, WriteTmp, WriteTmpFails, LinkTmp, LinkExists, ReadLock, ProbeOwner,
       BreakLock, Relink, RelinkFails, LinkSucceeds, Refused
  <2>. QED
    BY <1>2, <2>1, <2>2, <2>3, <2>4, <2>5, <2>6 DEF Step
<1>. QED
  BY <1>1, <1>2 DEF Next

\* commonio_lock and commonio_unlock implement the abstract lock: every step
\* of do_lock_file is an acquisition of a free file, a release by its holder,
\* a death, or nothing at all.
THEOREM LockImplementsAbstract ==
  ASSUME SetName = {}
  PROVE  Spec => ImplementsLock
<1>1. Init => Abstract!AInit
  BY DEF Init, Abstract!AInit
<1>2. IInv /\ [Next]_vars => [Abstract!ANext]_Holders
  BY NextImplementsLock
<1>. QED
  BY <1>1, <1>2, LockInvariant, PTL DEF Spec, ImplementsLock, Abstract!ASpec, Holders
=============================================================================
