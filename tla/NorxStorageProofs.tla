------------------------- MODULE NorxStorageProofs -------------------------
(***************************************************************************)
(* Proofs about NorxStorage, for any set of updates.                       *)
(*                                                                         *)
(* TypeOK and LockReleased need nothing else.  The rest is proved of the   *)
(* one service that owns the database, as norx/USERDB.md has it            *)
(* (OneOwner): MemoryNotAhead as it is; AckedSurvives when parse reads     *)
(* what is stored (Oversize is empty); that no database is cut short, and  *)
(* the refinement of DurableRegister, when moreover the service loaded its *)
(* database (FirstBoot is FALSE).  Without these hypotheses TLC has        *)
(* counterexamples: a second owner overwrites from an older memory, a      *)
(* record that parse refuses or a first boot has a torn temporary file     *)
(* promoted.                                                               *)
(*                                                                         *)
(* The argument.  The temporary file that a transaction renames is the     *)
(* same on every disk that the machine may find, because it was synced; so *)
(* after the rename every disk has the candidate as its committed file,    *)
(* except those on which the rename is not.  The candidate has every       *)
(* update acknowledged before.  An update is acknowledged when the last    *)
(* rename is on every disk.  A temporary file is promoted without a sync,  *)
(* but only while no readable database was ever committed, when nothing    *)
(* is acknowledged; and unless that is a first boot, nothing was written   *)
(* since the machine started, so that temporary file is on the disk.       *)
(***************************************************************************)
EXTENDS NorxStorage, TLAPS

\* "The mutable database is owned by the userdb service."
OneOwner == \A p, q \in Services : p = q

\* The steps at which a service holds the writer lock.
Holding == Steps \ {"idle", "lock"}

\* The calls that need the lock are made by its holder.
HolderHolds ==
  /\ \A p \in Services : pc[p] \in Holding => lock = p /\ ~ stuck
  /\ stuck => lock # Free

\* The update of a transaction was begun.
UpdateTried == \A p \in Services : Transacting(p) => update[p] \in tried

LockInv == TypeOK /\ UpdateTried /\ HolderHolds /\ LockReleased

-----------------------------------------------------------------------------
(* The invariant of one owner, on any boot *)

\* What is read is on a disk that the machine may find.
ReadIsOnDisk == files \in onDisk

\* What is acknowledged survives, if parse reads it.
AckedKept == Oversize = {} => AckedSurvives

\* The service's database has every update acknowledged, and, unless it is
\* the empty one of a first boot, it is part of the committed file.
MemIsCommitted ==
  \A p \in Services :
    mem[p] # None =>
      /\ Oversize = {} => acked \subseteq mem[p]
      /\ mem[p] # {} => /\ files.committed \in Databases
                        /\ mem[p] \subseteq files.committed.updates

\* The temporary file was renamed, and nothing failed since.
Renaming(p) == pc[p] = "sync_parent" \/ (pc[p] = "unlock" /\ ok[p])

\* Recovery replaces an unreadable file, when nothing was acknowledged.
Recovering(p) ==
  /\ mem[p] = None
  /\ Oversize = {} =>
       /\ acked = {}
       /\ pc[p] \in {"lock", "read_temp", "replace"} => files.committed \notin Databases
  /\ pc[p] = "replace" => files.temp \in Databases /\ files.temp.updates = cand[p]
  /\ Renaming(p) =>
       files.committed \in Databases /\ files.committed.updates = cand[p]

\* A transaction adds its update, and renames a synced file.
Replacing(p) ==
  /\ mem[p] # None /\ cand[p] = mem[p] \cup {update[p]}
  /\ pc[p] = "sync_file" => files.temp = Whole(cand[p])
  /\ pc[p] = "replace" => \A d \in onDisk : d.temp = Whole(cand[p])
  /\ Renaming(p) =>
       \A d \in onDisk : d.committed = Whole(cand[p])
  /\ pc[p] = "unlock" /\ ok[p] => undone = {}

CallInv ==
  \A p \in Services :
    /\ pc[p] \in {"write_temp", "sync_file"} => Transacting(p)
    /\ pc[p] = "read_temp" => ~ Transacting(p)
    /\ pc[p] # "idle" => IF Transacting(p) THEN Replacing(p) ELSE Recovering(p)

OwnerInv == LockInv /\ ReadIsOnDisk /\ AckedKept /\ MemIsCommitted /\ CallInv

-----------------------------------------------------------------------------
(* The invariant of one owner that found its database, or failed to *)

\* Every disk, save those without the last rename, has the same committed
\* file.
SameCommitted == \A d \in onDisk : d.committed = files.committed

\* While the committed file is unreadable nothing is written.
NothingWritten ==
  files.committed \notin Databases =>
    /\ onDisk = {files} /\ undone = {}
    /\ \A p \in Services : mem[p] = None

\* A temporary file cut short is never beside an unreadable database, where
\* it would be promoted.
NoPartialPromoted ==
  \A d \in onDisk \cup undone :
    IF d.committed \in Databases
      THEN d.committed.whole
      ELSE d.temp \in Databases => d.temp.whole

BootInv == OwnerInv /\ SameCommitted /\ NothingWritten /\ NoPartialPromoted

-----------------------------------------------------------------------------
(* Facts about the operators *)

\* What a failed write leaves is a content, and has no other updates.
LEMMA PiecesFact ==
  ASSUME NEW us \in SUBSET Updates
  PROVE  /\ Whole(us) \in Databases /\ Whole(us) \in Pieces(us)
         /\ \A c \in Pieces(us) : c \in Contents
         /\ Whole(us).updates = us /\ Whole(us).whole
<1>1. Whole(us) \in Databases /\ Whole(us).updates = us /\ Whole(us).whole
  BY DEF Whole, Databases
<1>2. \A c \in Pieces(us) : c \in Databases \cup {Junk}
  <2>1. [updates : (SUBSET us) \ {us}, whole : {FALSE}] \subseteq Databases
    BY DEF Databases
  <2>. QED
    BY <1>1, <2>1 DEF Pieces
<1>. QED
  BY <1>1, <1>2 DEF Pieces, Contents

\* A disk after the temporary file was written: the committed file is as it
\* was.
LEMMA WithTempFact ==
  ASSUME NEW disks \in SUBSET Disks, NEW contents \in SUBSET Contents
  PROVE  /\ WithTemp(disks, contents) \in SUBSET Disks
         /\ \A e \in WithTemp(disks, contents) :
              e.temp \in contents /\ \E d \in disks : d.committed = e.committed
         /\ \A d \in disks, c \in contents :
              [d EXCEPT !.temp = c] \in WithTemp(disks, contents)
  BY DEF WithTemp, Disks

LEMMA RenamedFact ==
  ASSUME NEW d \in Disks
  PROVE  /\ Renamed(d) \in Disks
         /\ d.temp # Missing => Renamed(d).committed = d.temp
         /\ Renamed(d).temp = Missing
  BY DEF Renamed, Disks, Contents

-----------------------------------------------------------------------------
(* The types and the lock *)

LEMMA InitTypeOK == Init => TypeOK
<1>. SUFFICES ASSUME Init PROVE TypeOK
  OBVIOUS
<1>1. Whole({}) \in Contents
  BY PiecesFact DEF Contents
<1>2. files \in Disks
  BY <1>1 DEF Init, Disks, Contents
<1>. QED
  BY <1>2, StorageAssumption DEF Init, TypeOK, Steps

LEMMA CallTypeOK ==
  ASSUME TypeOK, UpdateTried, NEW p \in Services,
         Transact(p) \/ LoadCurrent(p) \/ LoadRecovers(p) \/ StorageCall(p) \/ Exit(p)
  PROVE  TypeOK' /\ UpdateTried'
<1>. USE StorageAssumption DEF TypeOK, UpdateTried, Goto, Fails, RecordFailure, disk, proc, history, Steps, Transacting
<1>0. cand[p] \in SUBSET Updates /\ Pieces(cand[p]) \in SUBSET Contents /\ Whole(cand[p]) \in Contents
  BY PiecesFact DEF Contents
<1>1. CASE Transact(p)
  <2>1. mem[p] \in SUBSET Updates
    BY <1>1 DEF Transact
  <2>. QED
    BY <1>1, <2>1 DEF Transact
<1>2. CASE LoadCurrent(p)
  <2>1. files.committed.updates \in SUBSET Updates
    BY <1>2 DEF LoadCurrent, Parses, Databases
  <2>. QED
    BY <1>2, <2>1 DEF LoadCurrent
<1>3. CASE LoadRecovers(p)
  BY <1>3 DEF LoadRecovers
<1>4. CASE Lock(p) \/ LockFails(p)
  BY <1>4 DEF Lock, LockFails
<1>5. CASE WriteTemp(p)
  BY <1>5, <1>0, WithTempFact DEF WriteTemp, Unwritten, Disks
<1>6. CASE WriteTempFails(p)
  BY <1>6, <1>0, WithTempFact DEF WriteTempFails, Unwritten, Disks
<1>7. CASE SyncFile(p)
  <2>1. files.temp \in Contents
    BY DEF Disks
  <2>. QED
    BY <1>7, <2>1, WithTempFact DEF SyncFile
<1>8. CASE SyncFileFails(p) \/ ReadTempFails(p) \/ ReplaceFails(p) \/ SyncParentFails(p)
  BY <1>8 DEF SyncFileFails, ReadTempFails, ReplaceFails, SyncParentFails
<1>9. CASE ReadTemp(p)
  <2>1. files.temp.updates \in SUBSET Updates
    BY <1>9 DEF ReadTemp, Parses, Databases
  <2>. QED
    BY <1>9, <2>1 DEF ReadTemp
<1>10. CASE Replace(p)
  <2>1. files' \in Disks
    BY <1>10 DEF Replace, Disks, Contents
  <2>2. onDisk' \subseteq Disks
    BY <1>10, RenamedFact DEF Replace
  <2>. QED
    BY <1>10, <2>1, <2>2 DEF Replace
<1>11. CASE SyncParent(p)
  BY <1>11 DEF SyncParent
<1>12. CASE Unlock(p)
  BY <1>12 DEF Unlock
<1>13. CASE UnlockFails(p)
  BY <1>13 DEF UnlockFails
<1>14. CASE Exit(p)
  BY <1>14 DEF Exit
<1>. QED
  BY <1>1, <1>2, <1>3, <1>4, <1>5, <1>6, <1>7, <1>8, <1>9, <1>10, <1>11, <1>12, <1>13, <1>14
     DEF StorageCall

LEMMA CrashTypeOK ==
  ASSUME TypeOK, UpdateTried, Crash
  PROVE  TypeOK' /\ UpdateTried'
  BY DEF TypeOK, UpdateTried, Crash, history, Steps, Transacting

\* A call takes the lock, keeps it, or gives it back.
LEMMA CallKeepsLock ==
  ASSUME LockInv, NEW p \in Services,
         Transact(p) \/ LoadCurrent(p) \/ LoadRecovers(p) \/ StorageCall(p) \/ Exit(p)
  PROVE  HolderHolds' /\ LockReleased'
<1>. USE StorageAssumption
     DEF LockInv, TypeOK, HolderHolds, LockReleased, Holding, Steps, Goto, Fails, disk, proc
<1>1. CASE Transact(p) \/ LoadCurrent(p) \/ LoadRecovers(p)
  BY <1>1 DEF Transact, LoadCurrent, LoadRecovers
<1>2. CASE Lock(p)
  <2>1. PICK step \in {"write_temp", "read_temp"} : pc' = [pc EXCEPT ![p] = step]
    BY <1>2 DEF Lock
  <2>2. lock = Free /\ lock' = p /\ UNCHANGED stuck
    BY <1>2 DEF Lock
  <2>3. ~ stuck /\ \A q \in Services : pc[q] \notin Holding
    BY <2>2
  <2>. QED
    BY <2>1, <2>2, <2>3
<1>3. CASE LockFails(p)
  BY <1>3 DEF LockFails
<1>4. CASE WriteTemp(p) \/ SyncFile(p) \/ ReadTemp(p) \/ Replace(p) \/ SyncParent(p)
  BY <1>4 DEF WriteTemp, SyncFile, ReadTemp, Replace, SyncParent
<1>5. CASE WriteTempFails(p) \/ SyncFileFails(p) \/ ReadTempFails(p) \/ ReplaceFails(p)
           \/ SyncParentFails(p)
  BY <1>5 DEF WriteTempFails, SyncFileFails, ReadTempFails, ReplaceFails, SyncParentFails
<1>6. CASE Unlock(p)
  BY <1>6 DEF Unlock
<1>7. CASE UnlockFails(p)
  BY <1>7 DEF UnlockFails
<1>8. CASE Exit(p)
  BY <1>8 DEF Exit
<1>. QED
  BY <1>1, <1>2, <1>3, <1>4, <1>5, <1>6, <1>7, <1>8 DEF StorageCall

LEMMA StepKeepsLockInv == LockInv /\ [Next]_vars => LockInv'
<1>. SUFFICES ASSUME LockInv, [Next]_vars PROVE LockInv'
  OBVIOUS
<1>1. ASSUME NEW p \in Services,
             Transact(p) \/ LoadCurrent(p) \/ LoadRecovers(p) \/ StorageCall(p) \/ Exit(p)
      PROVE  LockInv'
  BY <1>1, CallTypeOK, CallKeepsLock DEF LockInv
<1>2. CASE Crash
  BY <1>2, CrashTypeOK, StorageAssumption
     DEF LockInv, HolderHolds, LockReleased, Holding, Crash
<1>3. CASE UNCHANGED vars
  BY <1>3 DEF LockInv, TypeOK, UpdateTried, HolderHolds, LockReleased, vars, Transacting
<1>. QED
  BY <1>1, <1>2, <1>3 DEF Next

LEMMA InitLockInv == Init => LockInv
  BY InitTypeOK, StorageAssumption
     DEF Init, LockInv, UpdateTried, HolderHolds, LockReleased, Holding, Transacting

\* Types of the state, with any number of services, on any boot.
THEOREM TypesCorrect == Spec => []TypeOK
<1>1. LockInv => TypeOK
  BY DEF LockInv
<1>. QED
  BY <1>1, InitLockInv, StepKeepsLockInv, PTL DEF Spec

\* atomic_replace and recover_temp give the writer lock back on every path,
\* whichever call of the storage failed, and with any number of services.
THEOREM LockIsReleased == Spec => []LockReleased
<1>1. LockInv => LockReleased
  BY DEF LockInv
<1>. QED
  BY <1>1, InitLockInv, StepKeepsLockInv, PTL DEF Spec

-----------------------------------------------------------------------------
(* One owner, on any boot *)

\* What OwnerInv adds to LockInv.
DataInv == ReadIsOnDisk /\ AckedKept /\ MemIsCommitted /\ CallInv

\* What parse reads is a database; and the reverse, if it reads every one.
LEMMA ParsesFact ==
  \A c : /\ Parses(c) => c \in Databases
         /\ Oversize = {} /\ c \in Databases => Parses(c)
  BY DEF Parses

\* A step that leaves the files, the disks and what was acknowledged alone
\* keeps all but what is said of calls, if it keeps the service's database.
LEMMA QuietStep ==
  ASSUME DataInv, UNCHANGED <<disk, mem, acked>>
  PROVE  ReadIsOnDisk' /\ AckedKept' /\ MemIsCommitted'
  BY DEF DataInv, ReadIsOnDisk, AckedKept, AckedSurvives, CommittedLater, MemIsCommitted, disk

\* What the machine may find does not grow with the disks.
LEMMA NoNewCommitted ==
  ASSUME UNCHANGED undone,
         \A e \in onDisk' : \E d \in onDisk : d.committed = e.committed
  PROVE  CommittedLater' \subseteq CommittedLater
  BY DEF CommittedLater

LEMMA SameCommittedLater ==
  ASSUME UNCHANGED undone,
         \A e \in onDisk' : \E d \in onDisk : d.committed = e.committed,
         \A d \in onDisk : \E e \in onDisk' : e.committed = d.committed
  PROVE  CommittedLater' = CommittedLater
  BY DEF CommittedLater

\* Calls that begin: a transaction's candidate has what its service has.
LEMMA BeginKeepsDataInv ==
  ASSUME OneOwner, OwnerInv, NEW p \in Services,
         Transact(p) \/ LoadCurrent(p) \/ LoadRecovers(p)
  PROVE  DataInv'
<1>. USE StorageAssumption DEF OneOwner, OwnerInv, DataInv, LockInv, TypeOK
<1>1. CASE Transact(p)
  <2>1. ReadIsOnDisk' /\ AckedKept' /\ MemIsCommitted'
    BY <1>1, QuietStep DEF Transact
  <2>2. PICK u \in Updates : /\ update' = [update EXCEPT ![p] = u]
                             /\ cand' = [cand EXCEPT ![p] = mem[p] \cup {u}]
    BY <1>1 DEF Transact
  <2>3. pc' = [pc EXCEPT ![p] = "lock"] /\ mem[p] # None /\ UNCHANGED mem
    BY <1>1 DEF Transact
  <2>4. CallInv'
    BY <2>2, <2>3 DEF CallInv, Transacting, Replacing, Renaming
  <2>. QED
    BY <2>1, <2>4
<1>2. CASE LoadCurrent(p)
  <2>1. /\ files.committed \in Databases
        /\ mem' = [mem EXCEPT ![p] = files.committed.updates]
        /\ pc[p] = "idle"
        /\ UNCHANGED <<files, onDisk, undone, pc, ok, update, cand, acked>>
    BY <1>2, ParsesFact DEF LoadCurrent, disk, proc, history
  <2>2. ReadIsOnDisk' /\ AckedKept'
    BY <2>1 DEF ReadIsOnDisk, AckedKept, AckedSurvives, CommittedLater
  <2>3. Oversize = {} => acked \subseteq files.committed.updates
    BY <2>1 DEF ReadIsOnDisk, AckedKept, AckedSurvives, CommittedLater
  <2>4. MemIsCommitted'
    BY <2>1, <2>3 DEF MemIsCommitted
  <2>5. CallInv'
    BY <2>1 DEF CallInv
  <2>. QED
    BY <2>2, <2>4, <2>5
<1>3. CASE LoadRecovers(p)
  <2>1. ReadIsOnDisk' /\ AckedKept' /\ MemIsCommitted'
    BY <1>3, QuietStep DEF LoadRecovers, history
  <2>2. /\ pc' = [pc EXCEPT ![p] = "lock"] /\ update' = [update EXCEPT ![p] = None]
        /\ mem[p] = None /\ (Oversize = {} => files.committed \notin Databases)
        /\ UNCHANGED <<files, mem, acked>>
    BY <1>3, ParsesFact DEF LoadRecovers, disk, history
  <2>3. Oversize = {} => acked = {}
    BY <2>2 DEF ReadIsOnDisk, AckedKept, AckedSurvives, CommittedLater
  <2>4. CallInv'
    BY <2>2, <2>3 DEF CallInv, Transacting, Recovering, Renaming
  <2>. QED
    BY <2>1, <2>4
<1>. QED
  BY <1>1, <1>2, <1>3

\* A call that fails leaves what its service and the disks have.
LEMMA FailKeepsDataInv ==
  ASSUME OneOwner, OwnerInv, NEW p \in Services,
         \/ LockFails(p) \/ SyncFileFails(p) \/ ReadTempFails(p) \/ ReplaceFails(p)
         \/ SyncParentFails(p) \/ UnlockFails(p)
  PROVE  DataInv'
<1>1. UNCHANGED <<disk, mem, acked>>
  BY DEF LockFails, SyncFileFails, ReadTempFails, ReplaceFails, SyncParentFails, UnlockFails,
         Fails, RecordFailure, history
<1>2. /\ UNCHANGED <<update, cand>>
      /\ pc[p] # "idle"
      /\ \/ pc' = [pc EXCEPT ![p] = "idle"]
         \/ pc' = [pc EXCEPT ![p] = "unlock"] /\ ok' = [ok EXCEPT ![p] = FALSE]
  BY DEF LockFails, SyncFileFails, ReadTempFails, ReplaceFails, SyncParentFails, UnlockFails,
         Fails, Goto
<1>3. CallInv'
  BY <1>1, <1>2 DEF OneOwner, OwnerInv, LockInv, TypeOK, CallInv, Transacting, Recovering,
                    Replacing, Renaming, disk
<1>. QED
  BY <1>1, <1>3, QuietStep DEF OwnerInv, DataInv

\* The temporary file is written, whole or not, and perhaps on the disk.
LEMMA WriteKeepsDataInv ==
  ASSUME OneOwner, OwnerInv, NEW p \in Services, WriteTemp(p) \/ WriteTempFails(p)
  PROVE  DataInv'
<1>. USE DEF OneOwner, OwnerInv, DataInv, LockInv, TypeOK
<1>1. /\ cand[p] \in SUBSET Updates
      /\ \A c \in Pieces(cand[p]) : c \in Contents
      /\ Whole(cand[p]) \in Pieces(cand[p])
  BY PiecesFact
<1>2. PICK c \in {files.temp} \cup Pieces(cand[p]) : files' = [files EXCEPT !.temp = c]
  BY <1>1 DEF WriteTemp, WriteTempFails
<1>3. /\ onDisk' = onDisk \cup WithTemp(onDisk, Pieces(cand[p]))
      /\ UNCHANGED <<undone, mem, acked, update, cand>>
  BY DEF WriteTemp, WriteTempFails, Unwritten, Goto, Fails, RecordFailure, history
<1>4. /\ files'.committed = files.committed /\ files'.temp = c
      /\ files \in Disks
  BY <1>2 DEF Disks
<1>5. ReadIsOnDisk'
  <2>1. CASE c = files.temp
    BY <2>1, <1>2, <1>3, <1>4 DEF ReadIsOnDisk, Disks
  <2>2. CASE c \in Pieces(cand[p])
    BY <2>2, <1>1, <1>2, <1>3, WithTempFact DEF ReadIsOnDisk
  <2>. QED
    BY <2>1, <2>2
<1>6. AckedKept'
  <2>1. \A e \in onDisk' : \E d \in onDisk : d.committed = e.committed
    BY <1>1, <1>3, WithTempFact
  <2>. QED
    BY <2>1, <1>3 DEF AckedKept, AckedSurvives, CommittedLater
<1>7. MemIsCommitted'
  BY <1>3, <1>4 DEF MemIsCommitted
<1>8. CallInv'
  <2>1. Transacting(p) /\ Replacing(p)
    BY DEF WriteTemp, WriteTempFails, CallInv
  <2>2. CASE WriteTemp(p)
    <3>1. files'.temp = Whole(cand[p]) /\ pc' = [pc EXCEPT ![p] = "sync_file"]
      BY <2>2, <1>4 DEF WriteTemp, Goto, Disks
    <3>. QED
      BY <2>1, <3>1, <1>3 DEF CallInv, Transacting, Replacing, Renaming
  <2>3. CASE WriteTempFails(p)
    <3>1. pc' = [pc EXCEPT ![p] = "unlock"] /\ ok' = [ok EXCEPT ![p] = FALSE]
      BY <2>3 DEF WriteTempFails, Fails
    <3>. QED
      BY <2>1, <3>1, <1>3 DEF CallInv, Transacting, Replacing, Renaming
  <2>. QED
    BY <2>2, <2>3
<1>. QED
  BY <1>5, <1>6, <1>7, <1>8

\* The lock is taken, by the one service.
LEMMA LockKeepsDataInv ==
  ASSUME OneOwner, OwnerInv, NEW p \in Services, Lock(p)
  PROVE  DataInv'
<1>1. UNCHANGED <<disk, mem, acked, ok, update, cand>> /\ pc[p] = "lock"
  BY DEF Lock, Goto, history
<1>2. pc' = [pc EXCEPT ![p] = IF Transacting(p) THEN "write_temp" ELSE "read_temp"]
  BY DEF Lock, Goto
<1>3. CallInv'
  <2>1. CASE Transacting(p)
    BY <2>1, <1>1, <1>2 DEF OneOwner, OwnerInv, LockInv, TypeOK, CallInv, Transacting,
                           Replacing, Renaming, disk
  <2>2. CASE ~ Transacting(p)
    BY <2>2, <1>1, <1>2 DEF OneOwner, OwnerInv, LockInv, TypeOK, CallInv, Transacting,
                           Recovering, Renaming, disk
  <2>. QED
    BY <2>1, <2>2
<1>. QED
  BY <1>1, <1>3, QuietStep DEF OwnerInv, DataInv

\* After sync_file the temporary file is the same on every disk.
LEMMA SyncFileKeepsDataInv ==
  ASSUME OneOwner, OwnerInv, NEW p \in Services, SyncFile(p)
  PROVE  DataInv'
<1>. USE DEF OneOwner, OwnerInv, DataInv, LockInv, TypeOK
<1>1. /\ onDisk' = WithTemp(onDisk, {files.temp})
      /\ UNCHANGED <<files, undone, mem, acked, ok, update, cand>>
      /\ pc[p] = "sync_file" /\ pc' = [pc EXCEPT ![p] = "replace"]
  BY DEF SyncFile, Goto, history
<1>2. /\ files \in Disks /\ {files.temp} \in SUBSET Contents
      /\ [files EXCEPT !.temp = files.temp] = files
  BY DEF Disks
<1>3. ReadIsOnDisk'
  BY <1>1, <1>2, WithTempFact DEF ReadIsOnDisk
<1>4. /\ \A e \in onDisk' : e.temp = files.temp
      /\ \A e \in onDisk' : \E d \in onDisk : d.committed = e.committed
  BY <1>1, <1>2, WithTempFact
<1>5. AckedKept'
  <2>1. CommittedLater' \subseteq CommittedLater
    BY <1>1, <1>4, NoNewCommitted
  <2>. QED
    BY <2>1, <1>1 DEF AckedKept, AckedSurvives
<1>6. MemIsCommitted'
  BY <1>1 DEF MemIsCommitted
<1>7. CallInv'
  BY <1>1, <1>4 DEF CallInv, Transacting, Replacing, Renaming
<1>. QED
  BY <1>3, <1>5, <1>6, <1>7

\* recover_temp reads a temporary file that parse accepts.
LEMMA ReadTempKeepsDataInv ==
  ASSUME OneOwner, OwnerInv, NEW p \in Services, ReadTemp(p)
  PROVE  DataInv'
<1>1. /\ UNCHANGED <<disk, mem, acked, ok, update>>
      /\ pc[p] = "read_temp" /\ pc' = [pc EXCEPT ![p] = "replace"]
      /\ files.temp \in Databases /\ cand' = [cand EXCEPT ![p] = files.temp.updates]
  BY ParsesFact DEF ReadTemp, history
<1>2. CallInv'
  BY <1>1 DEF OneOwner, OwnerInv, LockInv, TypeOK, CallInv, Transacting, Recovering, Renaming, disk
<1>. QED
  BY <1>1, <1>2, QuietStep DEF OwnerInv, DataInv

\* The rename: a transaction's candidate is the committed file of every disk,
\* except those without the rename; a promoted file replaces an unreadable
\* one, when nothing is acknowledged.
LEMMA ReplaceKeepsDataInv ==
  ASSUME OneOwner, OwnerInv, NEW p \in Services, Replace(p)
  PROVE  DataInv'
<1>. USE DEF OneOwner, OwnerInv, DataInv, LockInv, TypeOK
<1>1. /\ files' = [committed |-> files.temp, temp |-> Missing]
      /\ onDisk' = {Renamed(d) : d \in onDisk}
      /\ undone' = undone \cup onDisk
      /\ UNCHANGED <<mem, acked, ok, update, cand>>
      /\ pc[p] = "replace" /\ pc' = [pc EXCEPT ![p] = "sync_parent"]
  BY DEF Replace, Goto, history
<1>2. cand[p] \in SUBSET Updates /\ Whole(cand[p]) \in Databases /\ Whole(cand[p]).updates = cand[p]
  BY PiecesFact
<1>3. Missing \notin Databases
  BY StorageAssumption
<1>4. files.temp \in Databases /\ files.temp.updates = cand[p]
  BY <1>1, <1>2 DEF CallInv, Replacing, Recovering, ReadIsOnDisk
<1>5. ReadIsOnDisk'
  BY <1>1, <1>3, <1>4 DEF ReadIsOnDisk, Renamed
<1>6. Transacting(p) => \A e \in onDisk' : e.committed = Whole(cand[p])
  BY <1>1, <1>2, <1>3, RenamedFact DEF CallInv, Replacing
<1>7. Oversize = {} /\ acked # {} => Transacting(p) /\ acked \subseteq cand[p]
  BY <1>1 DEF CallInv, Recovering, Replacing, MemIsCommitted
<1>8. AckedKept'
  BY <1>1, <1>2, <1>6, <1>7 DEF AckedKept, AckedSurvives, CommittedLater
<1>9. MemIsCommitted'
  <2>1. mem[p] # None => mem[p] \subseteq cand[p]
    BY <1>1 DEF CallInv, Recovering, Replacing
  <2>. QED
    BY <2>1, <1>1, <1>4 DEF MemIsCommitted
<1>10. CallInv'
  BY <1>1, <1>4, <1>6 DEF CallInv, Transacting, Replacing, Recovering, Renaming
<1>. QED
  BY <1>5, <1>8, <1>9, <1>10

\* After sync_parent the last rename is on every disk.
LEMMA SyncParentKeepsDataInv ==
  ASSUME OneOwner, OwnerInv, NEW p \in Services, SyncParent(p)
  PROVE  DataInv'
<1>. USE DEF OneOwner, OwnerInv, DataInv, LockInv, TypeOK
<1>1. /\ undone' = {} /\ UNCHANGED <<files, onDisk, mem, acked, ok, update, cand>>
      /\ pc[p] = "sync_parent" /\ pc' = [pc EXCEPT ![p] = "unlock"]
  BY DEF SyncParent, Goto, history
<1>2. ReadIsOnDisk' /\ AckedKept' /\ MemIsCommitted'
  BY <1>1 DEF ReadIsOnDisk, AckedKept, AckedSurvives, CommittedLater, MemIsCommitted
<1>3. CallInv'
  BY <1>1 DEF CallInv, Transacting, Replacing, Recovering, Renaming
<1>. QED
  BY <1>2, <1>3

\* The call returns: what it acknowledges is on every disk.
LEMMA UnlockKeepsDataInv ==
  ASSUME OneOwner, OwnerInv, NEW p \in Services, Unlock(p)
  PROVE  DataInv'
<1>. USE DEF OneOwner, OwnerInv, DataInv, LockInv, TypeOK
<1>1. /\ UNCHANGED <<files, onDisk, undone, ok, update, cand>>
      /\ pc[p] = "unlock" /\ pc' = [pc EXCEPT ![p] = "idle"]
      /\ mem' = IF ok[p] THEN [mem EXCEPT ![p] = cand[p]] ELSE mem
      /\ acked' = IF ok[p] /\ Transacting(p) THEN acked \cup {update[p]} ELSE acked
  BY DEF Unlock, Goto, disk
<1>2. cand[p] \in SUBSET Updates /\ Whole(cand[p]) \in Databases /\ Whole(cand[p]).updates = cand[p]
  BY PiecesFact
<1>3. CallInv' /\ ReadIsOnDisk'
  BY <1>1 DEF CallInv, ReadIsOnDisk
<1>4. CASE ok[p] /\ Transacting(p)
  <2>1. /\ \A d \in onDisk : d.committed = Whole(cand[p])
        /\ undone = {} /\ cand[p] = mem[p] \cup {update[p]} /\ mem[p] # None
    BY <1>1, <1>4 DEF CallInv, Replacing, Renaming
  <2>2. Oversize = {} => acked' \subseteq cand[p]
    BY <2>1, <1>1, <1>4 DEF MemIsCommitted
  <2>3. AckedKept'
    BY <2>1, <2>2, <1>1, <1>2 DEF AckedKept, AckedSurvives, CommittedLater
  <2>4. files.committed = Whole(cand[p])
    BY <2>1 DEF ReadIsOnDisk
  <2>5. MemIsCommitted'
    BY <2>2, <2>4, <1>1, <1>2, <1>4 DEF MemIsCommitted
  <2>. QED
    BY <1>3, <2>3, <2>5
<1>5. CASE ok[p] /\ ~ Transacting(p)
  <2>1. /\ Oversize = {} => acked = {}
        /\ files.committed \in Databases /\ files.committed.updates = cand[p]
    BY <1>1, <1>5 DEF CallInv, Recovering, Renaming
  <2>2. AckedKept' /\ MemIsCommitted'
    BY <2>1, <1>1, <1>5 DEF AckedKept, AckedSurvives, CommittedLater, MemIsCommitted
  <2>. QED
    BY <1>3, <2>2
<1>6. CASE ~ ok[p]
  BY <1>1, <1>3, <1>6 DEF AckedKept, AckedSurvives, CommittedLater, MemIsCommitted
<1>. QED
  BY <1>4, <1>5, <1>6

\* The service, or the machine, stops.
LEMMA StopKeepsDataInv ==
  ASSUME OneOwner, OwnerInv, Crash \/ \E p \in Services : Exit(p)
  PROVE  DataInv'
<1>. USE DEF OneOwner, OwnerInv, DataInv, LockInv, TypeOK
<1>1. \A p \in Services : pc'[p] = "idle" /\ mem'[p] = None
  BY DEF Crash, Exit, Goto
<1>2. CallInv' /\ MemIsCommitted'
  BY <1>1 DEF CallInv, MemIsCommitted
<1>3. CASE Crash
  BY <1>2, <1>3 DEF Crash, history, ReadIsOnDisk, AckedKept, AckedSurvives, CommittedLater
<1>4. CASE \E p \in Services : Exit(p)
  BY <1>2, <1>4 DEF Exit, disk, history, ReadIsOnDisk, AckedKept, AckedSurvives, CommittedLater
<1>. QED
  BY <1>3, <1>4

LEMMA InitOwnerInv == Init => OwnerInv
<1>. SUFFICES ASSUME Init PROVE OwnerInv
  OBVIOUS
<1>1. DataInv
  BY StorageAssumption
     DEF Init, DataInv, ReadIsOnDisk, AckedKept, AckedSurvives, MemIsCommitted, CallInv
<1>. QED
  BY <1>1, InitLockInv DEF OwnerInv, DataInv

LEMMA StepKeepsOwnerInv ==
  ASSUME OneOwner
  PROVE  OwnerInv /\ [Next]_vars => OwnerInv'
<1>. SUFFICES ASSUME OwnerInv, [Next]_vars PROVE DataInv'
  BY StepKeepsLockInv DEF OwnerInv, DataInv
<1>1. ASSUME NEW p \in Services,
             Transact(p) \/ LoadCurrent(p) \/ LoadRecovers(p) \/ StorageCall(p)
      PROVE  DataInv'
  BY <1>1, BeginKeepsDataInv, FailKeepsDataInv, WriteKeepsDataInv, LockKeepsDataInv,
     SyncFileKeepsDataInv, ReadTempKeepsDataInv, ReplaceKeepsDataInv, SyncParentKeepsDataInv,
     UnlockKeepsDataInv DEF StorageCall
<1>2. CASE UNCHANGED vars
  BY <1>2 DEF OwnerInv, DataInv, vars, ReadIsOnDisk, AckedKept, AckedSurvives, CommittedLater,
     MemIsCommitted, CallInv, Replacing, Recovering, Renaming, Transacting
<1>. QED
  BY <1>1, <1>2, StopKeepsDataInv DEF Next

\* An update for which transact_admin returned Ok is in every committed file
\* that the machine may find, whatever fails and stops later, also when the
\* service started without a database.
THEOREM UpdatesSurvive ==
  ASSUME OneOwner, Oversize = {}
  PROVE  Spec => []AckedSurvives
<1>1. OwnerInv => AckedSurvives
  BY DEF OwnerInv, AckedKept
<1>. QED
  BY <1>1, InitOwnerInv, StepKeepsOwnerInv, PTL DEF Spec

\* transact_admin and load_with_recovery leave in memory only what is
\* committed, also when parse would refuse what is stored.
THEOREM MemoryIsStored ==
  ASSUME OneOwner
  PROVE  Spec => []MemoryNotAhead
<1>1. OwnerInv => MemoryNotAhead
  BY DEF OwnerInv, MemIsCommitted, MemoryNotAhead
<1>. QED
  BY <1>1, InitOwnerInv, StepKeepsOwnerInv, PTL DEF Spec

-----------------------------------------------------------------------------
(* One owner that found its database, or failed to *)

\* What BootInv adds to OwnerInv.
DiskInv == SameCommitted /\ NothingWritten /\ NoPartialPromoted

\* A step that leaves the files, the disks and the memory alone.
LEMMA QuietBootStep ==
  ASSUME DiskInv, UNCHANGED <<disk, mem>>
  PROVE  DiskInv'
  BY DEF DiskInv, SameCommitted, NothingWritten, NoPartialPromoted, disk

\* A service writes only if it has a database, which it read.
LEMMA WriteKeepsDiskInv ==
  ASSUME OneOwner, BootInv, NEW p \in Services, WriteTemp(p) \/ WriteTempFails(p)
  PROVE  /\ DiskInv' /\ files'.committed = files.committed
         /\ CommittedLater' = CommittedLater
<1>. USE DEF BootInv, OwnerInv, LockInv, TypeOK
<1>1. /\ cand[p] \in SUBSET Updates
      /\ \A c \in Pieces(cand[p]) : c \in Contents
      /\ Whole(cand[p]) \in Pieces(cand[p])
  BY PiecesFact
<1>2. files'.committed = files.committed
  <2>1. \E c : files' = [files EXCEPT !.temp = c]
    BY DEF WriteTemp, WriteTempFails
  <2>. QED
    BY <2>1 DEF Disks
<1>3. /\ onDisk' = onDisk \cup WithTemp(onDisk, Pieces(cand[p]))
      /\ UNCHANGED <<undone, mem>>
  BY DEF WriteTemp, WriteTempFails, Unwritten
<1>4. files.committed \in Databases
  BY DEF WriteTemp, WriteTempFails, CallInv, Replacing, NothingWritten
<1>5. \A e \in onDisk' : \E d \in onDisk : d.committed = e.committed
  BY <1>1, <1>3, WithTempFact
<1>6. SameCommitted' /\ NothingWritten'
  BY <1>2, <1>4, <1>5 DEF SameCommitted, NothingWritten
<1>7. NoPartialPromoted'
  BY <1>3, <1>4, <1>5 DEF SameCommitted, NoPartialPromoted
<1>8. CommittedLater' = CommittedLater
  BY <1>3, <1>5 DEF CommittedLater
<1>. QED
  BY <1>2, <1>6, <1>7, <1>8 DEF DiskInv

LEMMA SyncFileKeepsDiskInv ==
  ASSUME OneOwner, BootInv, NEW p \in Services, SyncFile(p)
  PROVE  DiskInv' /\ UNCHANGED files /\ CommittedLater' = CommittedLater
<1>. USE DEF BootInv, OwnerInv, LockInv, TypeOK
<1>1. /\ onDisk' = WithTemp(onDisk, {files.temp})
      /\ UNCHANGED <<files, undone, mem>>
  BY DEF SyncFile
<1>2. files \in Disks /\ {files.temp} \in SUBSET Contents
  BY DEF Disks
<1>3. files.committed \in Databases
  BY DEF SyncFile, CallInv, Replacing, NothingWritten
<1>4. \A e \in onDisk' : \E d \in onDisk : d.committed = e.committed
  BY <1>1, <1>2, WithTempFact
<1>5. \A d \in onDisk : \E e \in onDisk' : e.committed = d.committed
  <2>1. \A d \in onDisk : [d EXCEPT !.temp = files.temp] \in onDisk'
    BY <1>1, <1>2, WithTempFact
  <2>. QED
    BY <2>1 DEF Disks
<1>6. SameCommitted' /\ NothingWritten'
  BY <1>1, <1>3, <1>4 DEF SameCommitted, NothingWritten
<1>7. NoPartialPromoted'
  BY <1>1, <1>3, <1>4 DEF SameCommitted, NoPartialPromoted
<1>8. CommittedLater' = CommittedLater
  BY <1>1, <1>4, <1>5, SameCommittedLater
<1>. QED
  BY <1>1, <1>6, <1>7, <1>8 DEF DiskInv

\* The file that is published is a whole database with all that was
\* acknowledged, and the same on every disk.
LEMMA ReplacePublishes ==
  ASSUME OneOwner, Oversize = {}, BootInv, NEW p \in Services, Replace(p)
  PROVE  /\ DiskInv'
         /\ cand[p] \in SUBSET Updates /\ acked \subseteq cand[p]
         /\ files'.committed = Whole(cand[p])
         /\ CommittedLater' = CommittedLater \cup {Whole(cand[p])}
<1>. USE DEF BootInv, OwnerInv, LockInv, TypeOK
<1>1. /\ files' = [committed |-> files.temp, temp |-> Missing]
      /\ onDisk' = {Renamed(d) : d \in onDisk}
      /\ undone' = undone \cup onDisk
      /\ UNCHANGED mem /\ pc[p] = "replace"
  BY DEF Replace
<1>2. cand[p] \in SUBSET Updates /\ Whole(cand[p]) \in Databases /\ Whole(cand[p]).whole
  BY PiecesFact
<1>3. \A d \in onDisk : d.temp = Whole(cand[p])
  <2>1. CASE Transacting(p)
    BY <2>1, <1>1 DEF CallInv, Replacing
  <2>2. CASE ~ Transacting(p)
    <3>1. /\ files.committed \notin Databases
          /\ files.temp \in Databases /\ files.temp.updates = cand[p]
      BY <2>2, <1>1 DEF CallInv, Recovering
    <3>2. onDisk = {files} /\ files.temp.whole = TRUE
      BY <3>1 DEF NothingWritten, NoPartialPromoted, Databases
    <3>3. files.temp = Whole(cand[p])
      BY <3>1, <3>2 DEF Databases, Whole
    <3>. QED
      BY <3>2, <3>3
  <2>. QED
    BY <2>1, <2>2
<1>4. files.temp = Whole(cand[p])
  BY <1>3 DEF ReadIsOnDisk
<1>5. \A e \in onDisk' : e.committed = Whole(cand[p])
  BY <1>1, <1>2, <1>3, StorageAssumption, RenamedFact
<1>6. \E e \in onDisk' : TRUE
  BY <1>1 DEF ReadIsOnDisk
<1>7. CommittedLater' = CommittedLater \cup {Whole(cand[p])}
  BY <1>1, <1>5, <1>6 DEF CommittedLater
<1>8. acked \subseteq cand[p]
  BY <1>1 DEF CallInv, Replacing, Recovering, MemIsCommitted
<1>9. SameCommitted' /\ NothingWritten'
  BY <1>1, <1>2, <1>4, <1>5 DEF SameCommitted, NothingWritten
<1>10. NoPartialPromoted'
  BY <1>1, <1>2, <1>5 DEF NoPartialPromoted
<1>. QED
  BY <1>1, <1>2, <1>4, <1>7, <1>8, <1>9, <1>10 DEF DiskInv

LEMMA SyncParentKeepsDiskInv ==
  ASSUME OneOwner, BootInv, NEW p \in Services, SyncParent(p)
  PROVE  DiskInv' /\ UNCHANGED files /\ CommittedLater' = {files.committed}
<1>1. /\ undone' = {} /\ UNCHANGED <<files, onDisk, mem>>
  BY DEF SyncParent
<1>2. DiskInv'
  BY <1>1 DEF BootInv, DiskInv, SameCommitted, NothingWritten, NoPartialPromoted
<1>3. CommittedLater' = {files.committed}
  BY <1>1 DEF BootInv, OwnerInv, ReadIsOnDisk, SameCommitted, CommittedLater
<1>. QED
  BY <1>1, <1>2, <1>3

\* What is read after the machine stopped is on the disk.
LEMMA CrashKeepsDiskInv ==
  ASSUME BootInv, Crash
  PROVE  DiskInv' /\ files'.committed \in CommittedLater /\ CommittedLater' = {files'.committed}
  BY DEF Crash, BootInv, DiskInv, SameCommitted, NothingWritten, NoPartialPromoted, CommittedLater

\* The steps on which the files, the disks and what is acknowledged are as
\* they were.
Quiet(p) ==
  \/ Transact(p) \/ LoadRecovers(p) \/ Lock(p) \/ LockFails(p)
  \/ SyncFileFails(p) \/ ReadTemp(p) \/ ReadTempFails(p) \/ ReplaceFails(p)
  \/ SyncParentFails(p) \/ UnlockFails(p)

LEMMA QuietEffect ==
  ASSUME NEW p \in Services, Quiet(p)
  PROVE  UNCHANGED <<disk, mem, acked>>
  BY DEF Quiet, Transact, LoadRecovers, Lock, LockFails, SyncFileFails, ReadTemp, ReadTempFails,
         ReplaceFails, SyncParentFails, UnlockFails, Fails, RecordFailure, history

\* A service gets a database from a readable committed file.
LEMMA MemKeepsDiskInv ==
  ASSUME OneOwner, Oversize = {}, BootInv, NEW p \in Services,
         LoadCurrent(p) \/ Unlock(p) \/ Exit(p)
  PROVE  DiskInv' /\ UNCHANGED disk
<1>. USE DEF BootInv, OwnerInv, LockInv, TypeOK
<1>1. UNCHANGED disk
  BY DEF LoadCurrent, Unlock, Exit
<1>2. SameCommitted' /\ NoPartialPromoted'
  BY <1>1 DEF SameCommitted, NoPartialPromoted, disk
<1>3. CASE LoadCurrent(p)
  BY <1>1, <1>2, <1>3, ParsesFact DEF LoadCurrent, DiskInv, NothingWritten, disk
<1>4. CASE Unlock(p)
  <2>1. ok[p] => files.committed \in Databases
    <3>1. cand[p] \in SUBSET Updates /\ Whole(cand[p]) \in Databases
      BY PiecesFact
    <3>. QED
      BY <1>4, <3>1 DEF Unlock, CallInv, Replacing, Recovering, Renaming, ReadIsOnDisk
  <2>2. ~ ok[p] => UNCHANGED mem
    BY <1>4 DEF Unlock
  <2>. QED
    BY <1>1, <1>2, <2>1, <2>2 DEF DiskInv, NothingWritten, disk
<1>5. CASE Exit(p)
  BY <1>1, <1>2, <1>5 DEF OneOwner, Exit, DiskInv, NothingWritten, disk
<1>. QED
  BY <1>1, <1>3, <1>4, <1>5

LEMMA StepKeepsBootInv ==
  ASSUME OneOwner, Oversize = {}
  PROVE  BootInv /\ [Next]_vars => BootInv'
<1>. SUFFICES ASSUME BootInv, [Next]_vars PROVE DiskInv'
  BY StepKeepsOwnerInv DEF BootInv, DiskInv
<1>1. ASSUME NEW p \in Services, Quiet(p)
      PROVE  DiskInv'
  BY <1>1, QuietEffect, QuietBootStep DEF BootInv, DiskInv
<1>2. ASSUME NEW p \in Services,
             Transact(p) \/ LoadCurrent(p) \/ LoadRecovers(p) \/ StorageCall(p) \/ Exit(p)
      PROVE  DiskInv'
  BY <1>1, <1>2, WriteKeepsDiskInv, SyncFileKeepsDiskInv, ReplacePublishes,
     SyncParentKeepsDiskInv, MemKeepsDiskInv DEF StorageCall, Quiet
<1>3. CASE UNCHANGED vars
  BY <1>3, QuietBootStep DEF BootInv, DiskInv, vars, disk
<1>. QED
  BY <1>2, <1>3, CrashKeepsDiskInv DEF Next

LEMMA InitBootInv ==
  ASSUME ~ FirstBoot
  PROVE  Init => BootInv
<1>. SUFFICES ASSUME Init PROVE DiskInv
  BY InitOwnerInv DEF BootInv, DiskInv
<1>1. Whole({}) \in Databases /\ Whole({}).whole
  BY PiecesFact
<1>2. /\ files \in [committed : {Whole({}), Missing, Junk, Newer},
                    temp : {Whole({}), Missing, Junk}]
      /\ onDisk = {files} /\ undone = {} /\ \A p \in Services : mem[p] = None
  BY DEF Init
<1>3. NoPartialPromoted
  BY <1>1, <1>2, StorageAssumption DEF NoPartialPromoted
<1>. QED
  BY <1>2, <1>3 DEF DiskInv, SameCommitted, NothingWritten

\* The committed file is never a database cut short: atomic_replace renames
\* what it synced, and recover_temp promotes only what an earlier run left.
THEOREM CommittedIsWhole ==
  ASSUME OneOwner, Oversize = {}, ~ FirstBoot
  PROVE  Spec => []NoPartialDatabase
<1>1. BootInv => NoPartialDatabase
  BY DEF BootInv, OwnerInv, ReadIsOnDisk, NoPartialPromoted, NoPartialDatabase, CommittedLater
<1>. QED
  BY <1>1, InitBootInv, StepKeepsBootInv, PTL DEF Spec

-----------------------------------------------------------------------------
(* The refinement of DurableRegister *)

LEMMA InitRegister ==
  ASSUME ~ FirstBoot
  PROVE  Init => Register!Init
<1>. SUFFICES ASSUME Init PROVE Register!Init
  OBVIOUS
<1>1. files \in Disks
  BY InitTypeOK DEF TypeOK
<1>. QED
  BY <1>1 DEF Register!Init, Init, CommittedLater, Disks

LEMMA StepRegister ==
  ASSUME OneOwner, Oversize = {}, BootInv, [Next]_vars
  PROVE  [Register!Next]_(Register!vars)
<1>. USE DEF Register!vars
<1>1. ASSUME NEW p \in Services, Quiet(p) \/ LoadCurrent(p) \/ Exit(p)
      PROVE  UNCHANGED Register!vars
  <2>1. UNCHANGED <<disk, acked>>
    BY <1>1, QuietEffect DEF LoadCurrent, Exit, history
  <2>. QED
    BY <2>1 DEF disk, CommittedLater
<1>2. ASSUME NEW p \in Services, WriteTemp(p) \/ WriteTempFails(p) \/ SyncFile(p)
      PROVE  UNCHANGED Register!vars
  <2>1. UNCHANGED acked
    BY <1>2 DEF WriteTemp, WriteTempFails, SyncFile, Fails, RecordFailure, history
  <2>. QED
    BY <1>2, <2>1, WriteKeepsDiskInv, SyncFileKeepsDiskInv
<1>3. ASSUME NEW p \in Services, Replace(p)
      PROVE  Register!Publish
  <2>1. /\ cand[p] \in SUBSET Updates /\ acked \subseteq cand[p]
        /\ files'.committed = Whole(cand[p])
        /\ CommittedLater' = CommittedLater \cup {Whole(cand[p])}
    BY <1>3, ReplacePublishes
  <2>2. UNCHANGED acked
    BY <1>3 DEF Replace, history
  <2>3. <<cand[p], Whole(cand[p])>> \in {<<us, Whole(us)>> : us \in SUBSET Updates}
    BY <2>1
  <2>. QED
    BY <2>1, <2>2, <2>3 DEF Register!Publish
<1>4. ASSUME NEW p \in Services, SyncParent(p)
      PROVE  Register!Sync
  <2>1. UNCHANGED acked
    BY <1>4 DEF SyncParent, history
  <2>. QED
    BY <1>4, <2>1, SyncParentKeepsDiskInv DEF Register!Sync
<1>5. ASSUME NEW p \in Services, Unlock(p)
      PROVE  Register!Acknowledge \/ UNCHANGED Register!vars
  <2>1. UNCHANGED <<files, onDisk, undone>>
    BY <1>5 DEF Unlock, disk
  <2>2. UNCHANGED <<files, CommittedLater>>
    BY <2>1 DEF CommittedLater
  <2>3. CASE ok[p] /\ Transacting(p)
    <3>1. /\ \A d \in onDisk : d.committed = Whole(cand[p])
          /\ undone = {} /\ cand[p] = mem[p] \cup {update[p]} /\ acked \subseteq mem[p]
          /\ acked' = acked \cup {update[p]}
      BY <1>5, <2>3 DEF Unlock, BootInv, OwnerInv, CallInv, Replacing, Renaming, MemIsCommitted
    <3>2. files.committed = Whole(cand[p]) /\ CommittedLater = {files.committed}
      BY <3>1 DEF BootInv, OwnerInv, ReadIsOnDisk, CommittedLater
    <3>3. <<cand[p], Whole(cand[p])>> \in {<<us, Whole(us)>> : us \in SUBSET Updates}
      BY DEF BootInv, OwnerInv, LockInv, TypeOK
    <3>. QED
      BY <2>2, <3>1, <3>2, <3>3 DEF Register!Acknowledge
  <2>4. CASE ~ (ok[p] /\ Transacting(p))
    BY <1>5, <2>2, <2>4 DEF Unlock
  <2>. QED
    BY <2>3, <2>4
<1>6. CASE Crash
  <2>1. UNCHANGED acked
    BY <1>6 DEF Crash, history
  <2>. QED
    BY <1>6, <2>1, CrashKeepsDiskInv DEF Register!Crash, Register!Next
<1>7. CASE UNCHANGED vars
  BY <1>7 DEF vars, CommittedLater
<1>. QED
  BY <1>1, <1>2, <1>3, <1>4, <1>5, <1>6, <1>7 DEF Next, StorageCall, Quiet, Register!Next

\* The two files, the lock and the order of the calls implement a register
\* replaced as a whole, which keeps what was acknowledged.
THEOREM StorageImplementsRegister ==
  ASSUME OneOwner, Oversize = {}, ~ FirstBoot
  PROVE  Spec => ImplementsRegister
<1>1. BootInv /\ [Next]_vars => [Register!Next]_(Register!vars)
  BY StepRegister
<1>. QED
  BY <1>1, InitBootInv, InitRegister, StepKeepsBootInv, PTL
     DEF Spec, ImplementsRegister, Register!Spec
=============================================================================
