---------------------------- MODULE NorxStorage ----------------------------
(***************************************************************************)
(* How norx/src/lib.rs keeps the database on storage: transact_admin_with, *)
(* atomic_replace, load_with_recovery and recover_temp, one action per     *)
(* call of the AtomicStorage trait, each of which can fail, with processes *)
(* that end and machines that stop between any two of them.                *)
(*                                                                         *)
(* Abstractions.  A database is the set of the updates that made it.  A    *)
(* file is a database, whole or cut short, or bytes that are none.  parse  *)
(* accepts a file that ends early at the end of a record, or inside a list *)
(* of members: a database without some of its updates.  An update in       *)
(* Oversize makes a record longer than MAX_LINE_BYTES, which parse refuses *)
(* and serialize_for_storage does not.                                     *)
(*                                                                         *)
(* The storage (a trait, implemented outside this repository) is modelled  *)
(* by what its calls leave open: what is not synced may be lost or torn    *)
(* when the machine stops, a rename is atomic, changes of the directory    *)
(* reach the disk in order, and a failed write leaves any part of the      *)
(* contents.                                                               *)
(***************************************************************************)
EXTENDS FiniteSets

CONSTANTS
  Services,   \* processes with a Database, in memory
  Updates,    \* each used once: the bound of the model
  Oversize,   \* those that parse does not read back
  FirstBoot,  \* the services have a database that was never stored
  None, Free, \* no database; no holder
  Missing, Junk, Newer   \* no file; bytes parse rejects; UnsupportedVersion

Databases == [updates : SUBSET Updates, whole : BOOLEAN]
Whole(us) == [updates |-> us, whole |-> TRUE]
Contents == Databases \cup {Missing, Junk, Newer}

ASSUME StorageAssumption ==
  /\ Oversize \subseteq Updates
  /\ FirstBoot \in BOOLEAN
  /\ None \notin Updates /\ \A us \in SUBSET Updates : us # None
  /\ Free \notin Services
  /\ {Missing, Junk, Newer} \cap Databases = {}

\* What is in a file of which only a part was written, or written back.
Pieces(us) ==
  {Whole(us), Junk} \cup [updates : (SUBSET us) \ {us}, whole : {FALSE}]

\* Database::parse succeeds.
Parses(c) == c \in Databases /\ c.updates \cap Oversize = {}

Steps == {"idle", "lock", "write_temp", "sync_file", "read_temp", "replace",
          "sync_parent", "unlock"}

VARIABLES
  files,     \* the two files as they are read
  onDisk,    \* the pairs of files that the machine may find when it starts
  undone,    \* the same, should the last rename not have reached the disk
  lock,      \* the writer lock
  stuck,     \* history: unlock() failed and the lock was not freed since
  mem,       \* the Database of each service
  pc, ok,    \* the next call of the storage; no error so far
  update,    \* the update of a transaction; None while loading
  cand,      \* the database to be stored, or just read
  tried, acked,   \* history: the updates begun, those that returned Ok
  failed          \* and those of a transaction in which lock, a write, a sync
                  \* or the rename failed

proc == <<pc, ok, update, cand>>
disk == <<files, onDisk, undone>>
history == <<tried, acked, failed>>
vars == <<files, onDisk, undone, lock, stuck, mem, pc, ok, update, cand,
          tried, acked, failed>>

Disks == [committed : Contents, temp : Contents]

TypeOK ==
  /\ files \in Disks
  /\ onDisk \subseteq Disks /\ undone \subseteq Disks
  /\ lock \in Services \cup {Free} /\ stuck \in BOOLEAN
  /\ mem \in [Services -> {None} \cup SUBSET Updates]
  /\ pc \in [Services -> Steps] /\ ok \in [Services -> BOOLEAN]
  /\ update \in [Services -> Updates \cup {None}]
  /\ cand \in [Services -> SUBSET Updates]
  /\ tried \subseteq Updates /\ acked \subseteq tried /\ failed \subseteq tried

\* A first boot finds nothing; another one any committed file and any
\* temporary file but one cut short.
Init ==
  /\ files \in [committed : IF FirstBoot THEN {Missing} ELSE {Whole({}), Missing, Junk, Newer},
                temp : IF FirstBoot THEN {Missing} ELSE {Whole({}), Missing, Junk}]
  /\ onDisk = {files} /\ undone = {}
  /\ lock = Free /\ stuck = FALSE
  /\ mem = [p \in Services |-> IF FirstBoot THEN {} ELSE None]
  /\ pc = [p \in Services |-> "idle"] /\ ok = [p \in Services |-> TRUE]
  /\ update = [p \in Services |-> None] /\ cand = [p \in Services |-> {}]
  /\ tried = {} /\ acked = {} /\ failed = {}

-----------------------------------------------------------------------------
(* Calls that begin *)

\* transact_admin_with: the operation is applied to a clone.
Transact(p) ==
  /\ pc[p] = "idle" /\ mem[p] # None
  /\ \E u \in Updates \ tried :
       /\ update' = [update EXCEPT ![p] = u]
       /\ cand' = [cand EXCEPT ![p] = mem[p] \cup {u}]
       /\ tried' = tried \cup {u}
  /\ pc' = [pc EXCEPT ![p] = "lock"]
  /\ ok' = [ok EXCEPT ![p] = TRUE]
  /\ UNCHANGED <<disk, lock, stuck, mem, acked, failed>>

\* load_with_recovery, when the committed file is read and parsed.
LoadCurrent(p) ==
  /\ pc[p] = "idle" /\ mem[p] = None
  /\ Parses(files.committed)
  /\ mem' = [mem EXCEPT ![p] = files.committed.updates]
  /\ UNCHANGED <<disk, lock, stuck, proc, history>>

\* Variant: the temporary file wins.
LoadRecoversAlways(p) ==
  /\ pc[p] = "idle" /\ mem[p] = None
  /\ pc' = [pc EXCEPT ![p] = "lock"]
  /\ ok' = [ok EXCEPT ![p] = TRUE]
  /\ update' = [update EXCEPT ![p] = None]
  /\ UNCHANGED <<disk, lock, stuck, mem, cand, history>>

\* load_with_recovery, when it is missing or any parse error is returned.
LoadRecovers(p) ==
  /\ pc[p] = "idle" /\ mem[p] = None
  /\ ~ Parses(files.committed)
  /\ pc' = [pc EXCEPT ![p] = "lock"]
  /\ ok' = [ok EXCEPT ![p] = TRUE]
  /\ update' = [update EXCEPT ![p] = None]
  /\ UNCHANGED <<disk, lock, stuck, mem, cand, history>>

-----------------------------------------------------------------------------
(* Calls of the storage.  What a call that failed leads to is said by       *)
(* Fails: the rest is skipped, not the unlock.                              *)

Transacting(p) == update[p] # None

Goto(p, step) == pc' = [pc EXCEPT ![p] = step] /\ UNCHANGED <<ok, update, cand>>

RecordFailure(p) ==
  /\ failed' = IF Transacting(p) THEN failed \cup {update[p]} ELSE failed
  /\ UNCHANGED <<tried, acked>>

\* Variant: the error is returned at once.
FailsLocked(p) ==
  /\ pc' = [pc EXCEPT ![p] = "idle"]
  /\ ok' = [ok EXCEPT ![p] = FALSE]
  /\ RecordFailure(p)
  /\ UNCHANGED <<update, cand>>

Fails(p) ==
  /\ pc' = [pc EXCEPT ![p] = "unlock"]
  /\ ok' = [ok EXCEPT ![p] = FALSE]
  /\ RecordFailure(p)
  /\ UNCHANGED <<update, cand>>

Lock(p) ==
  /\ pc[p] = "lock" /\ lock = Free
  /\ lock' = p
  /\ Goto(p, IF Transacting(p) THEN "write_temp" ELSE "read_temp")
  /\ UNCHANGED <<disk, stuck, mem, history>>

\* Busy or Unavailable.
LockFails(p) ==
  /\ pc[p] = "lock"
  /\ Goto(p, "idle")
  /\ RecordFailure(p)
  /\ UNCHANGED <<disk, lock, stuck, mem>>

\* The disks on which the temporary file became one of these.
WithTemp(disks, contents) ==
  {[d EXCEPT !.temp = c] : d \in disks, c \in contents}

\* If the last rename is not on the disk, what came after it is not either.
Unwritten(us) ==
  onDisk' = onDisk \cup WithTemp(onDisk, Pieces(us)) /\ UNCHANGED undone

WriteTemp(p) ==
  /\ pc[p] = "write_temp"
  /\ files' = [files EXCEPT !.temp = Whole(cand[p])]
  /\ Unwritten(cand[p])
  /\ Goto(p, "sync_file")
  /\ UNCHANGED <<lock, stuck, mem, history>>

WriteTempFails(p) ==
  /\ pc[p] = "write_temp"
  /\ \E c \in {files.temp} \cup Pieces(cand[p]) : files' = [files EXCEPT !.temp = c]
  /\ Unwritten(cand[p])
  /\ Fails(p)
  /\ UNCHANGED <<lock, stuck, mem>>

SyncFile(p) ==
  /\ pc[p] = "sync_file"
  /\ onDisk' = WithTemp(onDisk, {files.temp})
  /\ Goto(p, "replace")
  /\ UNCHANGED <<files, undone, lock, stuck, mem, history>>

\* Variant: an error of sync_file is ignored.
SyncFileIgnored(p) ==
  /\ pc[p] = "sync_file"
  /\ Goto(p, "replace")
  /\ UNCHANGED <<disk, lock, stuck, mem, history>>

SyncFileFails(p) ==
  /\ pc[p] = "sync_file"
  /\ Fails(p)
  /\ UNCHANGED <<disk, lock, stuck, mem>>

\* recover_temp: the temporary file is read, and parsed.
ReadTemp(p) ==
  /\ pc[p] = "read_temp"
  /\ Parses(files.temp)
  /\ cand' = [cand EXCEPT ![p] = files.temp.updates]
  /\ pc' = [pc EXCEPT ![p] = "replace"]
  /\ UNCHANGED <<disk, lock, stuck, mem, ok, update, history>>

\* Missing, Corrupt or Unavailable.
ReadTempFails(p) ==
  /\ pc[p] = "read_temp"
  /\ Fails(p)
  /\ UNCHANGED <<disk, lock, stuck, mem>>

\* A file whose creation is not on the disk yet is an empty file once the
\* rename is.
Renamed(d) == [committed |-> IF d.temp = Missing THEN Junk ELSE d.temp, temp |-> Missing]

Replace(p) ==
  /\ pc[p] = "replace"
  /\ files' = [committed |-> files.temp, temp |-> Missing]
  /\ onDisk' = {Renamed(d) : d \in onDisk}
  /\ undone' = undone \cup onDisk
  /\ Goto(p, "sync_parent")
  /\ UNCHANGED <<lock, stuck, mem, history>>

ReplaceFails(p) ==
  /\ pc[p] = "replace"
  /\ Fails(p)
  /\ UNCHANGED <<disk, lock, stuck, mem>>

SyncParent(p) ==
  /\ pc[p] = "sync_parent"
  /\ undone' = {}
  /\ Goto(p, "unlock")
  /\ UNCHANGED <<files, onDisk, lock, stuck, mem, history>>

\* Variant: an error of sync_parent is ignored.
SyncParentIgnored(p) ==
  /\ pc[p] = "sync_parent"
  /\ Goto(p, "unlock")
  /\ UNCHANGED <<disk, lock, stuck, mem, history>>

SyncParentFails(p) ==
  /\ pc[p] = "sync_parent"
  /\ Fails(p)
  /\ UNCHANGED <<disk, lock, stuck, mem>>

\* Variant: the database is replaced before the storage has answered.
UnlockKeepsCandidate(p) ==
  /\ pc[p] = "unlock"
  /\ lock' = Free /\ stuck' = FALSE
  /\ Goto(p, "idle")
  /\ mem' = [mem EXCEPT ![p] = cand[p]]
  /\ acked' = IF ok[p] /\ Transacting(p) THEN acked \cup {update[p]} ELSE acked
  /\ UNCHANGED <<disk, tried, failed>>

\* The lock is given back and the call returns; only without an error does
\* the candidate become the service's database.
Unlock(p) ==
  /\ pc[p] = "unlock"
  /\ lock' = Free /\ stuck' = FALSE
  /\ Goto(p, "idle")
  /\ mem' = IF ok[p] THEN [mem EXCEPT ![p] = cand[p]] ELSE mem
  /\ acked' = IF ok[p] /\ Transacting(p) THEN acked \cup {update[p]} ELSE acked
  /\ UNCHANGED <<disk, tried, failed>>

\* An error of unlock is an error of the call, even if all else was done.
UnlockFails(p) ==
  /\ pc[p] = "unlock"
  /\ stuck' = TRUE
  /\ Goto(p, "idle")
  /\ UNCHANGED <<disk, lock, mem, history>>

StorageCall(p) ==
  \/ Lock(p) \/ LockFails(p)
  \/ WriteTemp(p) \/ WriteTempFails(p)
  \/ SyncFile(p) \/ SyncFileFails(p)
  \/ ReadTemp(p) \/ ReadTempFails(p)
  \/ Replace(p) \/ ReplaceFails(p)
  \/ SyncParent(p) \/ SyncParentFails(p)
  \/ Unlock(p) \/ UnlockFails(p)

-----------------------------------------------------------------------------
(* Failures *)

\* A service ends: its lock is freed.
Exit(p) ==
  /\ mem' = [mem EXCEPT ![p] = None]
  /\ Goto(p, "idle")
  /\ lock' = IF lock = p THEN Free ELSE lock
  /\ stuck' = IF lock = p THEN FALSE ELSE stuck
  /\ UNCHANGED <<disk, history>>

\* The machine stops.
Crash ==
  /\ files' \in onDisk \cup undone
  /\ onDisk' = {files'} /\ undone' = {}
  /\ lock' = Free /\ stuck' = FALSE
  /\ mem' = [p \in Services |-> None]
  /\ pc' = [p \in Services |-> "idle"]
  /\ UNCHANGED <<ok, update, cand, history>>

Next ==
  \/ \E p \in Services :
       Transact(p) \/ LoadCurrent(p) \/ LoadRecovers(p) \/ StorageCall(p) \/ Exit(p)
  \/ Crash

Spec == Init /\ [][Next]_vars

-----------------------------------------------------------------------------
(* Properties *)

CommittedLater == {d.committed : d \in onDisk \cup undone}

\* transact_admin returned Ok: whatever the machine finds when it starts, the
\* committed file is a database with that update, also in the middle of later
\* transactions that fail at any call.
AckedSurvives ==
  \A c \in CommittedLater : acked # {} => c \in Databases /\ acked \subseteq c.updates

\* A service never answers from accounts that are not stored: its memory is
\* what it last stored, or less when a later transaction failed halfway.
MemoryNotAhead ==
  \A p \in Services :
    mem[p] \notin {None, {}} =>
      files.committed \in Databases /\ mem[p] \subseteq files.committed.updates

\* The writer lock outlives a call only if unlock itself failed, whichever
\* call of the storage failed before.
LockReleased == lock # Free => stuck \/ pc[lock] \notin {"idle", "lock"}

\* The committed file is never a database cut short, now or after a crash.
NoPartialDatabase ==
  \A c \in CommittedLater \cup {files.committed} : c \in Databases => c.whole

Register == INSTANCE DurableRegister WITH
  Complete <- {<<us, Whole(us)>> : us \in SUBSET Updates},
  value <- files.committed, later <- CommittedLater, acked <- acked

\* The two files, the lock and the order of the calls amount to a register
\* that is replaced atomically and keeps what was acknowledged.
ImplementsRegister == Register!Spec

\* "A failed operation, serialization, lock, sync, or rename leaves ...
\* committed storage unchanged": an update whose transaction failed in such a
\* call is not in the committed file.
FailedLeavesCommitted ==
  files.committed \in Databases => files.committed.updates \cap failed = {}
=============================================================================
