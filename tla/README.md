# userdb: specifications, model checking and proofs

The repository is the `shadow-utils` suite, the C programs that maintain
`/etc/passwd`, `/etc/shadow`, `/etc/group` and `/etc/gshadow`, together with
`norx`, a Rust crate that keeps the account database of another system in one
file. This directory holds TLA+ models of the parts in which several processes,
failures or long sequences of calls matter, the configurations that check them
with TLC, and proofs checked by TLAPS. Paths below are relative to the root of
the repository, which is `src/` in `PROJECT.json`.

## 1. The system

### 1.1 Components

| component | source | state | operations |
|---|---|---|---|
| file locks | `lib/commonio.c` 71–204, 323–463 | `f.lock` (a link holding a pid), `f.<pid>`, `db->locked`, `lock_count`, the C library's `lckpwdf()` | `commonio_lock`, `commonio_lock_nowait`, `do_lock_file`, `commonio_unlock` |
| account file in memory and on disk | `lib/commonio.c` 207–306, 472–1202, `lib/groupio.c` | a doubly linked list of entries with head, tail and cursor, `changed`; the file, its backup, a temporary file | open, update, append, remove, locate, rewind, next, sort, sort like another file, close (backup, temporary file, rename); merging and splitting of long groups |
| file modules | `lib/pwio.c`, `shadowio.c`, `sgroupio.c`, `*mem.c` | none of their own | the table of functions `commonio_ops` for each file |
| choice of identifiers | `lib/find_new_uid.c`, `lib/find_new_gid.c` | none | the next free uid or gid of a range |
| account tools | `src/useradd.c`, `usermod.c`, `userdel.c`, `groupadd.c`, `groupdel.c`, `groupmod.c` | the open files, which locks are held, the options | checks, `open_files`, edits, `close_files`, `fail_exit` |
| batch tools | `src/newusers.c`, `chpasswd.c`, `chgpasswd.c` | the open files | many updates in one session, all written or none |
| password and ageing tools, `vipw` | `src/passwd.c`, `chage.c`, `gpasswd.c`, `chfn.c`, `chsh.c`, `vipw.c`, `lib/age.c`, `isexpired.c` | the open files, what was read before they were opened | checks without the lock, some of them again under it; edits of one entry |
| checkers and converters | `src/pwck.c`, `grpck.c`, `pwconv.c`, `pwunconv.c`, `grpconv.c`, `grpunconv.c` | the open files | make and remove entries until two files agree; move passwords into the shadow files and back |
| clean-up functions | `lib/cleanup*.c` | a stack of functions run by `exit` | add, remove, run |
| subordinate identifiers | `lib/subordinateio.c`, `lib/find_new_sub_*.c`, `libsubid` | `/etc/subuid`, `/etc/subgid`: ranges with an owner | find a free range, add, remove, split, list, find owners; grant and ungrant |
| user namespace maps | `src/newuidmap.c`, `newgidmap.c`, `lib/idmapping.c` | `setgroups` and the map of a process | parse, verify against the ranges of the caller, write |
| session tools | `src/login.c`, `login_nopam.c`, `su.c`, `suauth.c`, `newgrp.c`, `sulogin.c`, `lib/port.c`, `limits.c`, `console.c`, `pwauth.c` | the account as it was read; `login.access`, `suauth`, `porttime` | ask, check, open a session |
| login records | `src/faillog.c`, `lib/failure.c`, `lib/utmp.c` | `faillog`, `utmp` | count, check, reset; find and replace an entry |
| directories, configuration, glue, helpers | `lib/copydir.c`, `getdef.c`, `selinux.c`, ... | per process | sequences of system calls |
| norx database | `norx/src/lib.rs` 65–745, 1144–1250 | vectors of accounts and groups | create, modify, delete users and groups, passwords, locking; every call made by an actor with capabilities |
| norx storage | `norx/src/lib.rs` 713–920 | committed file, temporary file, writer lock, the database in memory of each service | `transact_admin`, `atomic_replace`, `load_with_recovery` |
| norx lockout, norx text format | `norx/src/lib.rs` 924–1135 | a failure counter with a deadline; none | register failure and success; parse, serialize |

How they interact: a tool reads the account files without a lock to check its
options; then it takes the lock of each file it needs (`commonio_lock`, which
takes `lckpwdf()` around its first lock), opens it into a list, edits the list,
writes each file with `commonio_close` and gives its lock back with
`commonio_unlock`. Any failure goes through the tool's `fail_exit` or the
clean-up functions. Tools talk to each other only through the files and the
lock files, and any of them can be killed at any moment. A norx service keeps
its database in memory, applies an operation to a clone, stores the clone and
only then replaces the one in memory; on start it loads the committed file or
recovers from the temporary one.

### 1.2 What is hard

- *Concurrency*: stale locks broken by several processes at once; checks made
  before the lock is taken; tools that lock the same files in different orders;
  files written and unlocked one after the other; readers that take no lock
  (`newuidmap`, `login`), and a file that nobody locks (`faillog`).
- *Failure*: a tool killed between any two system calls, a lock refused when
  others are already held, a write that fails half way, a machine that stops
  before a rename is on the disk.
- *Ordering*: calls of `commonio` in any order with a cursor on the list,
  entries inserted before the NIS lines, merged groups; an account locked or
  expired while its user types a password; lines of `newusers` that build on
  those before them.
- *Time*: locks are waited for only so long; an account that is locked out for
  some time.
- *Numbers*: the ends of the identifier ranges and of the holes between
  subordinate ranges, `u32::MAX`, sums of days that reach the largest `long`,
  limits of users, groups, and of the length of a record.

`PROJECT.json` lists them at their lines ("hazards"), with the property that
would fail, or the reason why none does.

### 1.3 What makes each component correct

- Locks: one holder; the lock file names it; a lock is granted only if it is
  still linked; attempts end and leave no temporary file; `lckpwdf()` is not
  left behind.
- Account file: the list is what the session asked for; the cursor never points
  to freed memory; NIS lines stay last; the file is replaced as a whole or not.
- Account tools: no update of another tool is lost; group agrees with gshadow
  and passwd with shadow; uids stay unique; every tool ends, without a lock.
- Password tools, checkers, converters: what was asked for is not lost, in
  whichever file it is kept; a barred user stays barred; the checkers and
  converters leave files that agree.
- Subordinate identifiers: what a search gives is free, of the right size, and
  nobody else gets it; an edit touches only its user; lookups say what the file
  says; a map holds only identifiers of the caller.
- Sessions: whoever has a session has earned it; the rules mean what the
  manuals say; enough failures lock an account out; utmp shows each session.
- norx: names and numbers unique, primary groups and members exist through
  every sequence of calls, no power without the capability; an acknowledged
  update survives, a partial file is never taken for a database.

## 2. The modules

| module | models | extends |
|---|---|---|
| `AbstractLocks` | what a lock promises | |
| `CommonioLock` | the lock protocol, one action per system call | |
| `CommonioLockProofs` | its invariant, and that it implements `AbstractLocks` | `CommonioLock` |
| `RecordFile` | a table that is replaced as a whole | |
| `CommonioDb`, `MCCommonioDb` | the list and the steps of closing, which implement `RecordFile` | |
| `FindNewId` | the searches for a free identifier | |
| `ToolScripts` | tables, and the calls of a tool as a sequence | |
| `AccountTools`, `MCAccountTools` | seven tools at work on four files | `ToolScripts`, `FindNewId` |
| `ToolScriptsProofs` | lemmas on those calls: a script that gives back each lock it takes still does when a part of it is done, left out or put before another | `ToolScripts` |
| `AccountToolsProofs` | no lost update, no lock left, types, uids, files that agree | `AccountTools`, `ToolScriptsProofs` |
| `Ageing` | passwords and their age | |
| `PasswordEdits`, `GroupEdits` | what the password tools do to their copies of passwd and shadow, of group and gshadow | `ToolScripts`, `Ageing` |
| `PasswordTools`, `MCPasswordTools` | fifteen tools at work on four files, of which two may be absent | `GroupEdits` |
| `PasswordToolsProofs` | no lock left, the checkers repair, a barred password stays | `PasswordTools`, `ToolScriptsProofs` |
| `SubordinateIo` | the file of subordinate ranges, searches and lookups | `ToolScripts` |
| `SubIds`, `MCSubIds` | the tools, the library and the map programs at work on it | `SubordinateIo` |
| `SubIdsProofs` | its locks and copies; searches give to one user, lookups and edits are exact, maps are owned | `SubIds`, `ToolScriptsProofs` |
| `AccessRules` | `login.access`, `suauth`, `porttime`, limits, `CONSOLE` | `Ageing` |
| `LoginRecords` | `faillog` and `utmp` | |
| `Sessions`, `MCSessions` | `login`, `su`, `newgrp`, `sulogin`, `faillog` | `AccessRules`, `LoginRecords` |
| `SessionsProofs` | sessions are earned and shown, and failures lock out | `Sessions` |
| `NorxDatabase`, `MCNorxDatabase` | every operation of `impl Database` | |
| `NorxDatabaseProofs` | its integrity and the powers of plain users | `NorxDatabase` |
| `DurableRegister` | a register that keeps what it acknowledged | |
| `NorxStorage` | transactions and recovery, one action per call of the storage, which implement `DurableRegister` | |
| `NorxStorageProofs` | durability, and that it implements `DurableRegister` | `NorxStorage` |

The modules stack: `AccountTools`, `PasswordTools` and `SubIds` use a lock as `AbstractLocks` states it
(exclusive, released by death) and write a file in one step as `RecordFile`
states it; `CommonioLock` and `CommonioDb` are shown to implement the two. The
steps of the lower modules are thus not repeated above.

### 2.1 CommonioLock

`lock[f]` is the pid in `f.lock`, `tmp[p][f]` says whether `f.<pid>` exists and
whether the lock is linked to it (which is what `check_link_count` counts),
`locked[p][f]` is `db->locked`, `lckHolder` the process inside `lckpwdf()`. A
process walks the labels of an attempt: lckpwdf, create, write, link, check,
and, when the link exists, read, kill, break, relink. Dying and pid reuse
(`Start`) are actions; a system starts with any lock file left behind.
`SetName` are the processes that skip `lckpwdf()` because they named their file
(`pwck FILE`, `--prefix`).

### 2.2 CommonioDb

Entries are cells with `next` and `prev`, plus `head`, `tail` and `cursor`, as
in `struct commonio_db`. Opening reads the lines and runs the hook of group
that merges the lines of a split group; closing runs the hook that splits them,
then backs up, writes, renames, each of which may fail; `Die` may come between
any two. `session` is a history of what the tool has asked for, the value the
list must have. A sort is followed by other operations only when the file has
no NIS lines, which is the only case in which the tools do so.

### 2.3 AccountTools

A process is a script: the list of calls it has still to make (check, lock,
open, pick an identifier, edit, close, unlock), in the order of the code of its
tool. So `open_files`, `close_files`, `fail_exit` appear as sequences, and each
call is one step that interleaves with those of other processes. The checks of
the options read the files without a lock (`Checked`); the edit computes the
new tables (`UseraddEdit` is `usr_update`, `grp_add` and `grp_update`, and so
on; `usermod` renames the user in the member lists and applies `-G`, `-a` and
`-r` to group and to gshadow apart), reading the *files* where the code calls `getpwent` and its own *copies*
where it calls `pw_locate`. `CallFails` is a refused lock or a failed open or
write: the rest of the script becomes what `fail_exit` or the clean-up functions
do. `Killed` is the death of the process, `UserdelQuits` that of `userdel` in
`update_groups`, which calls neither when an entry can not be updated: its lock
files stay until the next tool breaks them. `torn` is a history variable: some
tool ended with a part of its files written.

`newusers` is the tool that checks nothing before it has its locks. Each line of
its input is a step of its own (`EditLine`), by `AddLine`: `get_user_id`,
`add_group` and `add_passwd` see what the lines before have put into the copies,
and one line that fails leaves all four files as they were. A line may ask for
the uid of a user that is there; `copied`, a history variable, has the uids given
so. A line gives a password; one without would leave a user whose password is in
a shadow entry that is not there.

### 2.4 PasswordTools

The same kind of script, with calls more: `test` is `spw_file_present` or
`sgr_file_present`, whose answer decides which files the rest of the script
has, `read` is `getpwnam` or `getspnam` without a lock, `unlink` removes a
shadow file at the end of `pwunconv` and `grpunconv`. `seen` is what a tool read
before it had its locks, so `chpasswd` goes on with passwd alone when it has
found no shadow file, and `gpasswd` writes the group that it had read; it ends
when a file that it has found is gone before it reads it.

The edits are those of the code for an entry that is there or not, in passwd
with the password itself or with "x": `passwd` with its options, `chage`, `chfn`
and `chsh` with what they refuse to users, `usermod` with `-p`, `-L`, `-U`, `-e`,
`-f`, the repairs of `pwck` and `grpck`, answered with yes, and the four
conversions. `Ageing` has the arithmetic of `isexpired` and `agecheck` with
`addsl`, whose sums stop at the largest `long`.

`want` is a history variable: the password, comment, shell and membership that
each user and group was last made to have, taken from the command lines, not
from the edits. `excused` says that a tool stopped half way or wrote what it had
read before it had the lock and was no longer so.

### 2.5 SubordinateIo and SubIds

`SubordinateIo` has `find_free_range`, `add_range`, `remove_range` (which may
split a range), `list_owner_ranges`, `find_subid_owners`, `have_range` and the
deterministic choice of `find_new_sub_uids`, on a sequence of ranges whose
owners are names or numbers. The name of a user is never a number
(`is_valid_name`, `lib/chkname.c`). subuid and subgid are the same code, so one file
stands for both. The sort puts each range where it comes among the others
(`Place`); the loop of `find_free_range` is written as the holes before each
range and after the last (`FirstHole`), the walk of `have_range` from one range
to the next and the edits that `usermod` makes one after the other as recursive
functions. `SubIds` has the scripts of the programs; a call of libsubid
may be made again by a process that kept the file open and locked
(`new_subid_range` returns so when it can reuse a range), and the results of
`sub_uid_close` that the library ignores are ignored. `newuidmap` and
`newgidmap` read without a lock, verify, and write `setgroups` and the map.

What a tool reads before it locks or opens a file is a step of its own
(`CheckUser`) and what it keeps of it is part of its work: `useradd` looks once
that the name is new (`src/useradd.c:2530`) and replaces an entry that has come
since (`pw_update`, line 2108); `usermod` keeps the user and the uid of
`src/usermod.c:1291`, so with `-v`, `-V` or `-S` alone a user who is removed
meanwhile still gets ranges; `newuidmap` and `newgidmap` look up who has called
them before they read the ranges. `newgidmap` decides in `verify_ranges` whether
the process may go on changing its groups (`allow`), and `write_setgroups` acts on
that, not on the files of the later moment. The owner of a range is compared
with the caller by the passwd file of the moment of the check, as `have_range` does.

As in `commonio_open`, a file is opened for writing only by who has its lock.
`manual` is a history variable: identifiers that two names shared when all
began, or that `usermod` gave by number, which nobody searched for.

What the code does and a reader may not expect: for a name that is not in
passwd, `ungrant` and the removal of `userdel` take nothing away and succeed;
`usermod -l` does not rename the owner; with `SUB_UID_STORE_BY_UID`, `useradd`
and `newusers` fail for a user that is new, since the range is added before
passwd is written (`lib/subordinateio.c:665`); `useradd` never finds a range
that its new user already has (`src/useradd.c:2123`).

### 2.6 AccessRules, LoginRecords and Sessions

The programs as they are built without PAM. A process is at a place of its
program (`look`, `ask`, `count`, `reset`, `enter`, ...) and each place is what
happens between two points at which another process can change what it reads:
the account files, `/etc/nologin`, `faillog`, `utmp`, the clock. `account` is
the entry that was read, and stays as it was read. Between steps an
administrator may lock an account, close the system or let `faillog` set limits
and reset counts, and a user at another line whose password has expired changes
it; sessions end and leave their entry in utmp, and a later
login is found by its pid or by its line (`get_current_utmp`), with the
assumption that a pid does not come back while an entry of its last owner is
there. A line has one login at a time.
`faillog` goes through its options in their order, and for each through the
users, reading a record and writing it in two steps; the size of the file is the
one it had when it was opened, so a record that `faillog` itself has put beyond
that end is taken for an empty one by the next option (`src/faillog.c` does not
look at the size again).

The rules are operators on the lines of a file, in the shape of the code: a
recursive function for lists with `EXCEPT`, the first line that applies for
`login.access` and `suauth`.

### 2.7 NorxDatabase and NorxStorage

`NorxDatabase` has one action per method of `impl Database`, its guard the
checks of the method in order. `caller` is a history of who called last.
`NorxStorage` has one action per call of the trait `AtomicStorage` and one for
its failure. The disk is what a machine may find after it stops: `onDisk` is the
set of possible pairs of files, `undone` the set for the case that the last
rename is lost.

## 3. The runs

| run | instance | what it shows |
|---|---|---|
| `lock_lckpwdf` | 2 processes, 2 files, all under `lckpwdf()`, all may die, stale and garbage lock files, pid reuse | mutual exclusion, the lock file names the holder, `lckpwdf()` not left behind, `AbstractLocks` implemented |
| `lock_prefix` | 3 processes on one named file, 2 tries | what holds without `lckpwdf()`: a granted lock is linked to the caller's file, no temporary file is left, the retry loop ends |
| `commonio_db` | sessions on 4 initial files, 2 names, 2 members, 5 cells | list and cursor, NIS order, atomic replacement |
| `commonio_split_group_last` | split group at the end of the file | *violation*: a new entry is lost (finding 1) |
| `account_tools` | 2 of 21 command lines, 6 identifiers, one of them reserved | no lost update, files agree, uids unique, no lock left, every tool ends |
| `password_tools` | 2 of 32 command lines, 4 states of the files: with shadow files, without, half written by a tool that added, by one that removed | nothing that was asked for is lost, barred users stay barred, checkers repair, no lock left |
| `sub_ids` | 2 of 18 programs and calls, 6 files, 4 settings, identifiers up to 9 | searches and lookups exact, edits exact, nobody shares, maps owned |
| `sub_ids_one_too_many` | `usermod -S` | *violation*: one identifier too many (finding 3) |
| `sessions` | 2 commands at each of several sites, 3 moments, accounts that are locked or changed while they wait | rules exact, sessions earned, lock-out, utmp |
| `norx_database` | 2 users, 2 groups, identifiers 0 and 1, limits 2 | integrity and powers over every sequence of calls |
| `norx_storage` | 1 service, 3 updates, any call failing, crashes | durability, lock released, no partial database, `DurableRegister` implemented |
| `norx_sync_failure` | 2 updates | *violation*: a failed call has changed the committed file (finding 2) |

Some properties are worth a word. `NothingAskedIsLost` compares the files with
what the command lines asked for, through conversions and repairs in between.
`EditsExact` compares an edit with the identifiers it should take and give, in
place of the list manipulation: no more is taken from the user than was asked,
what is asked is given, more is given by a search alone, which gives so many as
it should and only free ones, and all others keep what they have. `FirstFreeFound` and `OwnersAgree`, the parts of
`LookupsExact`, are reference definitions by sets, evaluated for every file
that the programs can make. `SessionsEarned` says of a session, not of a step,
that a password of the account, now or before, was given, or which exception
let it in. `LockedOut` counts the failures apart from `faillog`.

### 3.1 Bounds, and why they are enough

- Locks: two processes are a holder and a rival; two files make the count of
  locks (`lock_count`) and the order of a second lock matter. Breaking a stale
  lock needs a dead process, whose pid is one of the two and may come back. Three
  processes let two rivals break the same stale lock. `LockTries` is 15 in the
  code; with 2 the loop is entered, repeated and left. The proofs have no bound.
- `MaxCells` (entries), `MaxAppend` (the list is not appended to beyond) bound
  `CommonioDb`: head, middle and tail, an entry before and after a NIS line, and
  a duplicate are all there with five cells.
- `MaxJobs` bounds the tools started: two at a time show every race between a
  pair, and the proofs of lost updates cover any number. The six identifiers are
  two of system accounts, four of users, of which three and four are in use and
  five is reserved: the first search ends at the last identifier, and a second
  one has to begin anew or find the range full.
  Uids that two users have at first, that are given with `-o`, to `usermod`,
  which looks for them before the lock, or in a line of `newusers`, which does
  not look, are left out of `UidsUnique` one by one (`SharedUids`), and so is one
  that a line takes from another user, from then on (`copied`): the other uids of
  the same run are still checked.
  Of the inputs of `newusers`, one makes a user, touches an existing one and
  makes another, the other takes uids without a look at passwd; the second line
  of each meets what the first has made.
- `password_tools`: one user and one group, since the edits look at one entry;
  a second name in shadow and gshadow, which passwd and group lack, for the
  checkers. `Today` is 10 and `LongMax` 15, so that sums of days stop there. The
  administrator of a group, the user and root run the commands.
- `sub_ids`: identifiers up to 9, of which 2 to 7 are given to users by twos.
  The files have ranges out of order, adjacent, overlapping, of a user by name
  and by number, of nobody, and beyond the interval. `NobodyShares` is of the
  linear search; the deterministic one has no such promise.
- `sessions`: three values of the clock (a first hour, one within the lock-out,
  one after), passwords `r`, `s`, `g`, lists of up to five words. A site is a
  set of files with the commands that are run there; a site for each rule that
  matters: lists with `EXCEPT`, a closed port, a limit on logins, each action of
  `suauth`, groups in gshadow, failures and lock-out. `ShortMax` is 3, which is
  the number of failures that two logins with two attempts each have when one
  ends well, so that the counter of `faillog` reaches its width; `MaxUid` is the
  largest uid of the accounts. `RulesExact` is of the lists of all sites, and
  says of the `suauth` of each site that its lists mean what the manual says to
  the users of that site, which is what the proof of `SessionsEarned` asks for.
- `norx_database`: with identifiers 0 and 1, automatic identifiers reach
  `u32::MAX`; with limits of two users and two groups every limit is met.
  `MemberLists` holds a name up to twice, which is enough for the checks of
  distinctness and of the limit. Symmetry is over names and passwords that the
  specification treats alike; no liveness is checked there.
- `norx_storage`: each update is used once (`Updates`), so three updates are
  three transactions, with failures and crashes between and within them. One
  service: the lock is exclusive, and a second service with an older copy in
  memory is a hazard listed without a property.

### 3.2 Deadlock

Deadlock is checked in every run but those of `AccountTools`, `PasswordTools`,
`SubIds` and `Sessions`, where all the commands that `MaxJobs` allows may have
ended. That those of `AccountTools` do end is `ToolEnds`.

### 3.3 Fairness

`CommonioLock` assumes weak fairness of the steps of an attempt: they are system
calls of a running process, none of which waits, except `lckpwdf()`, which gives
up after its time limit, and that is an action of its own. Nothing is assumed of
a holder: it may keep a lock forever.

`AccountTools` assumes weak fairness of `Step(p)` for each process, and of
nothing else. A step that waits for a lock may always fail (`CallFails`), since
`commonio_lock` waits for a bounded time. So a circle of tools waiting for each
other ends, in failure of one of them. Starting and dying have no fairness.

## 4. The proofs

Each proof is of `Spec => []P`, or of an action property, for every value of the
constants that meets the named assumptions (`ToolsAssumption`,
`PasswordToolsAssumption`, `SubIdsAssumption`, `StorageAssumption`,
`SessionsAssumption`, ...): what
stands for "none" is not a member of the sets it is used with, limits are
numbers, command lines and files are well formed. TLC evaluates them in every
run. A theorem that needs more has it as a hypothesis, and what happens without
it is said here.

`CommonioLockProofs`. For any number of processes, files and tries. The invariant
is in two parts. `Base` holds of every process, also of one that names its file
and skips `lckpwdf()`: types, the temporary file of an attempt goes when the
attempt does, one that is linked decides what the lock holds (`LinkedIsOwn`), the
holder of `lckpwdf()` is inside an attempt or has a lock, the dead hold nothing. From it follow `TmpRemoved`, `LckpwdfNotLeftBehind` and the
action property `GrantOwnsLock`, without a hypothesis. `IInv` adds what needs
every process to use `lckpwdf()`: that a process past the first call of an
attempt, or with a lock, has `lckHolder` (`LckpwdfHeld`); that the lock a process
probes is still the one it read, or gone (`ReadIsCurrent`), and the lock it
breaks is nobody's (`BrokenIsFree`). Without `ReadIsCurrent` and
`BrokenIsFree` `MutualExclusion` is not inductive, and for the processes of
`SetName` they are false (section 5). From it follow mutual exclusion, the lock
file naming its holder, and that the protocol implements `AbstractLocks`, with
`holders` mapped to the processes that have `locked` set.

`NorxDatabaseProofs`. For any names, limits and identifier ranges. The invariant
`Integrity` is the conjunction of the properties: they need each other, for
`DeleteGroup` must not leave an account without its group, and renaming must not
merge two names. One lemma per operation, over lemmas on the helpers
(`set_membership`, `next_id`, adding, replacing and removing a record). That a
caller without the capability can only change the password of its own account
is an action property, proved from the same invariant.

`NorxStorageProofs`. For any updates and services. `LockInv` (who is at a step
that needs the lock has it) gives the types and `LockReleased` without a
hypothesis. The rest is of one service (`OneOwner`), as norx/USERDB.md:5 has it:
"The mutable database is owned by the userdb service". `OwnerInv` says what the
candidate and the temporary file are at each call, and that the database in
memory is part of the committed file (`MemIsCommitted`); it gives
`MemoryNotAhead`, and `AckedSurvives` if `parse` reads every record that is
written (`Oversize = {}`). `BootInv` adds that every disk the machine may find
has the same committed file, and that nothing is written while that is
unreadable; with `~FirstBoot` it gives `NoPartialDatabase` and
`ImplementsRegister`. The hypotheses are needed: TLC finds `AckedSurvives`,
`MemoryNotAhead` and `NoPartialDatabase` violated with two services,
`AckedSurvives` and `NoPartialDatabase` with `Oversize = {u1}`,
`NoPartialDatabase` with `FirstBoot = TRUE`.

`AccountToolsProofs`. For any number of processes, any command lines and any
initial contents. `NoLostUpdate` says that an open copy goes with the lock and
that the file is still what was read; with the shape of the state it is
inductive. That proof does not look at the scripts: `commonio_open` refuses a
file that is not locked, and `commonio_unlock` closes one that is open, and that
is enough for any order of calls. `ToolsWriteFromCurrent` states it of the
steps: a file changes only by a write of its lock's owner from a copy of what it
holds.

`TypeOK` and `UidsUnique` need that, and the order of the calls. `InOrder` says
that no check, pick or second edit comes after an edit, and that passwd is not
opened again after a uid is picked; `PickFirst` that `useradd` picks before it
edits. So a copy is what the file holds until its tool edits it (`Untouched`), a
uid that `useradd` has picked is one that nobody has in its copy (`Picked`), and
as no other tool can write passwd meanwhile, nobody in the file. With a lemma for
the edit of each tool (`UseraddFits`, ..., `AddLineFits`) on the kind of every
table and on the uids of passwd, `FitsInv` is inductive. `FindNewIsFree` is the
lemma on `FindNewId`: an identifier of the range that is not in use, or 0.

`FilesAgree` says something of the files only while nobody has the locks of a pair,
so its invariant `AgreeInv` has to say what the pair holds meanwhile. `Plan` is of
one process: nothing is written before the edit, what will be written is or will
be open, a file and its shadow file are written both or, by a command line that
`Keeps` the names and members, one alone; after the edit the shadow file is not
written without the other. `Truth` relates its copies to each other (before the
edit, and while both are still to be written) and to the files (when one of the
two is written, `Half`). Only one process at a time is `Half` on a pair, because it
had both locks when it wrote the first and keeps the second's; and when none is,
the files agree. All tools but `useradd` unlock a file as soon as they have written
it, so another tool may write the first before the second is written. The invariant
survives that because only a command line with `Keeps` can do so, one that leaves
names and members as they are. One lemma says of the edit of each tool that it
changes the two alike (`UseraddAgrees`, ..., `AddLineAgrees`).
The proof is what showed that `ToolsAssumption` lacked that `Closed`, which stands
for a file that is not open, is not itself a table.

`NothingHeldAtExit`, here and in `PasswordToolsProofs`, is about the scripts. The
invariant `LocksInv` says of each process (`GivesBack`) that every lock it has,
and every one it is still to take, is unlocked later in its script, before any
call after which the tool may end without clean-up (a check, or the test whether
a shadow file is there), and is among those its `fail_exit` unlocks. `Balanced`
and `Covers` of `ToolScriptsProofs` are these conditions on a sequence, with
lemmas on joining two sequences, taking the first call away, and leaving out the
calls on one file (which is what the password tools do when there is no shadow
file). The scripts of the seven and of the fifteen tools are then put together
from parts that meet them. The exits of `update_groups` in `userdel` give nothing
back; they are among the deaths, after which a lock counts as free because
`commonio_lock` breaks one whose process is gone.

`PasswordToolsProofs` also has `CheckersRepair` and `BarredStays`, for any number
of processes, any command lines and any initial files. Both rest on `WorkInv`. A
script is taken as the set of calls that are left of it; `Ordered` and `Makes` say
which come before which and which files they are for, and hold of the script of
each of the fifteen tools (`Form`). With them `PlanOf` says of a process, at each
call and whatever it found in its tests, which locks it has, which copies are open
and what is still to be written (`Needed`), and `StateOf` what that means for the
files: a copy is what the file holds until the edit (`Fresh`); after the edit of a
checker, what the files will hold when all is written agrees (`Mends`, `Final`); a
`passwd` that a user runs has left every barred password as it was (`Bars`). One
lemma per edit shows that these begin to hold, and that another process can not
disturb them follows from the locks it must have.

`SessionsProofs`. For any number of processes and any files. `Base` is the shape
of the state: each process is at a place of its own program. Three properties
rest on it.

- `SessionsEarned`: `EarnInv` says of each process, by its place, what has been
  shown to it so far (`Sound`): a password that was typed is the one that was
  asked for, which is one the account has had (`had`), or the exception that
  lets the user in holds. The hypothesis is that the lists of `suauth` mean what
  the manual says (`SuListsMean`), for the property speaks of their meaning and
  the code of their words; `RulesExact` checks it.
- `UtmpShowsSessions`: `ShowInv` says that an entry on a line has the id of that
  line, that pids are of processes that were started and are distinct, and that
  a login has no living entry on another line than its own, none of type USER
  before its session and one in it. The hypothesis `LinesApart` is that lines
  have different names and different ids (the last characters of the name):
  `pututxline` goes by the id, so of two lines with the same one each login
  would take the other's entry away.
- `LockedOut`: `LockInv` says that the count in `faillog` is the number of
  failures, but for uids in `raced` and those with more failures than a short
  can count; that what `login` is going to write back is what the file has; and
  of `faillog`, which does not look at the size of the file again, only that it
  is right about the count of a record beyond the end. Whoever is about to have
  the count cleared was not locked out when `failcheck` looked, and the clock
  only makes that more so.

`SubIdsProofs`. For any number of processes, any programs, calls and settings,
and any file. `SubIdsInv` is the invariant that the rest stands on, in four parts:
the types of the two files (`FilesOK`); of each script that what it uses it has
open or will open before, and that it edits once, before it closes anything
(`ScriptOK`, `Ready`); that what is open for writing is locked (`LockedOK`); that
until the edit it is what the file holds (`FreshOK`).

- `NobodyShares` follows from `SharedOK`, that what two names share was shared at
  first or given by number. An edit keeps it since its copy is the file's content
  (`FreshOK`), and since each search gives what no range of that copy has
  (`FoundIsFree`, over `FirstHoleFact`); a write keeps it since nobody else has
  written meanwhile.
- `LookupsExact` rests on `FirstHoleFact`: of any sorted file, the hole that is
  taken is the first window of free identifiers, and there is none when none is
  taken. It is also the lemma the other searches use.
- `MapsOwned` rests on `HaveRangeFact`: the walk of `have_range` gets to the end
  just when every identifier is in some range of the user, however the ranges
  overlap. `MapInv` says what is left of a map program's script at each call; that
  once the map is verified, `allow` is so only if a range of it is among those of
  subgid; and that before the group map is written `setgroups` is denied or
  `allow` is so. Nothing in it depends on passwd at the later moments.
- `EditsExact`: `Exact(db, d, name, lost, given)` says that from `db` to `d` only
  `lost` is taken from the user of that name, `given` is given, and others keep
  theirs. It holds of `RemoveRange` (with the part after a hole, which becomes a
  new range) and of `AddRange`, and it composes (`ExactThen`), so it holds of the
  recursive functions of `usermod` (`CarriedOn`) and of each tool's edit.
  `CloseInv`, that a script with an edit closes a file later, tells the step of an edit from
  that of a tool that has given up, of which nothing is left but to unlock.

The proof corrected the model where it said more or less than the code: it had
no word on users whose name is a number, nor that opening for writing takes the
lock, and three definitions by `CASE` (a property here, two operators in `AccessRules`
and `LoginRecords`) had conditions that overlap, of which TLC takes the first and
TLA+ any; the order of the code is now written out.

Least numbers are had from `NaturalsInduction` and `WellFoundedInduction` with
sets in place of operators (`NatMin` and `NatMax` of `SessionsProofs`, `LeastOf`
and `LargestOf` of `SubIdsProofs`). So `Min` and `Max` can be reasoned about, and
so can a recursive function of numbers: of a number at which it is not what it
should be, there would be a least. A fold of a sequence can not.

Only model-checked:

- all liveness (`AttemptEnds`, `ToolEnds`), which the provers do not do;
- `RulesExact`, which compares walks over lists of words (recursive functions
  and folds) with definitions by sets;
- `ListIsSession`, `NisStayLast` and `ImplementsTable` of `CommonioDb`: a linked
  list, whose order is a recursive function of the cells. `TypeOK` there says
  what the variables range over and is in no run;
- `NothingAskedIsLost` of `PasswordTools`: within reach over `WorkInv`, but it
  needs of each of fifteen edits what it does to every field that `want` names.

## 5. Findings

With a run that shows them:

1. `commonio_split_group_last`: with `MAX_MEMBERS_PER_GROUP`, when the last line
   of group belongs to a split group, the next group added is not written
   (`lib/groupio.c:283` does not move `tail`).
2. `norx_sync_failure`: a failed `sync_parent` is reported as a failed
   transaction, but the committed file is already the new one.
3. `sub_ids_one_too_many`: `usermod -S` gives one identifier more than
   `SUB_UID_COUNT` (`src/usermod.c:395`), the first of the next slot.

Where the code falls short, without a run of its own. Each was met in a model,
and the change of a configuration named here shows the first three:

- A process that works on a named file (`pwck FILE`, `--prefix`) does not take
  `lckpwdf()` and may break a lock that was taken after it had read the pid of
  the previous holder (`lib/commonio.c:183`). With `SetName = {p1}` in
  `CommonioLock.cfg`, `HolderOwnsLockFile` and `MutualExclusion` fail.
- `serialize_for_storage` does not check the length of a record, which `parse`
  refuses (`norx/src/lib.rs:1130`): what was published can not be loaded. With
  `Oversize = {u1}` in `NorxStorage.cfg`, `NoPartialDatabase` fails.
- `parse` accepts a file that was cut after a record, so the recovery of a first
  boot may promote a part of a database (`norx/src/lib.rs:911`). With
  `FirstBoot = TRUE` in `NorxStorage.cfg`, `NoPartialDatabase` fails.
- `groupdel` checks that nobody has the group as primary (`src/groupdel.c:395`)
  and `useradd -g` that the group exists before they lock anything: together
  they leave a user without a primary group. Likewise `groupadd -g`,
  `groupmod -g -n` and `usermod -u` may give an identifier twice. `SharedUids`
  is the exception of `UidsUnique` for it.
- Tools that look for a shadow file before the lock of passwd (`chpasswd`,
  `chage`, `usermod`, `gpasswd`) write the password where nobody reads it when
  `pwconv` comes in between; `chfn` and `gpasswd` write back a comment field and
  a member list that they read before the lock. `excused` is the exception of
  `NothingAskedIsLost` for it. `pwck` and `grpck` look before the lock, too: one
  that has found no shadow file does not repair one that another tool makes
  meanwhile. With three tools at a time the file may even be there again after
  it was removed, with an entry or two only, when the check ends; `CheckersRepair`
  is about the checkers that have found the file.
- The comment in `failure` says of the count "The only concern here is overflow,
  and we'll check for that", but the sum that is checked is an `int` and what is
  stored is a `short`, so that the failure after 32767 makes the count
  negative, and the user is no longer locked out. `failures[uid] > ShortMax` is the exception
  of `LockedOut` for it.
- `faillog` is written without a lock, as `lib/failure.c` says itself: a failure
  counted by two logins at once may be counted once. `raced` is the exception of
  `LockedOut` for it.
- `login` hands "/dev/tty..." to `isttytime` and to the rules of `login.access`
  (`src/login.c:922`, `999`), whereas `lib/port.c:157` wants a name without
  "/dev" and man/porttime.5.xml:93 names "console".
- `newgrp` lets a user into the login group without a password, listed in it or
  not (`src/newgrp.c:146`, and `src/newgrp.c:613` for a group that the process has
  already). The comment of `check_perms` (`src/newgrp.c:135`) says so too, but the
  one in `main` (`src/newgrp.c:580`) says that whoever is not in the list of members is
  asked for the password or denied, "even if the group specified has the user's
  login GID", and so does man/newgrp.1.xml:66. `EarnedGroup`, the part of
  `SessionsEarned` for `newgrp`, takes the code's side.
- `update_groups` of `userdel` leaves by `exit` with passwd, shadow, group and
  gshadow locked when an entry can not be copied or updated (`src/userdel.c:202`,
  208, 259, 273); `fail_exit` would have unlocked them. The next tool breaks those
  locks, since their process is gone. It is the exception of `NothingHeldAtExit`.
- A `porttime` line with a day that is not known ends the search, and the user
  is let in. The limit `L` of limits lets one login more in than it says, since
  it is compared before the login has its entry (`lib/limits.c`, `count > limit`).
- `PREVENT_NO_AUTH`, and the test for a locked password that `login -f` makes,
  look at the field of passwd before the shadow entry is looked up.

## 6. What is not modelled, and why

`PROJECT.json` gives the reason for each component. In short: directory walks
are sequences of system calls on a file system that would have to be modelled
too; configuration, formats, messages and helpers are data and wording; glue
calls leave the program; `Lockout` of norx is used by nothing. Of what is
modelled: PAM, tcb, SELinux and an NSS plugin for subordinate identifiers, which
other builds have; home directories and mail spools; the environment and the
limits that `login` and `su` set; lastlog and btmp; network services as a source
of accounts; the reuse of a pid by a program that is not of the suite; `mtime`
and permissions of files; a `login` that is exec'd from one's own session, with its
pid and its entry in utmp (`src/login.c:508`: in the model each login is a new
process, and only root's get past that check); the buffer through which `faillog`
reads (`src/faillog.c:112`: its copy of a record may be older than in the model,
which makes the race of `raced` longer); what `strsep` and `stpsep` make of empty
words in `login.access` (`src/login_nopam.c:225`: the model has a rule's words
already apart); sorting by `pwck -s` (`CommonioDb` has the sort).

## 7. Plan

Done: locks, account file, the account tools with `newusers`, the password
tools, checkers and converters, subordinate identifiers and maps, sessions and
login records, norx database and storage.

To prove next: `NothingAskedIsLost` of the password tools; the lemmas of
`CommonioDb` on inserting and removing an entry.

To model, as far as it is worth it: the walk of `copy_tree` and `remove_tree`
against files that change under it.
