---------------------------- MODULE PasswordTools ----------------------------
(***************************************************************************)
(* The tools that change passwords, their age and what users may change of *)
(* their own account, and those that convert and repair the files, at work *)
(* at the same time: passwd, chpasswd, chage, chfn, chsh, usermod -p -L -U *)
(* -e -f, vipw, pwck, pwconv, pwunconv on passwd and shadow; gpasswd,      *)
(* chgpasswd, grpck, grpconv, grpunconv on group and gshadow.  The shadow  *)
(* files may be absent, and come and go.                                   *)
(*                                                                         *)
(* As in AccountTools a tool is the sequence of calls it has still to      *)
(* make.  What it reads before it has a lock it keeps in seen.             *)
(***************************************************************************)
EXTENDS GroupEdits

CONSTANTS
  Procs,
  ListedShells,   \* of /etc/shells
  Jobs,           \* the command lines that are run
  MaxJobs,        \* bound: tools started
  Names,          \* of users and groups
  Hashes,         \* of passwords, "" for none and "x" for the one of the shadow file
  GecosFields,    \* the parts of the comment field
  UserFields,     \* those that users may change
  Starts,         \* the contents that the files may have at first
  Absent

Files == {"passwd", "shadow", "group", "gshadow"}

Tools == {"passwd", "chpasswd", "chage", "chfn", "chsh", "usermod", "vipw", "pwck", "pwconv",
          "pwunconv", "gpasswd", "chgpasswd", "grpck", "grpconv", "grpunconv"}

(***************************************************************************)
(* What is in the files and on the command lines.                          *)
(***************************************************************************)
Passwords == [locked : BOOLEAN, hash : Hashes]

EntryOf(f) ==
  CASE f = "passwd"  -> [pw : Passwords, gecos : [GecosFields -> STRING], shell : STRING]
    [] f = "shadow"  -> [pw : Passwords, age : [AgeFields -> Int]]
    [] f = "group"   -> [pw : Passwords, members : SUBSET Names]
    [] f = "gshadow" -> [pw : Passwords, admins : SUBSET Names, members : SUBSET Names]

\* A table has a value for some of the names.
IsTable(table, names, values) == \E some \in SUBSET names : table \in [some -> values]

Holds(f, table) == IsTable(table, Names, EntryOf(f))

\* What the tools can not do without.
WellFormed(job) ==
  /\ DOMAIN job = {"tool", "name", "by", "flags", "pw", "old", "age", "gecos", "shell",
                   "users", "admins"}
  /\ job.tool \in Tools
  /\ job.tool = "gpasswd" => job.name \in Names
  /\ IF job.tool \in {"chpasswd", "chgpasswd"} THEN job.pw \in Passwords
     ELSE job.pw \in {Unset} \cup Passwords
  /\ IF job.tool = "chsh" \/ (job.tool = "vipw" /\ "s" \notin job.flags) THEN job.shell \in STRING
     ELSE job.shell \in {Unset} \cup STRING
  /\ IsTable(job.age, AgeFields, Int) /\ IsTable(job.gecos, GecosFields, STRING)
  /\ job.users \subseteq Names /\ job.admins \subseteq Names

ASSUME PasswordToolsAssumption ==
  /\ None \notin Procs \cup Files
  /\ {"", "x"} \subseteq Hashes
  /\ Today \in Int /\ Unset # FALSE
  /\ \A f \in Files : ~Holds(f, Absent) /\ ~Holds(f, Closed)
  /\ \A start \in Starts :
       /\ start = [f \in Files |-> start[f]]
       /\ Holds("passwd", start["passwd"]) /\ Holds("group", start["group"])
       /\ \A f \in {"shadow", "gshadow"} : start[f] = Absent \/ Holds(f, start[f])
  /\ \A job \in Jobs : WellFormed(job)

VARIABLES
  disk,      \* what each file holds, or Absent
  owner,     \* who has the lock of each file
  work,      \* what each process is doing
  started,   \* bound: tools started so far
  want,      \* history: what the users and groups were last made to be
  excused    \* history: a tool stopped half way, or wrote what it had read
             \* before it had the lock and was no longer so

vars == <<disk, owner, work, started, want, excused>>

Idle == [job |-> None, script |-> <<>>, written |-> {},
         mem |-> [f \in Files |-> Closed], seen |-> [f \in Files |-> Unset]]

(***************************************************************************)
(* The scripts.                                                            *)
(***************************************************************************)
Test(f)  == <<Call("test", f)>>
Check    == <<Call("check", None)>>
Edit     == <<Call("edit", None)>>
Read(f)  == <<Call("read", f)>>

Users  == <<"passwd", "shadow">>
Groups == <<"group", "gshadow">>

LockThenOpen(files) == Each("lock", files) \o Each("open", files)

\* The shadow file is looked for once passwd is locked.
PasswdScript ==
  Check \o LockAndOpen(<<"passwd">>) \o Test("shadow") \o LockAndOpen(<<"shadow">>)
    \o Edit \o CloseAndUnlock(Reverse(Users))

ChpasswdScript == Test("shadow") \o LockAndOpen(Users) \o Edit \o CloseAndUnlock(Reverse(Users))

ChageScript ==
  Test("shadow") \o LockAndOpen(Users) \o Edit
    \o Each("close", Reverse(Users)) \o Each("unlock", Reverse(Users))

ChfnScript == Check \o LockAndOpen(<<"passwd">>) \o Edit \o CloseAndUnlock(<<"passwd">>)

UsermodScript ==
  Test("shadow") \o Check \o LockAndOpen(Users) \o Edit \o CloseAndUnlock(Reverse(Users))

VipwScript(job) ==
  LET f == <<IF "s" \in job.flags THEN "shadow" ELSE "passwd">>
  IN  Test(f[1]) \o LockAndOpen(f) \o Edit \o CloseAndUnlock(f)

PwckScript ==
  Test("shadow") \o LockThenOpen(Users) \o Edit
    \o Each("close", Users) \o Each("unlock", Reverse(Users))

PwconvScript ==
  LockAndOpen(Users) \o Edit \o Each("close", Reverse(Users)) \o Each("unlock", Users)

\* shadow is only read, and removed at the end.
PwunconvScript ==
  Test("shadow") \o LockAndOpen(Users) \o Edit \o Each("close", <<"passwd">>)
    \o Each("unlink", <<"shadow">>) \o Each("unlock", Reverse(Users))

GpasswdScript ==
  Test("gshadow") \o Read("group") \o Read("gshadow") \o Check
    \o LockThenOpen(Groups) \o Edit \o CloseAndUnlock(Groups)

ChgpasswdScript ==
  Test("gshadow") \o LockAndOpen(Groups) \o Edit \o CloseAndUnlock(Reverse(Groups))

GrpckScript ==
  Test("gshadow") \o LockThenOpen(Groups) \o Edit
    \o Each("close", Groups) \o Each("unlock", Reverse(Groups))

GrpconvScript ==
  LockAndOpen(Groups) \o Edit \o Each("close", Reverse(Groups)) \o Each("unlock", Reverse(Groups))

GrpunconvScript ==
  Test("gshadow") \o LockAndOpen(Groups) \o Edit \o Each("close", <<"group">>)
    \o Each("unlink", <<"gshadow">>) \o Each("unlock", Groups)

(***************************************************************************)
(* The command lines that are not refused at once.                         *)
(***************************************************************************)
\* A password is asked for when nothing else is to be done.
PasswdParses(job) == (job.pw # Unset) <=> (job.flags \subseteq {"k"} /\ DOMAIN job.age = {})

ChageParses(job) == \A f \in DOMAIN job.age : job.age[f] >= -1

UsermodParses(job) ==
  Cardinality((job.flags \cap {"L", "U"}) \cup (IF job.pw # Unset THEN {"p"} ELSE {})) <= 1

\* -A and -M count as one option, the others exclude each other.
GpasswdParses(job) ==
  \/ job.flags \subseteq {"A", "M"}
  \/ Cardinality(job.flags) = 1

Parses(job) ==
  CASE job.tool = "passwd"  -> PasswdParses(job)
    [] job.tool = "chage"   -> ChageParses(job)
    [] job.tool = "usermod" -> UsermodParses(job)
    [] job.tool = "gpasswd" -> GpasswdParses(job)
    [] OTHER -> TRUE

Script(job) ==
  CASE job.tool = "passwd"    -> PasswdScript
    [] job.tool = "chpasswd"  -> ChpasswdScript
    [] job.tool = "chage"     -> ChageScript
    [] job.tool \in {"chfn", "chsh"} -> ChfnScript
    [] job.tool = "usermod"   -> UsermodScript
    [] job.tool = "vipw"      -> VipwScript(job)
    [] job.tool = "pwck"      -> PwckScript
    [] job.tool = "pwconv"    -> PwconvScript
    [] job.tool = "pwunconv"  -> PwunconvScript
    [] job.tool = "gpasswd"   -> GpasswdScript
    [] job.tool = "chgpasswd" -> ChgpasswdScript
    [] job.tool = "grpck"     -> GrpckScript
    [] job.tool = "grpconv"   -> GrpconvScript
    [] job.tool = "grpunconv" -> GrpunconvScript

\* Variant: the shadow files are forgotten.
UnlockOrderForgets(job) == <<"passwd", "group">>

\* fail_exit of each tool, or the clean-up functions of gpasswd.
UnlockOrder(job) ==
  CASE job.tool \in {"chpasswd", "pwconv"} -> Users
    [] job.tool \in {"passwd", "chage", "chfn", "chsh", "usermod", "vipw", "pwck",
                     "pwunconv"} -> Reverse(Users)
    [] job.tool = "gpasswd" -> Reverse(Groups)
    [] OTHER -> Groups

\* The tools that have nothing to do without the file they look for.
Needs == {"chage", "pwunconv", "grpunconv", "vipw"}

\* Those that refuse to open a file that has gone; the others create it.
OpensOnlyExisting == {"pwck", "pwunconv", "grpunconv", "vipw"}

(***************************************************************************)
(* The checks made before the lock.                                        *)
(***************************************************************************)
Account(n)  == disk["passwd"][n]
Aged(n) == IF disk["shadow"] # Absent /\ n \in DOMAIN disk["shadow"] THEN disk["shadow"][n]
           ELSE [pw |-> Account(n).pw, age |-> NoAge]

OwnOrRoot(job) == job.by \in {Root, job.name} /\ job.name \in DOMAIN disk["passwd"]

\* Without options passwd asks for the password, and looks whether it may be
\* changed; the options but -k are for root.
PasswdAllowed(job) ==
  /\ OwnOrRoot(job)
  /\ job.pw = Unset => job.by = Root
  /\ job.pw # Unset => /\ CheckPassword(job, Account(job.name).pw, Aged(job.name))
                       /\ NewPasswordGiven(job, Aged(job.name).pw)

MayChangeFields(job) == job.by = Root \/ DOMAIN job.gecos \subseteq UserFields

ChfnAllowed(job) == OwnOrRoot(job) /\ MayChangeFields(job)

\* Neither a restricted shell nor a new one may be missing in /etc/shells.
ShellsListed(job) == {Account(job.name).shell, job.shell} \subseteq ListedShells

ChshAllowed(job) == OwnOrRoot(job) /\ (job.by = Root \/ ShellsListed(job))

\* The ageing that usermod -e and -f would change.
Changing(job) ==
  {f \in DOMAIN job.age : job.age[f] # Aged(job.name).age[f]}

UsermodAllowed(job, seen) ==
  /\ OwnOrRoot(job)
  /\ job.pw # Unset \/ job.flags # {} \/ Changing(job) # {}
  /\ ~seen["shadow"] => Changing(job) = {}

\* check_perms, and the options of main that look at users.
GpasswdAllowed(job, seen) ==
  /\ seen["group"] # None
  /\ job.flags \cap {"a", "A", "M"} # {} =>
       job.users \cup job.admins \subseteq DOMAIN disk["passwd"]
  /\ "A" \in job.flags => seen["gshadow"] # Absent
  /\ \/ job.by = Root
     \/ /\ job.flags \cap {"A", "M"} = {}
        /\ seen["gshadow"] \notin {Absent, None}
        /\ job.by \in seen["gshadow"].admins
  /\ "d" \in job.flags =>
       job.users \subseteq
         seen["group"].members
         \cup (IF seen["gshadow"] \in {Absent, None} THEN {} ELSE seen["gshadow"].members)

Allowed(job, seen) ==
  CASE job.tool = "passwd"  -> PasswdAllowed(job)
    [] job.tool = "chfn"    -> ChfnAllowed(job)
    [] job.tool = "chsh"    -> ChshAllowed(job)
    [] job.tool = "usermod" -> UsermodAllowed(job, seen)
    [] job.tool = "gpasswd" -> GpasswdAllowed(job, seen)

EditsOf(job, mem, seen) ==
  CASE job.tool = "passwd"    -> PasswdEdit(job, mem)
    [] job.tool = "chpasswd"  -> ChpasswdEdit(job, mem)
    [] job.tool = "chage"     -> ChageEdit(job, mem)
    [] job.tool = "chfn"      ->
         ChfnEdit([job EXCEPT !.gecos = Over(@, seen["passwd"])], mem)
    [] job.tool = "chsh"      -> ChshEdit(job, mem)
    [] job.tool = "usermod"   -> UsermodPasswordEdit(job, mem)
    [] job.tool = "vipw"      -> VipwEdit(job, mem)
    [] job.tool = "pwck"      -> PwckEdit(job, mem)
    [] job.tool = "pwconv"    -> PwconvEdit(job, mem)
    [] job.tool = "pwunconv"  -> PwunconvEdit(job, mem)
    [] job.tool = "gpasswd"   -> GpasswdEdit(job, mem, seen["group"], seen["gshadow"])
    [] job.tool = "chgpasswd" -> ChgpasswdEdit(job, mem)
    [] job.tool = "grpck"     -> GrpckEdit(job, mem, DOMAIN disk["passwd"])
    [] job.tool = "grpconv"   -> GrpconvEdit(job, mem)
    [] job.tool = "grpunconv" -> GrpunconvEdit(job, mem)

(***************************************************************************)
(* What users and groups are: the password is the one of the shadow file   *)
(* where passwd or group has an "x".                                       *)
(***************************************************************************)
Password(entry, shadow, n) ==
  IF entry.pw # Shadow \/ shadow = Absent THEN entry.pw
  ELSE IF n \in DOMAIN shadow THEN shadow[n].pw ELSE Shadow

UserNow(n) ==
  [Account(n) EXCEPT !.pw = Password(Account(n), disk["shadow"], n)]

GroupNow(g) ==
  [disk["group"][g] EXCEPT !.pw = Password(disk["group"][g], disk["gshadow"], g)]

\* What a tool that ends well has made of them.
Result(new, old) == IF new = {} THEN old ELSE CHOOSE r \in new : TRUE

AskedUser(job, u) ==
  CASE job.tool = "passwd"   -> [u EXCEPT !.pw = Result(UpdateCryptPw(job, @), @)]
    [] job.tool = "usermod"  -> [u EXCEPT !.pw = Result(NewPwPasswd(job, @), @)]
    [] job.tool = "chpasswd" -> [u EXCEPT !.pw = job.pw]
    [] job.tool = "chfn"     -> [u EXCEPT !.gecos = Over(job.gecos, @)]
    [] job.shell # Unset     -> [u EXCEPT !.shell = job.shell]
    [] OTHER -> u

AskedGroup(job, g) ==
  CASE job.tool = "gpasswd"   -> [pw |-> GpasswdPw(job, g.pw),
                                  members |-> GpasswdMembers(job, g.members)]
    [] job.tool = "chgpasswd" -> [g EXCEPT !.pw = job.pw]
    [] job.tool = "grpck"     -> [g EXCEPT !.members = CheckMembers(@, DOMAIN disk["passwd"])]
    [] OTHER -> g

Asked(job) ==
  [users  |-> [n \in DOMAIN want.users |->
                 IF n \in {job.name} \cup job.users THEN AskedUser(job, want.users[n])
                 ELSE want.users[n]],
   groups |-> [g \in DOMAIN want.groups |->
                 IF g = job.name \/ job.tool = "grpck" THEN AskedGroup(job, want.groups[g])
                 ELSE want.groups[g]]]

(***************************************************************************)
(* The steps of a process.                                                 *)
(***************************************************************************)
Doing(p, do) == work[p].script # <<>> /\ Head(work[p].script).do = do
Now(p) == Head(work[p].script).file

Becomes(p, w) == work' = [work EXCEPT ![p] = IF w.script = <<>> THEN Idle ELSE w]
Proceed(p, w) == Becomes(p, [w EXCEPT !.script = Tail(@)])

FailExit(p) ==
  Becomes(p, [work[p] EXCEPT !.script = UnlockHeld(UnlockOrder(work[p].job), owner, p)])

ToWrite(script) == \E i \in DOMAIN script : script[i].do \in {"close", "unlink"}

\* The process stops here: some of its files are written and some are not.
Tears(p) == work[p].written # {} /\ ToWrite(work[p].script)

\* What a tool looks at in a file before it has the lock.
Look(job, f) ==
  CASE job.tool = "chfn" -> Account(job.name).gecos
    [] job.tool = "gpasswd" ->
         IF disk[f] = Absent THEN Absent
         ELSE IF job.name \in DOMAIN disk[f] THEN disk[f][job.name] ELSE None
    [] OTHER -> disk[f] # Absent

Stale(p) == \E f \in Files : work[p].seen[f] # Unset /\ work[p].seen[f] # Look(work[p].job, f)

Start(p) ==
  /\ work[p] = Idle
  /\ started < MaxJobs
  /\ started' = started + 1
  /\ \E job \in {j \in Jobs : Parses(j)} :
       Becomes(p, [Idle EXCEPT !.job = job, !.script = Script(job)])
  /\ UNCHANGED <<disk, owner, want, excused>>

\* spw_file_present and sgr_file_present: without the file the tool goes on
\* with the other one, or ends.
TestFile(p) ==
  /\ Doing(p, "test")
  /\ LET w == work[p]
         there == disk[Now(p)] # Absent
     IN  IF ~there /\ w.job.tool \in Needs THEN Becomes(p, Idle)
         ELSE Becomes(p, [w EXCEPT
                !.seen[Now(p)] = IF w.job.tool = "passwd" THEN @ ELSE Look(w.job, Now(p)),
                !.script = IF there THEN Tail(@)
                           ELSE Without(Tail(@), Now(p))])
  /\ UNCHANGED <<disk, owner, started, want, excused>>

\* get_group of gpasswd opens each file without a lock, and ends when it is
\* not there any more.
ReadFile(p) ==
  /\ Doing(p, "read")
  /\ IF disk[Now(p)] = Absent THEN Becomes(p, Idle)
     ELSE Proceed(p, [work[p] EXCEPT !.seen[Now(p)] = Look(work[p].job, Now(p))])
  /\ UNCHANGED <<disk, owner, started, want, excused>>

CheckJob(p) ==
  /\ Doing(p, "check")
  /\ LET job == work[p].job
     IN  IF ~Allowed(job, work[p].seen) THEN Becomes(p, Idle)
         ELSE Proceed(p, [work[p] EXCEPT
                !.seen["passwd"] = IF job.tool = "chfn" THEN Look(job, "passwd") ELSE @,
                !.job.age = IF job.tool = "usermod" THEN [f \in Changing(job) |-> @[f]] ELSE @])
  /\ UNCHANGED <<disk, owner, started, want, excused>>

LockFile(p) ==
  /\ Doing(p, "lock")
  /\ owner[Now(p)] = None
  /\ owner' = [owner EXCEPT ![Now(p)] = p]
  /\ Proceed(p, work[p])
  /\ UNCHANGED <<disk, started, want, excused>>

\* A file that has gone is created when it is written, or not opened.
OpenFile(p) ==
  /\ Doing(p, "open")
  /\ owner[Now(p)] = p
  /\ disk[Now(p)] = Absent => work[p].job.tool \notin OpensOnlyExisting
  /\ Proceed(p, [work[p] EXCEPT
       !.mem[Now(p)] = IF disk[Now(p)] = Absent THEN <<>> ELSE disk[Now(p)]])
  /\ excused' = (excused \/ Stale(p))
  /\ UNCHANGED <<disk, owner, started, want>>

EditFiles(p) ==
  /\ Doing(p, "edit")
  /\ LET w == work[p]
         edited == EditsOf(w.job, w.mem, w.seen)
     IN  IF edited = {} THEN FailExit(p)
         ELSE \E mem \in edited : Proceed(p, [w EXCEPT !.mem = mem])
  /\ UNCHANGED <<disk, owner, started, want, excused>>

\* A file in which nothing was changed is not written, so that one that is
\* not there is created only for an entry.
CloseFile(p) ==
  /\ Doing(p, "close")
  /\ LET new == work[p].mem[Now(p)]
     IN  disk' = [disk EXCEPT ![Now(p)] = IF @ = Absent /\ new = <<>> THEN @ ELSE new]
  /\ Proceed(p, [work[p] EXCEPT !.mem[Now(p)] = Closed, !.written = @ \cup {Now(p)}])
  /\ want' = IF ToWrite(Tail(work[p].script)) THEN want ELSE Asked(work[p].job)
  /\ UNCHANGED <<owner, started, excused>>

UnlinkFile(p) ==
  /\ Doing(p, "unlink")
  /\ disk' = [disk EXCEPT ![Now(p)] = Absent]
  /\ Proceed(p, [work[p] EXCEPT !.mem[Now(p)] = Closed])
  /\ UNCHANGED <<owner, started, want, excused>>

UnlockFile(p) ==
  /\ Doing(p, "unlock")
  /\ owner' = [owner EXCEPT ![Now(p)] = IF @ = p THEN None ELSE @]
  /\ Proceed(p, [work[p] EXCEPT !.mem[Now(p)] = Closed])
  /\ UNCHANGED <<disk, started, want, excused>>

\* A lock is not given in time, or a file can not be opened or written.
CallFails(p) ==
  /\ \E do \in {"lock", "open", "close", "unlink"} : Doing(p, do)
  /\ FailExit(p)
  /\ excused' = (excused \/ Tears(p))
  /\ UNCHANGED <<disk, owner, started, want>>

Step(p) == \/ TestFile(p) \/ ReadFile(p) \/ CheckJob(p) \/ LockFile(p) \/ OpenFile(p)
           \/ EditFiles(p) \/ CloseFile(p) \/ UnlinkFile(p) \/ UnlockFile(p)
           \/ CallFails(p)

Killed(p) ==
  /\ work[p] # Idle
  /\ work' = [work EXCEPT ![p] = Idle]
  /\ owner' = [f \in Files |-> IF owner[f] = p THEN None ELSE owner[f]]
  /\ excused' = (excused \/ Tears(p))
  /\ UNCHANGED <<disk, started, want>>

Next == \E p \in Procs : Start(p) \/ Step(p) \/ Killed(p)

Init ==
  /\ disk \in Starts
  /\ owner = [f \in Files |-> None]
  /\ work = [p \in Procs |-> Idle]
  /\ started = 0
  /\ want = [users |-> [n \in DOMAIN disk["passwd"] |-> UserNow(n)],
             groups |-> [g \in DOMAIN disk["group"] |-> GroupNow(g)]]
  /\ excused = FALSE

Spec == Init /\ [][Next]_vars

(***************************************************************************)
(* Properties.                                                             *)
(***************************************************************************)
Free(files) == \A f \in files : owner[f] = None

\* Two passwords nobody can log in with are as good as each other.
Same(a, b) == a = b \/ (a.hash = "x" /\ b.hash = "x")

\* No password, comment field, shell or membership that a tool has set is
\* lost, whether in passwd or in shadow, in group or in gshadow, and
\* whatever converts or repairs the files in between.  The exceptions are a
\* tool that stopped half way, and one that acts on what it read before it
\* had the lock: is_shadow of chpasswd, usermod and the others, the comment
\* field of chfn (get_old_fields) and the group of gpasswd (get_group).
NothingAskedIsLost ==
  /\ ~excused /\ Free({"passwd", "shadow"}) =>
       \A n \in DOMAIN disk["passwd"] :
         /\ Same(UserNow(n).pw, want.users[n].pw)
         /\ UserNow(n).gecos = want.users[n].gecos
         /\ UserNow(n).shell = want.users[n].shell
  /\ ~excused /\ Free({"group", "gshadow"}) =>
       \A g \in DOMAIN disk["group"] :
         /\ Same(GroupNow(g).pw, want.groups[g].pw)
         /\ GroupNow(g).members = want.groups[g].members

\* A locked password and an account that has expired are safe from the user:
\* passwd looks again under the lock, so that an administrator who locks the
\* account while the user types a new password has the last word
\* (check_password in update_shadow and update_noshadow).
BarredStays ==
  [][\A p \in Procs, n \in DOMAIN disk["passwd"] :
       /\ Doing(p, "close") /\ work'[p] # work[p]
       /\ work[p].job.tool = "passwd" /\ work[p].job.by # Root
       /\ UserNow(n).pw.locked \/ AccountExpired(Aged(n).age, Today)
       => UserNow(n)'.pw = UserNow(n).pw]_vars

\* A file that is not there has no entries.
Entries(f) == IF disk[f] = Absent THEN {} ELSE DOMAIN disk[f]

\* What the converters and checkers leave behind: no entry without its
\* fellow and, after a conversion, no password outside the shadow file and
\* the same members in both (main of pwconv and grpconv, check_pw_file and
\* check_spw_file of pwck, check_grp_file and check_sgr_file of grpck).  A
\* checker that has found no shadow file does not look at one that another
\* tool makes meanwhile (is_shadow of pwck and grpck).
Repaired(w) ==
  /\ w.job.tool = "pwconv" \/ (w.job.tool = "pwck" /\ w.seen["shadow"]) =>
       Entries("passwd") = Entries("shadow")
  /\ w.job.tool = "pwconv" =>
       \A n \in Entries("passwd") : disk["passwd"][n].pw = Shadow
  /\ w.job.tool = "grpconv" \/ (w.job.tool = "grpck" /\ w.seen["gshadow"]) =>
       Entries("group") = Entries("gshadow")
  /\ w.job.tool = "grpconv" =>
       \A g \in Entries("group") :
         /\ disk["group"][g].pw = Shadow
         /\ disk["group"][g].members = disk["gshadow"][g].members

CheckersRepair ==
  [][\A p \in Procs :
       CloseFile(p) /\ ~ToWrite(Tail(work[p].script)) => Repaired(work[p])']_vars

\* A tool that has ended has left no lock behind (fail_exit of each tool,
\* and the clean-up functions that gpasswd adds in open_files and takes
\* away in close_files).
NothingHeldAtExit ==
  \A p \in Procs : work[p] = Idle => \A f \in Files : owner[f] # p
=============================================================================
