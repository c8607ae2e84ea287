---------------------------- MODULE AccountTools ----------------------------
(***************************************************************************)
(* The tools that add, change and remove accounts (useradd, usermod,       *)
(* userdel, groupadd, groupmod, groupdel, newusers) run at the same time on the same *)
(* four files.  A tool first checks what it can without a lock, then locks and  *)
(* opens the files in an order of its own, edits its copies, and writes    *)
(* and unlocks the files one by one.                                       *)
(*                                                                         *)
(* A tool is the sequence of calls that it has still to make, its script;  *)
(* every call is one step.  The lock of a file is that of AbstractLocks,   *)
(* which CommonioLock implements: it is exclusive, and the lock of a       *)
(* process that has died is free, as the next one breaks it.  Writing a    *)
(* file is the single step that CommonioDb shows it to be.                 *)
(*                                                                         *)
(* Abstractions.  The shadow files are present and USERGROUPS_ENAB is on.  *)
(* A user is a uid and a gid, a group a gid and members; passwords, group  *)
(* administrators and the files of subordinate ids are left out.  Names    *)
(* of users and of groups are taken from one set, as a user's own group    *)
(* has the user's name.                                                    *)
(***************************************************************************)
EXTENDS ToolScripts, FindNewId

CONSTANTS
  Procs,
  Names,
  Ids,
  IdMin, IdMax,        \* UID_MIN and GID_MIN, UID_MAX and GID_MAX
  SysIdMin, SysIdMax,  \* the same of system accounts
  Jobs,                \* the command lines that are run
  MaxJobs,             \* bound: tools started
  Passwd0, Group0,     \* what the files hold at first
  None, Closed, Unset

Files == {"passwd", "shadow", "group", "gshadow"}

User  == [uid : Ids, gid : Ids]
Group == [gid : Ids, members : SUBSET Names]

\* A line of the input of newusers, which gives a password.  The uid is a
\* number, that of another user, or a free one; the group a number, a name,
\* or one of the user's own.
Line == [name : Names, uid : Ids \cup {0}, uidOf : Names \cup {Unset},
         gid : Ids \cup {0}, group : Names \cup {Unset}]

\* A command line; Unset (0 for an identifier) is an option not given.
Job == [tool    : {"useradd", "usermod", "userdel", "groupadd", "groupmod", "groupdel",
                   "newusers"},
        name    : Names \cup {Unset},
        newName : Names \cup {Unset},
        uid     : Ids \cup {0},
        gid     : Ids \cup {0},
        users   : (SUBSET Names) \cup {Unset},   \* -U of groupadd and groupmod
        groups  : SUBSET Names,                \* -G of useradd and usermod
        flags   : SUBSET {"f", "o", "a", "r", "G", "usergroup"},
        lines   : Seq(Line)]                   \* the input of newusers

\* A table has an entry for some of the names.
Table(t, Entry) == DOMAIN t \subseteq Names /\ t \in [DOMAIN t -> Entry]

\* 0 stands for an option not given, so the identifier of root is not one of
\* Ids.  A tool that is not given the name of a user or group ends at once.
\* Closed, the copy of a file that is not open, is no table.
ASSUME ToolsAssumption ==
  /\ Ids \subseteq Nat /\ 0 \notin Ids
  /\ IdMin \in Nat /\ IdMax \in Nat /\ IdMin .. IdMax \subseteq Ids
  /\ SysIdMin \in Nat /\ SysIdMax \in Nat /\ SysIdMin .. SysIdMax \subseteq Ids
  /\ None \notin Procs /\ MaxJobs \in Nat
  /\ Unset \notin Names
  /\ Jobs \subseteq Job
  /\ \A job \in Jobs : job.tool # "newusers" => job.name \in Names
  /\ Table(Passwd0, User) /\ Table(Group0, Group)
  /\ \A D \in SUBSET Names :
       Closed # D /\ Closed \notin [D -> User] \cup [D -> Group] \cup [D -> SUBSET Names]

VARIABLES
  disk,      \* what each file holds
  owner,     \* who has the lock of each file
  work,      \* what each process is doing
  started,   \* bound: tools started so far
  torn,      \* history: a tool stopped after it had written some of its files
  copied     \* history: uids that newusers has given to one more user, as asked

vars == <<disk, owner, work, started, torn, copied>>

Contents(f, c) ==
  CASE f = "passwd"  -> Table(c, User)
    [] f = "shadow"  -> c \subseteq Names
    [] f = "group"   -> Table(c, Group)
    [] f = "gshadow" -> Table(c, SUBSET Names)

Calls == [do : {"lock", "open", "close", "unlock"}, file : Files]
         \cup [do : {"lookup", "check", "pick", "edit"}, file : {None}]

\* mem: the copies of the opened files; base, a history: what was read into
\* them; written: the files already written.
Idle == [job |-> None, script |-> <<>>, mem |-> [f \in Files |-> Closed],
         base |-> [f \in Files |-> Closed], written |-> {}]

(***************************************************************************)
(* Operators on the tables.                                                *)
(***************************************************************************)
Uids(passwd) == {passwd[n].uid : n \in DOMAIN passwd}
Gids(group)  == {group[n].gid : n \in DOMAIN group}
PrimaryOf(gid, passwd) == {n \in DOMAIN passwd : passwd[n].gid = gid}

FindNew(used, job) ==
  IF "r" \in job.flags THEN NewSystemId(used, SysIdMin, SysIdMax)
                       ELSE NewId(used, IdMin, IdMax)

FindNewUid(passwd, job) == FindNew(Uids(passwd), job)
FindNewGid(group, job)  == FindNew(Gids(group), job)

\* A user's own group gets the user's uid as gid when it is free.
FindNewUserGid(group, uid, job) ==
  PreferredOr(uid, IF "r" \in job.flags THEN 1 ELSE IdMin,
              IF "r" \in job.flags THEN SysIdMax ELSE IdMax,
              Gids(group), FindNewGid(group, job))

(***************************************************************************)
(* The scripts: the order in which each tool locks, opens, writes and      *)
(* unlocks its files.                                                      *)
(***************************************************************************)
CheckCall == Call("check", None)
EditCall  == Call("edit", None)

GroupFiles == <<"group", "gshadow">>

\* useradd writes the group files only with -U or -G.
UseraddScript(job) ==
     LockAndOpen(<<"passwd">> \o GroupFiles) \o <<Call("pick", None)>>
  \o LockAndOpen(<<"shadow">>) \o <<EditCall>>
  \o Each("close", <<"passwd", "shadow">>)
  \o (IF "usergroup" \in job.flags \/ job.groups # {} THEN Each("close", GroupFiles) ELSE <<>>)
  \o Each("unlock", <<"shadow", "passwd">> \o GroupFiles)

UserdelScript ==
  LET files == <<"passwd", "shadow">> \o GroupFiles
  IN  LockAndOpen(files) \o <<EditCall>> \o CloseAndUnlock(files)

\* shadow only for a new name, the group files only for a new name or -G;
\* they are written in the reverse order.
UsermodFiles(job) ==
     <<"passwd">>
  \o (IF job.newName # Unset THEN <<"shadow">> ELSE <<>>)
  \o (IF job.newName # Unset \/ "G" \in job.flags THEN GroupFiles ELSE <<>>)

UsermodScript(job) ==
     LockAndOpen(UsermodFiles(job)) \o <<EditCall>>
  \o CloseAndUnlock(Reverse(UsermodFiles(job)))

\* groupadd and groupdel
GroupScript ==
     Each("lock", GroupFiles) \o Each("open", GroupFiles) \o <<EditCall>>
  \o CloseAndUnlock(GroupFiles)

\* Variant: gshadow only for new members.
GroupmodFilesOnlyMembers(job) ==
     <<"group">>
  \o (IF job.users # Unset THEN <<"gshadow">> ELSE <<>>)
  \o (IF job.gid # 0 THEN <<"passwd">> ELSE <<>>)

\* gshadow only for a new name or members, passwd only for a new gid.
GroupmodFiles(job) ==
     <<"group">>
  \o (IF job.newName # Unset \/ job.users # Unset THEN <<"gshadow">> ELSE <<>>)
  \o (IF job.gid # 0 THEN <<"passwd">> ELSE <<>>)

GroupmodScript(job) ==
     Each("lock", GroupmodFiles(job)) \o Each("open", GroupmodFiles(job)) \o <<EditCall>>
  \o CloseAndUnlock(GroupmodFiles(job))

NewusersFiles == <<"passwd", "shadow">> \o GroupFiles

NewusersScript ==
     Each("lock", NewusersFiles) \o Each("open", NewusersFiles) \o <<EditCall>>
  \o CloseAndUnlock(NewusersFiles)

Script(job) ==
  CASE job.tool = "useradd" -> UseraddScript(job)
    [] job.tool = "usermod" -> UsermodScript(job)
    [] job.tool = "userdel" -> UserdelScript
    [] job.tool = "groupmod" -> GroupmodScript(job)
    [] OTHER -> GroupScript

\* What process_flags does before the check: useradd looks the groups of -G
\* up in the opened files.  newusers checks nothing before it has the locks.
Prelude(job) ==
  IF job.tool = "newusers" THEN NewusersScript
  ELSE IF job.tool # "useradd" THEN <<CheckCall>>
  ELSE (IF job.groups = {} THEN <<>>
        ELSE LockAndOpen(GroupFiles) \o <<Call("lookup", None)>> \o Each("unlock", GroupFiles))
       \o <<CheckCall>>

(***************************************************************************)
(* The checks made without a lock: the jobs the tool goes on with, none    *)
(* when it refuses, and the job changed when it drops an option or takes   *)
(* note of a gid.                                                          *)
(***************************************************************************)
UseraddChecked(job) ==
  {j \in {job} : /\ job.name \notin DOMAIN disk["passwd"]
                 /\ "usergroup" \in job.flags => job.name \notin DOMAIN disk["group"]}

\* Options that would change nothing are dropped, and the tool ends when
\* none is left.
UsermodChecked(job) ==
  {j \in {[job EXCEPT !.uid = IF @ = disk["passwd"][n].uid THEN 0 ELSE @,
                      !.gid = IF @ = disk["passwd"][n].gid THEN 0 ELSE @,
                      !.newName = IF @ = n THEN Unset ELSE @] :
             n \in {job.name} \cap DOMAIN disk["passwd"]} :
     /\ j.newName # Unset \/ j.uid # 0 \/ j.gid # 0 \/ "G" \in j.flags
     /\ j.newName \notin DOMAIN disk["passwd"]
     /\ "o" \in j.flags \/ j.uid \notin Uids(disk["passwd"])}

UserdelChecked(job) ==
  {[job EXCEPT !.gid = disk["passwd"][n].gid] : n \in {job.name} \cap DOMAIN disk["passwd"]}

GroupaddChecked(job) ==
  LET inUse == job.gid \in Gids(disk["group"])
  IN  {[job EXCEPT !.gid = IF inUse /\ "o" \notin job.flags THEN 0 ELSE @] :
         n \in {m \in {job.name} \ DOMAIN disk["group"] :
                  inUse => job.flags \cap {"o", "f"} # {}}}

GroupdelChecked(job) ==
  {j \in {job} : /\ job.name \in DOMAIN disk["group"]
                 /\ \/ "f" \in job.flags
                    \/ PrimaryOf(disk["group"][job.name].gid, disk["passwd"]) = {}}

GroupmodChecked(job) ==
  {[job EXCEPT !.gid = IF @ = disk["group"][n].gid THEN 0 ELSE @,
               !.newName = IF @ = n THEN Unset ELSE @] :
     n \in {m \in {job.name} \cap DOMAIN disk["group"] :
              /\ \/ job.gid \in {0, disk["group"][m].gid}
                 \/ "o" \in job.flags
                 \/ job.gid \notin Gids(disk["group"])
              /\ job.newName # m => job.newName \notin DOMAIN disk["group"]}}

Checked(job) ==
  CASE job.tool = "useradd"  -> UseraddChecked(job)
    [] job.tool = "usermod"  -> UsermodChecked(job)
    [] job.tool = "userdel"  -> UserdelChecked(job)
    [] job.tool = "groupadd" -> GroupaddChecked(job)
    [] job.tool = "groupdel" -> GroupdelChecked(job)
    [] OTHER -> GroupmodChecked(job)

(***************************************************************************)
(* The edits of the opened files: the contents they end with, none when    *)
(* the tool gives up.                                                      *)
(***************************************************************************)
\* usr_update, with grp_add before it for -U and grp_update for -G.
UseraddEdit(job, mem) ==
  LET own == "usergroup" \in job.flags
      gid == IF own THEN FindNewUserGid(mem["group"], job.uid, job) ELSE job.gid
      group   == IF own THEN Put(mem["group"], job.name, [gid |-> gid, members |-> {}])
                        ELSE mem["group"]
      gshadow == IF own THEN Put(mem["gshadow"], job.name, {}) ELSE mem["gshadow"]
      new(g)  == IF g \in job.groups THEN {job.name} ELSE {}
  IN  {[f \in Files |->
          CASE f = "passwd"  -> Put(mem["passwd"], job.name, [uid |-> job.uid, gid |-> i])
            [] f = "shadow"  -> mem["shadow"] \cup {job.name}
            [] f = "group"   -> [g \in DOMAIN group |->
                                   [group[g] EXCEPT !.members = @ \cup new(g)]]
            [] f = "gshadow" -> [g \in DOMAIN gshadow |->
                                   IF g \in DOMAIN group THEN gshadow[g] \cup new(g)
                                   ELSE gshadow[g]]] :
       i \in {gid} \ {0}}

UsermodName(job) == IF job.newName = Unset THEN job.name ELSE job.newName

\* The passwd entry with the identifiers of -u and -g.
UsermodEntry(job, old) ==
  [uid |-> IF job.uid = 0 THEN old.uid ELSE job.uid,
   gid |-> IF job.gid = 0 THEN old.gid ELSE job.gid]

\* The members of the group g, which had these: the user stays, under the
\* new name, or comes or goes as -G, -a and -r say.
UsermodMembers(job, g, had) ==
  LET listed == g \in job.groups
      was    == job.name \in had
      stays  == CASE "G" \notin job.flags -> was
                  [] {"G", "r"} \subseteq job.flags -> was /\ ~listed
                  [] OTHER -> listed \/ (was /\ "a" \in job.flags)
  IN  (had \ {job.name}) \cup (IF stays THEN {UsermodName(job)} ELSE {})

\* usr_update, which looks for the new name again, and grp_update.
UsermodEdit(job, mem) ==
  LET name == UsermodName(job)
      usr  == job.newName # Unset \/ job.uid # 0 \/ job.gid # 0
  IN  {[f \in Files |->
          IF mem[f] = Closed \/ (f = "passwd" /\ ~usr) THEN mem[f]
          ELSE CASE f = "passwd"  -> Put(Drop(mem[f], n), name, UsermodEntry(job, mem[f][n]))
                 [] f = "shadow"  -> IF n \in mem[f] THEN (mem[f] \ {n}) \cup {name} ELSE mem[f]
                 [] f = "group"   -> [g \in DOMAIN mem[f] |->
                                        [mem[f][g] EXCEPT !.members = UsermodMembers(job, g, @)]]
                 [] f = "gshadow" -> [g \in DOMAIN mem[f] |-> UsermodMembers(job, g, mem[f][g])]] :
       n \in {m \in {job.name} :
                /\ usr => m \in DOMAIN mem["passwd"]
                /\ name # m => /\ name \notin DOMAIN mem["passwd"]
                               /\ ~({m, name} \subseteq mem["shadow"])}}

\* update_groups empties the member lists first; remove_usergroup looks at
\* the gid noted before the lock, and at the passwd file, not at the copy.
UserdelEdit(job, mem) ==
  LET group   == [g \in DOMAIN mem["group"] |->
                    [mem["group"][g] EXCEPT !.members = @ \ {job.name}]]
      remove  == /\ job.name \in DOMAIN group
                 /\ group[job.name] = [gid |-> job.gid, members |-> {}]
                 /\ \/ "f" \in job.flags
                    \/ PrimaryOf(job.gid, disk["passwd"]) \subseteq {job.name}
      gshadow == IF remove THEN Drop(mem["gshadow"], job.name) ELSE mem["gshadow"]
  IN  {[f \in Files |->
          CASE f = "passwd"  -> Drop(mem["passwd"], n)
            [] f = "shadow"  -> mem["shadow"] \ {n}
            [] f = "group"   -> IF remove THEN Drop(group, n) ELSE group
            [] f = "gshadow" -> [g \in DOMAIN gshadow |-> gshadow[g] \ {n}]] :
       n \in {job.name} \cap DOMAIN mem["passwd"]}

GroupaddEdit(job, mem) ==
  LET gid   == IF job.gid # 0 THEN job.gid ELSE FindNewGid(mem["group"], job)
      users == IF job.users = Unset THEN {} ELSE job.users
  IN  {[mem EXCEPT !["group"]   = Put(@, job.name, [gid |-> i, members |-> users]),
                   !["gshadow"] = Put(@, job.name, users)] :
       i \in {g \in {gid} \ {0} : users \subseteq DOMAIN disk["passwd"]}}

GroupdelEdit(job, mem) ==
  {[mem EXCEPT !["group"] = Drop(@, n), !["gshadow"] = Drop(@, n)] :
     n \in {job.name} \cap DOMAIN mem["group"]}

GroupmodEdit(job, mem) ==
  LET old   == mem["group"][job.name]
      name  == IF job.newName = Unset THEN job.name ELSE job.newName
      users(had) == IF job.users = Unset THEN had
                    ELSE (IF "a" \in job.flags THEN had ELSE {}) \cup job.users
      renamed(table, entry) ==
        Put(IF name = job.name THEN table ELSE Drop(table, job.name), name, entry)
      moved == IF job.gid = 0 THEN {} ELSE PrimaryOf(old.gid, disk["passwd"])
  IN  {[f \in Files |->
          CASE f = "group" -> renamed(mem["group"],
                                [gid |-> IF job.gid = 0 THEN old.gid ELSE job.gid,
                                 members |-> users(old.members)])
            [] f = "gshadow" /\ mem[f] # Closed -> IF job.name \in DOMAIN mem[f]
                                THEN renamed(mem[f], users(mem[f][job.name])) ELSE mem[f]
            [] f = "passwd" /\ mem[f] # Closed -> [u \in DOMAIN mem[f] |->
                                IF u \in moved THEN [mem[f][u] EXCEPT !.gid = job.gid]
                                ELSE mem[f][u]]
            [] OTHER -> mem[f]] :
       n \in {m \in {job.name} \cap DOMAIN mem["group"] :
                /\ job.users # Unset => job.users \subseteq DOMAIN disk["passwd"]
                /\ job.gid # 0 => moved \subseteq DOMAIN mem["passwd"]}}

\* get_user_id of newusers; a number is not looked for in passwd.
LineUid(line, passwd, job) ==
  CASE line.uid # 0 -> line.uid
    [] line.uid = 0 /\ line.uidOf # Unset ->
         IF line.uidOf \in DOMAIN passwd THEN passwd[line.uidOf].uid ELSE 0
    [] OTHER -> FindNewUid(passwd, job)

\* add_group of newusers: the user's gid, and the copies with the group, an
\* existing one or one made now, whose name gshadow must not hold.
AddGroup(line, uid, mem, job) ==
  LET group == mem["group"]
      name  == IF line.group = Unset THEN line.name ELSE line.group
      gid   == CASE line.group \in DOMAIN group -> group[line.group].gid
                 [] line.gid # 0 -> line.gid
                 [] OTHER -> FindNewUserGid(group, uid, job)
      found == line.group \in DOMAIN group \/ line.gid \in Gids(group)
  IN  {[gid |-> i,
        mem |-> IF found THEN mem
                ELSE [mem EXCEPT !["group"]   = Put(@, name, [gid |-> i, members |-> {}]),
                                 !["gshadow"] = Put(@, name, {})]] :
       i \in {g \in {gid} \ {0} : found \/ name \notin DOMAIN mem["gshadow"]}}

\* add_passwd of newusers: an entry for who has none.
WithPassword(shadow, name) == shadow \cup {name}

\* A line makes a user with its group, or gives one that is there a password.
AddLine(line, mem, job) ==
  LET uid   == LineUid(line, mem["passwd"], job)
      known == line.name \in DOMAIN mem["passwd"]
      made  == IF uid = 0 THEN {} ELSE AddGroup(line, uid, mem, job)
  IN  {[m EXCEPT !["shadow"] = WithPassword(@, line.name)] :
         m \in IF known THEN {mem}
               ELSE {[new.mem EXCEPT !["passwd"] =
                        Put(@, line.name, [uid |-> uid, gid |-> new.gid])] : new \in made}}

\* The uid that a line takes from another user.
CopiedUid(line, passwd) ==
  {passwd[n].uid : n \in {m \in {line.uidOf} \cap DOMAIN passwd :
                            line.uid = 0 /\ line.name \notin DOMAIN passwd}}

EditsOf(job, mem) ==
  CASE job.tool = "useradd"  -> UseraddEdit(job, mem)
    [] job.tool = "usermod"  -> UsermodEdit(job, mem)
    [] job.tool = "userdel"  -> UserdelEdit(job, mem)
    [] job.tool = "groupadd" -> GroupaddEdit(job, mem)
    [] job.tool = "groupdel" -> GroupdelEdit(job, mem)
    [] job.tool = "newusers" -> {mem}
    [] OTHER -> GroupmodEdit(job, mem)

\* A file that is not open refuses an update.
Edited(job, mem) ==
  {new \in EditsOf(job, mem) : \A f \in Files : mem[f] = Closed => new[f] = Closed}

(***************************************************************************)
(* The steps of a process.                                                 *)
(***************************************************************************)
Doing(p, do) == work[p].script # <<>> /\ Head(work[p].script).do = do

Now(p) == Head(work[p].script).file

\* A line of the input of newusers that is still to be read.
HasLine(job) == job.tool = "newusers" /\ job.lines # <<>>

LineRead(job) == [job EXCEPT !.lines = Tail(@)]

\* work[p] becomes w, or the process has ended.
Becomes(p, w) == work' = [work EXCEPT ![p] = IF w.script = <<>> THEN Idle ELSE w]

Proceed(p, w) == Becomes(p, [w EXCEPT !.script = Tail(@)])

\* Variant: gshadow is forgotten.
UnlockOrderShort(job) ==
  CASE job.tool = "useradd"  -> <<"shadow", "passwd", "group">>
    [] job.tool = "userdel"  -> <<"passwd", "group", "shadow">>
    [] job.tool = "groupmod" -> <<"passwd", "group">>
    [] OTHER -> <<"group">>

\* fail_exit of each tool, or the clean-up functions of exit: unlock what is
\* locked.
UnlockOrder(job) ==
  CASE job.tool = "useradd"  -> <<"shadow", "passwd">> \o GroupFiles
    [] job.tool = "usermod"  -> Reverse(<<"passwd", "shadow">> \o GroupFiles)
    [] job.tool = "userdel"  -> <<"passwd", "group", "shadow", "gshadow">>
    [] job.tool = "groupmod" -> <<"passwd">> \o Reverse(GroupFiles)
    [] job.tool = "newusers" -> <<"shadow", "passwd">> \o GroupFiles
    [] OTHER -> Reverse(GroupFiles)

FailExit(p) ==
  Becomes(p, [work[p] EXCEPT !.script = UnlockHeld(UnlockOrder(work[p].job), owner, p)])

\* The process stops here: some of its files are written and some are not.
Tears(p) == /\ work[p].written # {}
            /\ \E i \in DOMAIN work[p].script : work[p].script[i].do = "close"

\* The groups of -g, and of -G of usermod, are looked up as the options are
\* read.
Start(p) ==
  /\ work[p] = Idle
  /\ started < MaxJobs
  /\ started' = started + 1
  /\ \E job \in Jobs :
       /\ job.tool \in {"useradd", "usermod"} /\ job.gid # 0 => job.gid \in Gids(disk["group"])
       /\ job.tool = "usermod" => job.groups \subseteq DOMAIN disk["group"]
       /\ Becomes(p, [Idle EXCEPT !.job = job, !.script = Prelude(job)])
  /\ UNCHANGED <<disk, owner, torn, copied>>

\* get_groups of useradd -G: the groups must be in the file, which is then
\* unlocked, and useradd ends if one is not.
Lookup(p) ==
  /\ Doing(p, "lookup")
  /\ IF work[p].job.groups \subseteq DOMAIN work[p].mem["group"]
     THEN Proceed(p, work[p])
     ELSE Becomes(p, [work[p] EXCEPT !.script = Each("unlock", GroupFiles)])
  /\ UNCHANGED <<disk, owner, started, torn, copied>>

Check(p) ==
  /\ Doing(p, "check")
  /\ IF Checked(work[p].job) = {} THEN Becomes(p, Idle)
     ELSE \E job \in Checked(work[p].job) :
            Becomes(p, [work[p] EXCEPT !.job = job, !.script = Script(job)])
  /\ UNCHANGED <<disk, owner, started, torn, copied>>

\* Variant: the lock of another tool is taken for a stale one.
LockAnyway(p) ==
  /\ Doing(p, "lock")
  /\ owner' = [owner EXCEPT ![Now(p)] = p]
  /\ Proceed(p, work[p])
  /\ UNCHANGED <<disk, started, torn, copied>>

Lock(p) ==
  /\ Doing(p, "lock")
  /\ owner[Now(p)] = None
  /\ owner' = [owner EXCEPT ![Now(p)] = p]
  /\ Proceed(p, work[p])
  /\ UNCHANGED <<disk, started, torn, copied>>

\* For writing, which a process that has not the lock is refused.
Open(p) ==
  /\ Doing(p, "open")
  /\ owner[Now(p)] = p
  /\ Proceed(p, [work[p] EXCEPT !.mem[Now(p)] = disk[Now(p)],
                               !.base[Now(p)] = disk[Now(p)]])
  /\ UNCHANGED <<disk, owner, started, torn, copied>>

\* Variant: a uid asked for is taken without a look at passwd.
PickUnchecked(p) ==
  /\ Doing(p, "pick")
  /\ LET w     == work[p]
         found == IF w.job.uid = 0 THEN FindNewUid(w.mem["passwd"], w.job) ELSE w.job.uid
     IN  IF found = 0 THEN FailExit(p) ELSE Proceed(p, [w EXCEPT !.job.uid = found])
  /\ UNCHANGED <<disk, owner, started, torn, copied>>

\* The uid of a new user: one nobody has, or the one asked for, which must
\* be free unless -o.
Pick(p) ==
  /\ Doing(p, "pick")
  /\ LET w     == work[p]
         found == IF w.job.uid = 0 THEN FindNewUid(w.mem["passwd"], w.job)
                  ELSE IF "o" \in w.job.flags \/ w.job.uid \notin Uids(disk["passwd"])
                       THEN w.job.uid ELSE 0
     IN  IF found = 0 THEN FailExit(p) ELSE Proceed(p, [w EXCEPT !.job.uid = found])
  /\ UNCHANGED <<disk, owner, started, torn, copied>>

\* The next line of the input, with the four files open: newusers has read all
\* lines before it writes a file, and one that fails leaves the four as they
\* were.
EditLine(p) ==
  /\ Doing(p, "edit")
  /\ HasLine(work[p].job)
  /\ LET w      == work[p]
         line   == Head(w.job.lines)
         edited == {mem \in AddLine(line, w.mem, w.job) : \A f \in Files : w.mem[f] # Closed}
     IN  IF edited = {} THEN FailExit(p) /\ UNCHANGED copied
         ELSE /\ \E mem \in edited : Becomes(p, [w EXCEPT !.mem = mem, !.job = LineRead(@)])
              /\ copied' = copied \cup CopiedUid(line, w.mem["passwd"])
  /\ UNCHANGED <<disk, owner, started, torn>>

Edit(p) ==
  /\ Doing(p, "edit")
  /\ ~HasLine(work[p].job)
  /\ LET edited == Edited(work[p].job, work[p].mem)
     IN  IF edited = {} THEN FailExit(p)
         ELSE \E mem \in edited : Proceed(p, [work[p] EXCEPT !.mem = mem])
  /\ UNCHANGED <<disk, owner, started, torn, copied>>

Close(p) ==
  /\ Doing(p, "close")
  /\ work[p].mem[Now(p)] # Closed
  /\ disk' = [disk EXCEPT ![Now(p)] = work[p].mem[Now(p)]]
  /\ Proceed(p, [work[p] EXCEPT !.mem[Now(p)] = Closed, !.written = @ \cup {Now(p)}])
  /\ UNCHANGED <<owner, started, torn, copied>>

\* commonio_unlock closes a file that is still open, without writing it.
Unlock(p) ==
  /\ Doing(p, "unlock")
  /\ owner' = [owner EXCEPT ![Now(p)] = IF @ = p THEN None ELSE @]
  /\ Proceed(p, [work[p] EXCEPT !.mem[Now(p)] = Closed])
  /\ UNCHANGED <<disk, started, torn, copied>>

\* Variant: a lock is waited for as long as it takes.
CallFailsNotLock(p) ==
  /\ Doing(p, "open") \/ Doing(p, "close")
  /\ FailExit(p)
  /\ torn' = (torn \/ Tears(p))
  /\ UNCHANGED <<disk, owner, started, copied>>

\* A lock is not given in time, or a file can not be opened or written.
CallFails(p) ==
  /\ \E do \in {"lock", "open", "close"} : Doing(p, do)
  /\ FailExit(p)
  /\ torn' = (torn \/ Tears(p))
  /\ UNCHANGED <<disk, owner, started, copied>>

Step(p) == \/ Lookup(p) \/ Check(p) \/ Lock(p) \/ Open(p) \/ Pick(p)
           \/ EditLine(p) \/ Edit(p) \/ Close(p) \/ Unlock(p) \/ CallFails(p)

\* The process dies, and its locks are as good as free.
Killed(p) ==
  /\ work[p] # Idle
  /\ work' = [work EXCEPT ![p] = Idle]
  /\ owner' = [f \in Files |-> IF owner[f] = p THEN None ELSE owner[f]]
  /\ torn' = (torn \/ Tears(p))
  /\ UNCHANGED <<disk, started, copied>>

\* update_groups of userdel, when an entry that names the user can not be
\* copied or updated: it leaves by exit, with neither fail_exit nor a clean-up
\* function, and its lock files stay as those of a process that has died.
UserdelQuits(p) ==
  /\ Doing(p, "edit") /\ work[p].job.tool = "userdel"
  /\ LET name == work[p].job.name
         mem  == work[p].mem
     IN  /\ name \in DOMAIN mem["passwd"]
         /\ \/ \E g \in DOMAIN mem["group"] : name \in mem["group"][g].members
            \/ \E g \in DOMAIN mem["gshadow"] : name \in mem["gshadow"][g]
  /\ Killed(p)

Next == \E p \in Procs : Start(p) \/ Step(p) \/ UserdelQuits(p) \/ Killed(p)

Init ==
  /\ disk = [f \in Files |->
               CASE f = "passwd"  -> Passwd0
                 [] f = "shadow"  -> DOMAIN Passwd0
                 [] f = "group"   -> Group0
                 [] f = "gshadow" -> [g \in DOMAIN Group0 |-> Group0[g].members]]
  /\ owner = [f \in Files |-> None]
  /\ work = [p \in Procs |-> Idle]
  /\ started = 0
  /\ torn = FALSE
  /\ copied = {}

Spec == Init /\ [][Next]_vars

\* A tool waits for nothing but a lock, and for a lock only so long.
Fairness == \A p \in Procs : WF_vars(Step(p))

FairSpec == Spec /\ Fairness

(***************************************************************************)
(* Properties.                                                             *)
(***************************************************************************)
\* Every file holds a table of its own kind whatever the tools do to it at
\* the same time, and so does every open copy (commonio_open,
\* commonio_close and the updates of the seven tools).
TypeOK ==
  /\ \A f \in Files : Contents(f, disk[f]) /\ owner[f] \in Procs \cup {None}
  /\ DOMAIN disk = Files /\ DOMAIN owner = Files
  /\ \A p \in Procs : work[p] # Idle =>
       /\ work[p].job \in Job
       /\ \A i \in DOMAIN work[p].script : work[p].script[i] \in Calls
       /\ \A f \in Files : work[p].mem[f] # Closed => Contents(f, work[p].mem[f])
       /\ work[p].written \subseteq Files
  /\ started \in 0 .. MaxJobs /\ torn \in BOOLEAN /\ copied \subseteq Ids

\* No update of another tool is lost: from opening a file to writing it, a
\* tool has the lock and the file is still the one that it has read (the
\* order of lock, open, close and unlock in open_files and close_files, and
\* the db->locked test of commonio_open).
NoLostUpdate ==
  \A p \in Procs, f \in Files :
    work[p].mem[f] # Closed => owner[f] = p /\ disk[f] = work[p].base[f]

\* group and gshadow name the same groups with the same members, and passwd
\* and shadow the same users, whenever nobody is at work on the two, although
\* they are written one after the other, the tools lock them in different
\* phases and a race of the unlocked checks may overwrite or remove a group
\* that another tool has just made.  A tool that was stopped half way is the
\* exception, which grpck and pwck repair (grp_update of the group tools,
\* grp_update, grp_add and usr_update of useradd, grp_update and usr_update
\* of usermod, update_user and update_groups of userdel, add_group and
\* close_files of newusers).
FilesAgree ==
  ~torn =>
    /\ owner["group"] = None /\ owner["gshadow"] = None =>
         disk["gshadow"] = [g \in DOMAIN disk["group"] |-> disk["group"][g].members]
    /\ owner["passwd"] = None /\ owner["shadow"] = None =>
         disk["shadow"] = DOMAIN disk["passwd"]

\* The uids that two users may share: those that two users had at first, those
\* asked for with -o, those given to usermod, which looks for them before it
\* has the lock, and the numbers that newusers reads, which it does not look
\* for.
Lines == UNION {Range(job.lines) : job \in Jobs}
SharedUids ==
  {Passwd0[n].uid : n \in {m \in DOMAIN Passwd0 : \E k \in DOMAIN Passwd0 \ {m} :
                                                   Passwd0[k].uid = Passwd0[m].uid}}
  \cup {job.uid : job \in {j \in Jobs : "o" \in j.flags \/ j.tool = "usermod"}}
  \cup {line.uid : line \in Lines}

\* Two users never have the same uid, whether find_new_uid chose it, for
\* useradd or for a line of newusers that comes after others, or useradd was
\* given it with -u: unlike the checks of names and gids, and
\* unlike that of usermod, this one is made with passwd locked (main of
\* useradd, get_user_id of newusers).  A line of newusers may ask for the uid of
\* a user that is there, and that uid is shared from then on.
UidsUnique ==
  \A m, n \in DOMAIN disk["passwd"] :
    disk["passwd"][m].uid = disk["passwd"][n].uid =>
      m = n \/ disk["passwd"][m].uid \in SharedUids \cup copied

\* A tool that has ended by itself, well or not, has unlocked what it had
\* locked: the paths of fail_exit and of the clean-up functions unlock all that
\* was locked so far (fail_exit of useradd, usermod and userdel,
\* cleanup_unlock_* of the others).  The exception is update_groups of userdel,
\* which exits with the four files locked when an entry can not be updated: what
\* UserdelQuits leaves counts here, like the locks of a process that was killed,
\* as free, since the next tool breaks it.
NothingHeldAtExit ==
  \A p \in Procs : work[p] = Idle => \A f \in Files : owner[f] # p

\* Every tool ends.  groupmod locks group and then passwd, useradd passwd
\* and then group, userdel shadow before group and useradd after it: they
\* may wait for each other, and end because a lock is not waited for
\* forever (commonio_lock fails and open_files exits).
ToolEnds == \A p \in Procs : work[p] # Idle ~> work[p] = Idle
=============================================================================
