------------------------------- MODULE SubIds -------------------------------
(***************************************************************************)
(* The file of subordinate identifiers and passwd, changed by useradd,     *)
(* newusers, userdel, usermod and by programs that use libsubid            *)
(* (subid_grant_uid_range and subid_ungrant_uid_range), and read by        *)
(* newuidmap, which takes no lock.                                         *)
(***************************************************************************)
EXTENDS SubordinateIo

CONSTANTS
  Procs,
  Jobs,       \* the command lines and calls
  MaxJobs,    \* bound: how many are started
  Configs,    \* settings of login.defs
  Passwd0, SubStarts,
  None, Closed, Absent, Unset

Files == {"passwd", "sub"}

Tools == {"useradd", "newusers", "userdel", "usermod", "grant", "ungrant", "newuidmap", "newgidmap"}

\* Who may be in passwd, and who may have ranges.
UserNames  == UNION {DOMAIN Passwd0, {job.name : job \in Jobs}, {job.newName : job \in Jobs}}
OwnerNames == UNION {UserNames, DOMAIN NumberOf,
                 {r.owner : r \in UNION {Range(db) : db \in SubStarts \ {Absent}}}}

SubRange == [owner : OwnerNames, start : Nat, count : Nat]
Stretch  == [start : Nat, count : Nat]

\* The name of a user is never a number (is_valid_name).
ASSUME SubIdsAssumption ==
  /\ \A id \in {MaxId, UidMin, UidMax, SubIdMin, SubIdMax, SubIdCount} : id \in Nat
  /\ None \notin Procs
  /\ NumberOf \in [DOMAIN NumberOf -> Nat]
  /\ Passwd0 \in [DOMAIN Passwd0 -> Nat] /\ DOMAIN Passwd0 \cap DOMAIN NumberOf = {}
  /\ \A job \in Jobs :
       /\ job.tool \in Tools /\ {job.uid, job.start, job.count} \subseteq Nat
       /\ job.add \in Seq(Stretch) /\ job.del \in Seq(Stretch)
       /\ job.tool \in {"useradd", "newusers"} => job.name \notin DOMAIN NumberOf
       /\ job.tool = "usermod" => job.newName \notin DOMAIN NumberOf
  /\ SubStarts \subseteq {Absent} \cup Seq(SubRange)
  /\ Absent \notin Seq(SubRange) /\ Closed \notin Seq(SubRange)
  /\ \A D \in SUBSET UserNames : Closed \notin [D -> Nat]

VARIABLES
  passwd, sub,   \* the files
  config,
  owner,         \* who has the lock of each file
  work,          \* what each process is doing
  started,       \* bound: jobs started so far
  setgroups,     \* whether the process that a map is for may change its groups
  manual         \* history: identifiers that were shared when all began, or asked for

vars == <<passwd, sub, config, owner, work, started, setgroups, manual>>

\* uid: that of the user, as usermod has read it before it locks a file; allow:
\* what newgidmap has decided of the groups of the process.
Idle == [job |-> None, script |-> <<>>, kept |-> FALSE, uid |-> 0, allow |-> FALSE,
         mem |-> [passwd |-> Closed, sub |-> Closed]]

(***************************************************************************)
(* The scripts.                                                            *)
(***************************************************************************)
Test  == <<Call("test", "sub")>>
Check == <<Call("check", None)>>
Edit  == <<Call("edit", None)>>

\* The subordinate file is looked for when the uid is known.
UseraddScript ==
  Check \o LockAndOpen(<<"passwd">>) \o Test \o LockAndOpen(<<"sub">>) \o Edit
    \o Each("close", <<"passwd", "sub">>) \o Each("unlock", <<"passwd", "sub">>)

NewusersScript ==
  Test \o Each("lock", <<"passwd", "sub">>) \o Each("open", <<"passwd", "sub">>) \o Edit
    \o CloseAndUnlock(<<"passwd", "sub">>)

UserdelScript ==
  Test \o LockAndOpen(<<"passwd", "sub">>) \o Edit \o CloseAndUnlock(<<"passwd", "sub">>)

\* The subordinate file is only for -v, -V and -S.
AsksForRanges(job) == job.add # <<>> \/ job.del # <<>> \/ "S" \in job.flags

UsermodScript(job) ==
  IF AsksForRanges(job)
  THEN Test \o Check \o LockAndOpen(<<"passwd", "sub">>) \o Edit
         \o CloseAndUnlock(<<"sub", "passwd">>)
  ELSE Check \o LockAndOpen(<<"passwd">>) \o Edit \o CloseAndUnlock(<<"passwd">>)

LibraryScript == LockAndOpen(<<"sub">>) \o Edit \o CloseAndUnlock(<<"sub">>)

\* newuidmap has no groups to think of.
UidMapScript == <<Call("check", None), Call("read", "sub"), Call("verify", None), Call("map", None)>>
GidMapScript ==
  <<Call("check", None), Call("read", "sub"), Call("verify", None), Call("setgroups", None),
    Call("map", None)>>

Script(job) ==
  CASE job.tool = "useradd"  -> UseraddScript
    [] job.tool = "newusers" -> NewusersScript
    [] job.tool = "userdel"  -> UserdelScript
    [] job.tool = "usermod"  -> UsermodScript(job)
    [] job.tool \in {"grant", "ungrant"} -> LibraryScript
    [] job.tool = "newuidmap" -> UidMapScript
    [] job.tool = "newgidmap" -> GidMapScript

(***************************************************************************)
(* The edits: what a tool may leave in its copies, none when it gives up.  *)
(***************************************************************************)
\* should_assign_subuid
ShouldAssign(job) ==
  "F" \in job.flags \/ ("r" \notin job.flags /\ job.uid \in UidMin .. UidMax)

Assigned(mem, name, uid) ==
  IF mem.sub = Closed THEN {Closed}
  ELSE UNION {IF RangeExists(passwd, mem.sub, name) THEN {AfterFind(config, mem.sub)}
              ELSE SubIdAdd(config, passwd, AfterFind(config, mem.sub), name, start, SubIdCount) :
                start \in FindNewSubIds(config, mem.sub, uid)}

\* useradd searches first and then looks whether it is needed.  An entry of that
\* name, made since the check, is replaced.
UseraddEdit(job, mem) ==
  IF job.uid \in Range(mem.passwd) THEN {}
  ELSE {[passwd |-> Put(mem.passwd, job.name, job.uid), sub |-> s] :
          s \in Assigned(mem, job.name, job.uid)}

\* newusers, for a user that may be there already.
NewusersEdit(job, mem) ==
  LET uid == IF job.name \in DOMAIN mem.passwd THEN mem.passwd[job.name] ELSE job.uid
  IN  {[passwd |-> Put(mem.passwd, job.name, uid), sub |-> s] :
         s \in IF mem.sub # Closed /\ RangeExists(passwd, mem.sub, job.name) THEN {mem.sub}
               ELSE Assigned(mem, job.name, uid)}

UserdelEdit(job, mem) ==
  {[passwd |-> Drop(mem.passwd, n),
    sub |-> IF mem.sub = Closed THEN Closed ELSE RemoveRange(passwd, mem.sub, n, 0, MaxId + 2)] :
     n \in {job.name} \cap DOMAIN mem.passwd}

\* find_range of usermod -S: the last identifier is one too many.
FoundForUsermod(job, db, uid) ==
  IF "S" \notin job.flags THEN {<<>>}
  ELSE {<<[start |-> s, count |-> SubIdCount + 1]>> : s \in FindNewSubIds(config, db, uid)}

UsermodSub(job, db, found) ==
  LET searched == IF "S" \in job.flags THEN AfterFind(config, db) ELSE db
      removed[i \in 0 .. Len(job.del)] ==
        IF i = 0 THEN searched
        ELSE RemoveRange(passwd, removed[i - 1], job.name, job.del[i].start, job.del[i].count)
      ranges == found \o job.add
      added[i \in 0 .. Len(ranges)] ==
        IF i = 0 THEN {removed[Len(job.del)]}
        ELSE UNION {SubIdAdd(config, passwd, d, job.name, ranges[i].start, ranges[i].count) :
                      d \in added[i - 1]}
  IN  added[Len(ranges)]

\* usr_update, for a new name only, and then the ranges, which go to the old
\* name, whether it is still in passwd or not.
UsermodEdit(job, mem, uid) ==
  LET renames == job.newName # Unset
      users == IF renames THEN Put(Drop(mem.passwd, job.name), job.newName, mem.passwd[job.name])
               ELSE mem.passwd
      subs  == IF mem.sub = Closed THEN {Closed}
               ELSE UNION {UsermodSub(job, mem.sub, found) : found \in FoundForUsermod(job, mem.sub, uid)}
  IN  IF renames /\ (job.name \notin DOMAIN mem.passwd \/ job.newName \in DOMAIN mem.passwd) THEN {}
      ELSE {[passwd |-> users, sub |-> t] : t \in subs}

\* new_subid_range, which starts to search where the caller says.
Reused(job, db) ==
  FirstAt(db, {i \in DOMAIN db : /\ "reuse" \in job.flags /\ db[i].count >= job.count
                                 /\ IsSameUser(passwd, db[i].owner, job.name)})

GrantEdit(job, mem) ==
  {[mem EXCEPT !.sub = AddRange(passwd, Sorted(@), job.name, start, job.count)] :
     start \in FindFreeRange(mem.sub, job.start, MaxId, job.count)}

\* release_subid_range
UngrantEdit(job, mem) ==
  {[mem EXCEPT !.sub = RemoveRange(passwd, @, job.name, job.start, job.count)]}

EditsOf(job, mem, uid) ==
  CASE job.tool = "useradd"  -> UseraddEdit(job, mem)
    [] job.tool = "newusers" -> NewusersEdit(job, mem)
    [] job.tool = "userdel"  -> UserdelEdit(job, mem)
    [] job.tool = "usermod"  -> UsermodEdit(job, mem, uid)
    [] job.tool = "grant"    -> GrantEdit(job, mem)
    [] job.tool = "ungrant"  -> UngrantEdit(job, mem)

\* The identifiers of a name.
IdsNamed(db, name) == UNION {IdsOf(r) : r \in {s \in Range(db) : s.owner = name}}

\* The identifiers that are of two names.
SharedIds(db) ==
  LET names == {r.owner : r \in Range(db)}
  IN  UNION {UNION {IdsNamed(db, m) \cap IdsNamed(db, n) : n \in names \ {m}} : m \in names}

\* Identifiers that somebody asked for by number, and those of usermod -S.
ByHand(job, before, after) ==
  IF job.tool = "usermod" /\ before # Closed
  THEN UNION {IdsNamed(after, n) \ IdsNamed(before, n) : n \in {r.owner : r \in Range(after)}}
  ELSE {}

(***************************************************************************)
(* The steps of a process.                                                 *)
(***************************************************************************)
Doing(p, do) == work[p].script # <<>> /\ Head(work[p].script).do = do
Now(p) == Head(work[p].script).file

Becomes(p, w) == work' = [work EXCEPT ![p] = IF w.script = <<>> /\ ~w.kept THEN Idle ELSE w]
Proceed(p, w) == Becomes(p, [w EXCEPT !.script = Tail(@)])

FailExit(p) ==
  Becomes(p, [work[p] EXCEPT !.script = UnlockHeld(<<"sub", "passwd">>, owner, p)])

\* What there is to read: a file that is not there is empty.
Content(f) == IF f = "passwd" THEN passwd ELSE IF sub = Absent THEN <<>> ELSE sub

Start(p) ==
  /\ work[p] = Idle
  /\ started < MaxJobs
  /\ started' = started + 1
  /\ \E job \in Jobs : Becomes(p, [Idle EXCEPT !.job = job, !.script = Script(job)])
  /\ UNCHANGED <<passwd, sub, config, owner, manual>>
  /\ setgroups' = [setgroups EXCEPT ![p] = "allow"]

\* What is looked up in passwd before a file is locked or opened: useradd wants
\* a new name, usermod a user, whose uid it keeps, and another new name (Unset
\* is nobody's); newuidmap and newgidmap who has called them.
CheckUser(p) ==
  /\ Doing(p, "check")
  /\ LET job   == work[p].job
         known == job.name \in DOMAIN passwd
         fine  == CASE job.tool = "useradd"   -> ~known
                    [] job.tool = "usermod"   -> known /\ job.newName \notin DOMAIN passwd
                    [] job.tool = "newuidmap" -> known /\ passwd[job.name] = job.uid
                    [] OTHER -> known
     IN  IF ~fine THEN Becomes(p, Idle)
         ELSE Proceed(p, [work[p] EXCEPT !.uid = IF job.tool = "usermod" THEN passwd[job.name] ELSE @])
  /\ UNCHANGED <<passwd, sub, config, owner, started, manual, setgroups>>

\* Without the file the tools go on without it, except for usermod, which
\* was asked to change it.
TestFile(p) ==
  /\ Doing(p, "test")
  /\ LET w == work[p]
         wanted == sub # Absent /\ (w.job.tool = "useradd" => ShouldAssign(w.job))
     IN  IF wanted THEN Proceed(p, w)
         ELSE IF w.job.tool = "usermod" THEN Becomes(p, Idle)
         ELSE Becomes(p, [w EXCEPT !.script = Without(Tail(@), "sub")])
  /\ UNCHANGED <<passwd, sub, config, owner, started, manual, setgroups>>

LockFile(p) ==
  /\ Doing(p, "lock")
  /\ owner[Now(p)] = None
  /\ owner' = [owner EXCEPT ![Now(p)] = p]
  /\ Proceed(p, work[p])
  /\ UNCHANGED <<passwd, sub, config, started, manual, setgroups>>

\* commonio_open wants the lock of a file that is to be written.
OpenFile(p) ==
  /\ Doing(p, "read") \/ (Doing(p, "open") /\ owner[Now(p)] = p)
  /\ Proceed(p, [work[p] EXCEPT !.mem[Now(p)] = Content(Now(p))])
  /\ UNCHANGED <<passwd, sub, config, owner, started, manual, setgroups>>

\* new_subid_range returns in the middle when a range can be reused.
ReuseRange(p) ==
  /\ Doing(p, "edit") /\ work[p].job.tool = "grant"
  /\ Reused(work[p].job, work[p].mem.sub) # {}
  /\ Becomes(p, [work[p] EXCEPT !.script = <<>>, !.kept = TRUE])
  /\ UNCHANGED <<passwd, sub, config, owner, started, manual, setgroups>>

EditFiles(p) ==
  /\ Doing(p, "edit")
  /\ LET w == work[p]
         edited == EditsOf(w.job, w.mem, w.uid)
     IN  /\ w.job.tool = "grant" => Reused(w.job, w.mem.sub) = {}
         /\ IF edited = {} THEN FailExit(p) /\ UNCHANGED manual
            ELSE \E mem \in edited : /\ Proceed(p, [w EXCEPT !.mem = mem])
                                     /\ manual' = manual \cup ByHand(w.job, w.mem.sub, mem.sub)
  /\ UNCHANGED <<passwd, sub, config, owner, started, setgroups>>

CloseFile(p) ==
  /\ Doing(p, "close") /\ work[p].mem[Now(p)] # Closed
  /\ LET new == work[p].mem[Now(p)]
     IN  IF Now(p) = "passwd" THEN passwd' = new /\ UNCHANGED sub
         ELSE sub' = (IF sub = Absent /\ new = <<>> THEN Absent ELSE new) /\ UNCHANGED passwd
  /\ Proceed(p, [work[p] EXCEPT !.mem[Now(p)] = Closed])
  /\ UNCHANGED <<config, owner, started, manual, setgroups>>

UnlockFile(p) ==
  /\ Doing(p, "unlock")
  /\ owner' = [owner EXCEPT ![Now(p)] = IF @ = p THEN None ELSE @]
  /\ Proceed(p, [work[p] EXCEPT !.mem[Now(p)] = Closed])
  /\ UNCHANGED <<passwd, sub, config, started, manual, setgroups>>

\* newuidmap and newgidmap: every range of the map is allowed, or none of it
\* is written.  newgidmap notes here whether groups may be changed.
VerifyMap(p) ==
  /\ Doing(p, "verify")
  /\ LET w == work[p]
         job == w.job
         allowed == /\ MapRangesParse(job.add)
                    /\ VerifyRanges(passwd, w.mem.sub, job.name, job.uid, job.add)
     IN  IF ~allowed THEN Becomes(p, Idle)
         ELSE Proceed(p, [w EXCEPT !.allow = AllowSetgroups(passwd, w.mem.sub, job.name, job.add)])
  /\ UNCHANGED <<passwd, sub, config, owner, started, manual, setgroups>>

\* Variant: the ranges are looked at again, when somebody may have been given some.
WriteSetgroupsAgain(p) ==
  /\ Doing(p, "setgroups")
  /\ LET allow == AllowSetgroups(passwd, Content("sub"), work[p].job.name, work[p].job.add)
     IN  setgroups' = [setgroups EXCEPT ![p] = IF allow THEN @ ELSE "deny"]
  /\ Proceed(p, work[p])
  /\ UNCHANGED <<passwd, sub, config, owner, started, manual>>

\* What was decided with the ranges is what counts, whoever has them by now.
WriteSetgroups(p) ==
  /\ Doing(p, "setgroups")
  /\ setgroups' = [setgroups EXCEPT ![p] = IF work[p].allow THEN @ ELSE "deny"]
  /\ Proceed(p, work[p])
  /\ UNCHANGED <<passwd, sub, config, owner, started, manual>>

WriteMapping(p) ==
  /\ Doing(p, "map")
  /\ Becomes(p, Idle)
  /\ UNCHANGED <<passwd, sub, config, owner, started, manual, setgroups>>

\* The next call of a program that kept the file: the lock is its own, the
\* file can not be opened once more, and the lock is given back.
CallAgain(p) ==
  /\ work[p].kept
  /\ work' = [work EXCEPT ![p] = Idle]
  /\ owner' = [owner EXCEPT !["sub"] = None]
  /\ UNCHANGED <<passwd, sub, config, started, manual, setgroups>>

\* new_subid_range and release_subid_range do not look whether the file was
\* written.
CallFails(p) ==
  /\ \E do \in {"lock", "open", "close"} : Doing(p, do)
  /\ IF Doing(p, "close") /\ work[p].job.tool \in {"grant", "ungrant"} THEN Proceed(p, work[p])
     ELSE FailExit(p)
  /\ UNCHANGED <<passwd, sub, config, owner, started, manual, setgroups>>

Step(p) == \/ CheckUser(p) \/ TestFile(p) \/ LockFile(p) \/ OpenFile(p) \/ ReuseRange(p) \/ EditFiles(p)
           \/ CloseFile(p) \/ UnlockFile(p) \/ VerifyMap(p) \/ WriteSetgroups(p) \/ WriteMapping(p)
           \/ CallAgain(p) \/ CallFails(p)

Killed(p) ==
  /\ work[p] # Idle
  /\ work' = [work EXCEPT ![p] = Idle]
  /\ owner' = [f \in Files |-> IF owner[f] = p THEN None ELSE owner[f]]
  /\ UNCHANGED <<passwd, sub, config, started, manual, setgroups>>

Next == \E p \in Procs : Start(p) \/ Step(p) \/ Killed(p)

Init ==
  /\ passwd = Passwd0
  /\ sub \in SubStarts
  /\ config \in Configs
  /\ owner = [f \in Files |-> None]
  /\ work = [p \in Procs |-> Idle]
  /\ started = 0
  /\ setgroups = [p \in Procs |-> "allow"]
  /\ manual = (IF sub = Absent THEN {} ELSE SharedIds(sub))

Spec == Init /\ [][Next]_vars

(***************************************************************************)
(* Properties.                                                             *)
(***************************************************************************)
\* The hole that find_free_range takes is the first window of free
\* identifiers, and it finds none only when there is none: whatever the order
\* of the file, with ranges that overlap, that are adjacent, or that begin
\* before or reach beyond the interval (subordinateio.c, find_free_range).
FirstFreeFound ==
  \A p \in Procs : Doing(p, "edit") /\ work[p].mem.sub # Closed =>
    LET db == work[p].mem.sub
        sorted == Sorted(db)
        used == AllIds(db)
        free(min, max, count) ==
          {s \in min .. max - count + 1 : s .. s + count - 1 \cap used = {}}
        first(starts) == {s \in starts : \A t \in starts : s <= t}
    IN  \A min \in 0 .. MaxId : \A max \in {SubIdMax, MaxId} : \A count \in 1 .. MaxId :
          FirstHole(sorted, min, max, count) = first(free(min, max, count))

\* The owners of an identifier are those users in whose list it is
\* (find_subid_owners, list_owner_ranges); when it is also of a name that is
\* not in passwd, it has no owners.
OwnersAgree ==
  sub # Absent => \A id \in AllIds(sub) :
    LET listed == {u \in DOMAIN passwd :
                     \E r \in Range(ListOwnerRanges(passwd, sub, u)) : id \in IdsOf(r)}
        named == {r.owner : r \in {s \in Range(sub) : id \in IdsOf(s)}} \ DOMAIN NumberOf
        found == FindSubidOwners(passwd, sub, id)
    IN  IF named \subseteq DOMAIN passwd
        THEN \E uids \in found : uids \cap Range(passwd) = {passwd[u] : u \in listed}
        ELSE found = {}

LookupsExact == FirstFreeFound /\ OwnersAgree

\* An edit takes from the user it is for what was asked, and gives what was
\* asked; it changes nothing of anybody else, and takes nothing from a user who
\* is not in passwd.  More is given by a search alone: SUB_UID_COUNT free
\* identifiers, or what the caller of libsubid wants (remove_range, add_range).
EditsExact ==
  [][\A p \in Procs :
       LET w == work[p]
           before == w.mem.sub
           after == work'[p].mem.sub
           name == w.job.name
           of(db, user) == OwnedBy(passwd, db, user)
           span(ranges) == UNION {r.start .. r.start + r.count - 1 : r \in Range(ranges)}
           lost == IF KnownUid(passwd, name) = {} THEN {}
                   ELSE CASE w.job.tool = "userdel" -> 0 .. MaxId + 1
                          [] w.job.tool = "ungrant" -> w.job.start .. w.job.start + w.job.count - 1
                          [] w.job.tool = "usermod" -> span(w.job.del)
                          [] OTHER -> {}
           given == IF w.job.tool = "usermod" THEN span(w.job.add) ELSE {}
           kept == (of(before, name) \ lost) \cup given
           others == {user \in {r.owner : r \in Range(before)} :
                        user # name /\ ~IsSameUser(passwd, user, name)}
           wanted == IF w.job.tool = "grant" THEN w.job.count ELSE SubIdCount
           found == of(after, name) \ kept
           searches == w.job.tool \in {"useradd", "newusers", "grant"}
       IN  Doing(p, "edit") /\ work'[p].script = Tail(w.script) /\ before # Closed =>
             /\ \A user \in others : of(after, user) = of(before, user)
             /\ kept \subseteq of(after, name)
             /\ found # {} => searches \/ (w.job.tool = "usermod" /\ "S" \in w.job.flags)
             /\ searches /\ found # {} /\ ~config.deterministic =>
                  Cardinality(found) = wanted /\ found \cap AllIds(before) = {}]_vars

\* A map is let through exactly when the ranges of it are covered by those of
\* the caller, one or many in whatever order, or are its own identifier.  What
\* newgidmap decides then of the groups is carried to the map, whoever is
\* renamed, deleted or given the ranges in the meantime: one without any
\* subordinate group is written when the process can no longer change its groups
\* (have_range, verify_ranges, write_setgroups).
MapsOwned ==
  [][\A p \in Procs :
       LET w == work[p]
           mine == OwnedBy(passwd, w.mem.sub, w.job.name)
           covered(r) == r.count > 0 /\ IdsOf(r) \subseteq mine
           own(r) == r.count = 1 /\ r.start = w.job.uid
           allowed == \A r \in Range(w.job.add) : covered(r) \/ own(r)
       IN  /\ Doing(p, "verify") =>
                /\ allowed <=> VerifyRanges(passwd, w.mem.sub, w.job.name, w.job.uid, w.job.add)
                /\ work'[p].script = Tail(w.script) =>
                     allowed /\ (work'[p].allow <=> \E r \in Range(w.job.add) : covered(r))
           /\ Doing(p, "map") /\ w.job.tool = "newgidmap" =>
                \/ setgroups[p] = "deny"
                \/ /\ w.allow
                   /\ \E r \in Range(w.job.add) :
                        r.count > 0 /\ IdsOf(r) \subseteq AllIds(w.mem.sub)]_vars

\* Two users, by their number, never have an identifier in common that a search
\* has given, when tools and libraries search at the same time, when one is
\* killed, and when users come and go ("unused user IDs",
\* man/login.defs.d/SUB_UID_COUNT.xml:14).
NobodyShares ==
  sub # Absent /\ ~config.deterministic =>
    \A a, b \in DOMAIN passwd :
      passwd[a] # passwd[b] =>
        OwnedBy(passwd, sub, a) \cap OwnedBy(passwd, sub, b) \subseteq manual

\* A search of usermod gives as many identifiers as that of useradd does:
\* "end = start + SUB_UID_COUNT - 1" (man/login.defs.d/SUB_UID_COUNT.xml:42).
CountAsConfigured ==
  [][\A p \in Procs :
       LET w == work[p]
           before == OwnedBy(passwd, w.mem.sub, w.job.name)
           after == OwnedBy(passwd, work'[p].mem.sub, w.job.name)
       IN  /\ Doing(p, "edit") /\ work'[p].script = Tail(w.script)
           /\ w.job.tool = "usermod" /\ "S" \in w.job.flags
           => Cardinality(after \ before) <= SubIdCount]_vars
=============================================================================
