------------------------------ MODULE Sessions ------------------------------
(***************************************************************************)
(* How sessions begin: login on several lines, su, newgrp and sulogin, and *)
(* faillog, which looks after the records of failures.  All of them as     *)
(* they are built without PAM.                                             *)
(***************************************************************************)
EXTENDS AccessRules, LoginRecords

CONSTANTS
  Procs,
  Sites,      \* contents of the files, and the commands that are run there
  Secrets,    \* what may be typed for a password
  GShadow,    \* the entry in gshadow of some groups
  Moments,    \* the day and hour at each value of the clock
  MaxUid,     \* of the accounts
  MaxJobs     \* bound: commands started

VARIABLES
  site,
  accounts,   \* passwd and shadow
  nologin,    \* whether NOLOGINS_FILE is there
  faillog, utmp,
  clock,
  work,       \* what each process is doing
  started,    \* bound: commands started so far
  sessions,   \* those that go on
  had,        \* history: the passwords that each account has had
  failures,   \* history: failures of a uid since its count was cleared
  raced       \* history: uids whose record was worked on by two at once

files == <<accounts, nologin, faillog, utmp>>
history == <<had, failures, raced>>
vars == <<site, files, clock, work, started, sessions, history>>

Nobody == [uid |-> None, gid |-> None, passwd |-> Lock(Hashed("")), shadow |-> None,
           age |-> NoAge, restricted |-> FALSE]

Idle == [job |-> None, at |-> "nothing", name |-> None, preauth |-> FALSE, retries |-> 0,
         failed |-> FALSE, account |-> Nobody, asked |-> NoPassword, typed |-> None,
         record |-> NoRecord, ops |-> <<>>, op |-> None, left |-> {}, uid |-> None, size |-> 0,
         pid |-> 0]

Uids == 0 .. MaxUid

\* What the files may have in them, and what may be asked of a command.
AnyPassword == [locked : BOOLEAN, hash : STRING]
AnyAccount ==
  [uid : Uids, gid : Nat, passwd : AnyPassword, shadow : AnyPassword \cup {None},
   age : [AgeFields -> Int], restricted : BOOLEAN]
AnyEntry == [type : STRING, pid : Nat, line : STRING, user : STRING, id : STRING, host : STRING]
AnyUids  == [min : Nat \cup {None}, max : Nat \cup {None}]
FaillogOps == [do : {"reset", "max", "lock"}, value : Nat]

JobFits(job) ==
  /\ job.tool = "login" => /\ job.line \in DOMAIN Name /\ job.host \in STRING
                           /\ job.name \in STRING \cup {None}
  /\ job.tool = "faillog" => job.ops \in Seq(FaillogOps) /\ job.range \in AnyUids

\* A count that is kept in faillog is one that failure may have made.
SiteFits(s) ==
  /\ s.accounts \in [DOMAIN s.accounts -> AnyAccount]
  /\ s.names \subseteq STRING
  /\ IsFiniteSet(DOMAIN s.faillog) /\ DOMAIN s.faillog = 0 .. Cardinality(DOMAIN s.faillog) - 1
  /\ s.faillog \in [DOMAIN s.faillog -> [cnt : 0 .. ShortMax, max : Nat, time : Nat, lock : Nat]]
  /\ s.utmp \in Seq(AnyEntry)
  /\ s.suauth = Unreadable \/ DOMAIN s.suauth \subseteq Nat
  /\ None \notin s.jobs /\ \A job \in s.jobs : JobFits(job)

ASSUME SessionsAssumption ==
  /\ MaxJobs \in Nat /\ MaxUid \in Nat /\ ShortMax \in Nat
  /\ Secrets \subseteq STRING
  /\ None \notin STRING \cup AnyPassword \cup Nat
  /\ Name \in [DOMAIN Name -> STRING] /\ LineId \in [DOMAIN Name -> STRING]
  /\ \A s \in Sites : SiteFits(s)

Account(n) == IF n \in DOMAIN accounts THEN accounts[n] ELSE Nobody
Passwords(account) == {account.passwd} \cup (IF account.shadow = None THEN {} ELSE {account.shadow})

\* The password that is asked for: the one in shadow if passwd says so.
AskedOf(account) ==
  IF account.passwd = Shadow /\ account.shadow # None THEN account.shadow ELSE account.passwd

Init ==
  /\ site \in Sites
  /\ accounts = site.accounts /\ nologin = FALSE
  /\ faillog = site.faillog /\ utmp = site.utmp
  /\ clock = 1
  /\ work = [p \in Procs |-> Idle]
  /\ started = 0 /\ sessions = {}
  /\ had = [n \in DOMAIN accounts |-> Passwords(accounts[n])]
  /\ failures = [u \in Uids |-> Record(faillog, u).cnt] /\ raced = {}

(***************************************************************************)
(* Steps.                                                                  *)
(***************************************************************************)
At(p, where) == work[p].at = where
Moves(p, changed) == work' = [work EXCEPT ![p] = changed]
Goes(p, where) == Moves(p, [work[p] EXCEPT !.at = where])
Exits(p) == Moves(p, Idle)

Opens(p, gid, shell) ==
  sessions' = sessions \cup
    {[proc |-> p, job |-> work[p].job, name |-> work[p].name, account |-> work[p].account,
      typed |-> work[p].typed, pid |-> work[p].pid, gid |-> gid, shell |-> shell, when |-> clock]}

OnlyMoves == UNCHANGED <<site, files, clock, started, sessions, history>>

\* Two are at work on a record when one writes it while the other has read it
\* and will write it, or takes it for a record beyond the end of the file.
HasRead(p, uid) ==
  \/ work[p].at \in {"reset", "count"} /\ work[p].account.uid = uid
  \/ work[p].at \in {"options", "maintain", "write"} /\ uid >= work[p].size
  \/ At(p, "write") /\ work[p].uid = uid

WritesRecord(p, uid, record) ==
  /\ faillog' = WithRecord(faillog, uid, record)
  /\ raced' = IF \E q \in Procs \ {p} : HasRead(q, uid) THEN raced \cup {uid} ELSE raced

(***************************************************************************)
(* login.                                                                  *)
(***************************************************************************)
\* The session that the host comes from must be known if not to root.
MayRunLogin(job, pid) ==
  /\ job.preauth \/ job.host # "" => job.caller = "root"
  /\ job.preauth => job.name # None
  /\ \/ job.caller = "root"
     \/ \E e \in Range(GetCurrentUtmp(utmp, pid, job.line)) : e.host # ""

\* getty leaves its entry, with its own pid, which becomes login's.
GettyEntry(line, pid) ==
  [type |-> "LOGIN", pid |-> pid, line |-> Name[line], user |-> "LOGIN", id |-> LineId[line], host |-> ""]

\* One process has a line, until it ends.
LoggingIn == {q \in Procs : work[q].job # None /\ work[q].job.tool = "login"}
Free(line) == line \notin {work[q].job.line : q \in LoggingIn}

StartLogin(p, job) ==
  LET pid == started + 1 IN
  /\ job.tool = "login" /\ Free(job.line) /\ MayRunLogin(job, pid)
  /\ utmp' = IF job.getty THEN PutUtxLine(utmp, GettyEntry(job.line, pid)) ELSE utmp
  /\ Moves(p, [Idle EXCEPT !.job = job, !.at = "look", !.name = job.name, !.pid = pid,
                           !.preauth = job.preauth, !.retries = site.retries])
  /\ UNCHANGED <<accounts, nologin, faillog, raced>>

\* A name is asked for if there is none, and then -f does not count.
Look(p) ==
  /\ At(p, "look") /\ work[p].job.tool = "login"
  /\ \E name \in IF work[p].name = None THEN site.names ELSE {work[p].name} :
       LET account == Account(name) IN
       Moves(p, [work[p] EXCEPT
         !.at = "answer", !.name = name, !.account = account, !.asked = AskedOf(account),
         !.preauth = @ /\ work[p].name # None /\ account # Nobody,
         !.failed = account.passwd.locked \/ EmptyPasswordBarred(site.prevent, account)])
  /\ OnlyMoves

Typed(p) == IF work[p].preauth \/ work[p].asked = NoPassword THEN {None} ELSE Secrets

Refused(p) ==
  LET job == work[p].job IN
  \/ work[p].account.uid = 0 /\ ~IsConsole(site.console, Name[job.line])
  \/ ~LoginAccess(site.access, work[p].name, IF job.host # "" THEN job.host ELSE job.line)

Answer(p) ==
  /\ At(p, "answer") /\ work[p].job.tool = "login"
  /\ \E typed \in Typed(p) :
       Moves(p, [work[p] EXCEPT
         !.typed = typed,
         !.failed = @ \/ (~work[p].preauth /\ ~PwAuth(work[p].asked, typed)) \/ Refused(p),
         !.at = "check"])
  /\ OnlyMoves

CountsFailures(p) == work[p].account # Nobody /\ site.faillogEnab

\* failcheck reads the record, and will clear the count of one who may enter.
FailCheck(p) ==
  LET uid    == work[p].account.uid
      failed == work[p].failed \/ (CountsFailures(p) /\ TooManyFailures(Record(faillog, uid), clock))
  IN  /\ At(p, "check")
      /\ Moves(p, [work[p] EXCEPT
           !.failed = failed,
           !.record = IF CountsFailures(p) THEN Record(faillog, uid) ELSE NoRecord,
           !.at = CASE failed -> IF CountsFailures(p) THEN "fail" ELSE "again"
                    [] ~failed /\ CountsFailures(p) /\ uid \in DOMAIN faillog -> "reset"
                    [] OTHER -> "enter"])
      /\ OnlyMoves

ClearCount(p) ==
  /\ At(p, "reset")
  /\ WritesRecord(p, work[p].account.uid, [work[p].record EXCEPT !.cnt = 0])
  /\ failures' = [failures EXCEPT ![work[p].account.uid] = 0]
  /\ Goes(p, "enter")
  /\ UNCHANGED <<site, accounts, nologin, utmp, clock, started, sessions, had>>

FailureRead(p) ==
  /\ At(p, "fail")
  /\ Moves(p, [work[p] EXCEPT !.at = "count", !.record = Record(faillog, work[p].account.uid)])
  /\ OnlyMoves

FailureWrite(p) ==
  /\ At(p, "count")
  /\ WritesRecord(p, work[p].account.uid, Counted(work[p].record, clock))
  /\ failures' = [failures EXCEPT ![work[p].account.uid] = @ + 1]
  /\ Goes(p, "again")
  /\ UNCHANGED <<site, accounts, nologin, utmp, clock, started, sessions, had>>

\* There is one attempt with -f, and as many as LOGIN_RETRIES without.
Again(p) ==
  /\ At(p, "again")
  /\ IF work[p].job.preauth \/ work[p].retries <= 1 THEN Exits(p)
     ELSE Moves(p, [work[p] EXCEPT !.at = "look", !.name = None, !.retries = @ - 1])
  /\ OnlyMoves

\* The alarm ends the process, until someone has been let in.
TimesOut(p) ==
  /\ work[p].job # None /\ work[p].job.tool \in {"login", "sulogin"}
  /\ work[p].at \in {"look", "answer", "check", "reset", "fail", "count", "again"}
  /\ Exits(p)
  /\ OnlyMoves

Enter(p) ==
  /\ At(p, "enter")
  /\ IF /\ IsTtyTime(site.ports, work[p].name, work[p].job.line, Moments[clock])
        /\ ~nologin \/ work[p].account.uid = 0
     THEN Goes(p, "aged") ELSE Exits(p)
  /\ OnlyMoves

(***************************************************************************)
(* What login and su do next: the age of the password, the limits.         *)
(***************************************************************************)
\* login looks at shadow if passwd says so, su in any case.
Aged(p) ==
  /\ work[p].account.shadow # None
  /\ work[p].job.tool = "su" \/ work[p].account.passwd = Shadow

AfterAge(p) == IF work[p].job.tool = "su" THEN "hour" ELSE "limits"

\* expire: the user runs passwd, or is sent away.
Expire(p) ==
  LET w == work[p]
      status == IF Aged(p) THEN IsExpired(w.account.passwd, w.account.age, clock) ELSE 0
  IN  /\ At(p, "aged")
      /\ \/ /\ status = 0 /\ Goes(p, AfterAge(p))
            /\ UNCHANGED <<accounts, had>>
         \/ /\ status = 1 /\ Account(w.name).shadow # None
            /\ \E secret \in Secrets \ {"", "x"} :
                 /\ accounts' = [accounts EXCEPT ![w.name].shadow = Hashed(secret),
                                                 ![w.name].age["lstchg"] = clock]
                 /\ had' = [had EXCEPT ![w.name] = @ \cup {Hashed(secret)}]
            /\ Goes(p, AfterAge(p))
         \/ /\ status > 0 /\ Exits(p)
            /\ UNCHANGED <<accounts, had>>
      /\ UNCHANGED <<site, nologin, faillog, utmp, clock, started, sessions, failures, raced>>

\* setup_limits: not for root, and not for root's su without -l.
Limited(p) ==
  /\ site.quotas /\ work[p].account.uid # 0
  /\ work[p].job.tool = "su" => work[p].job.caller # "root" \/ work[p].job.fakelogin

Limits(p) ==
  /\ At(p, "limits")
  /\ IF Limited(p) /\ TooManyLogins(UserLimit(site.limits, work[p].name),
                                    ActiveSessionsCount(utmp, work[p].name))
     THEN Exits(p) ELSE Goes(p, "open")
  /\ OnlyMoves

\* login's session has an entry in utmp.
OpenLogin(p) ==
  /\ At(p, "open") /\ work[p].job.tool = "login"
  /\ utmp' = UpdateUtmp(utmp, work[p].name, work[p].job.line, work[p].job.host, work[p].pid)
  /\ Opens(p, work[p].account.gid, "own")
  /\ Goes(p, "session")
  /\ UNCHANGED <<site, accounts, nologin, faillog, clock, started, history>>

(***************************************************************************)
(* su.                                                                     *)
(***************************************************************************)
StartSu(p, job) ==
  /\ job.tool = "su"
  /\ Moves(p, [Idle EXCEPT !.job = job, !.at = "permission", !.name = job.name, !.pid = started + 1])
  /\ UNCHANGED <<files, raced>>

IsWheel(name) == name \in Members("wheel")

PasswordOfSu(action, caller, wanted) ==
  CASE action = "NOACTION" -> AskedOf(Account(wanted))
    [] action = "NOPASS"   -> NoPassword
    [] action = "OWNPASS"  -> AskedOf(Account(caller))

SuPermission(p) ==
  LET job     == work[p].job
      account == Account(job.name)
      action  == CheckSuAuth(site.suauth, job.caller, job.name)
      barred  == \/ EmptyPasswordBarred(site.prevent, account)
                 \/ account.uid = 0 /\ site.wheelOnly /\ ~IsWheel(job.caller)
                 \/ action = "DENY"
  IN  /\ At(p, "permission")
      /\ IF account = Nobody \/ (job.caller # "root" /\ barred) THEN Exits(p)
         ELSE Moves(p, [work[p] EXCEPT
                !.account = account,
                !.asked = IF job.caller = "root" THEN NoPassword
                          ELSE PasswordOfSu(action, job.caller, job.name),
                !.at = IF job.caller = "root" THEN "limits" ELSE "password"])
      /\ OnlyMoves

SuPassword(p) ==
  /\ At(p, "password") /\ work[p].job.tool = "su"
  /\ \E typed \in Typed(p) :
       IF PwAuth(work[p].asked, typed)
       THEN Moves(p, [work[p] EXCEPT !.typed = typed, !.at = "aged"]) ELSE Exits(p)
  /\ OnlyMoves

SuHour(p) ==
  /\ At(p, "hour")
  /\ IF IsTtyTime(site.ports, work[p].name, "SU", Moments[clock]) THEN Goes(p, "limits") ELSE Exits(p)
  /\ OnlyMoves

\* Only root chooses the shell of someone whose own is not listed.
ShellOf(job, account) ==
  IF job.shell /\ (job.caller = "root" \/ ~account.restricted) THEN "given" ELSE "own"

OpenSu(p) ==
  /\ At(p, "open") /\ work[p].job.tool = "su"
  /\ Opens(p, work[p].account.gid, ShellOf(work[p].job, work[p].account))
  /\ Goes(p, "session")
  /\ UNCHANGED <<site, files, clock, started, history>>

(***************************************************************************)
(* newgrp and sg.                                                          *)
(***************************************************************************)
StartNewgrp(p, job) ==
  /\ job.tool = "newgrp" /\ job.group \in DOMAIN Groups /\ job.caller \in DOMAIN accounts
  /\ Moves(p, [Idle EXCEPT !.job = job, !.at = "group", !.name = job.caller, !.pid = started + 1])
  /\ UNCHANGED <<files, raced>>

\* find_matching_group: the groups with the gid of the wanted one in which the
\* user is listed, the wanted one first.
MatchingGroups(user, group) ==
  LET same == {g \in DOMAIN Groups : Groups[g].gid = Groups[group].gid /\ user \in Members(g)}
  IN  IF group \in same \/ same = {} THEN {group} ELSE same

\* What gshadow says of the wanted group goes before what group says.
GroupEntry(found, group) ==
  IF group \in DOMAIN GShadow
  THEN [gid |-> Groups[found].gid, members |-> GShadow[group].members, passwd |-> GShadow[group].passwd]
  ELSE Groups[found]

NeedsGroupPassword(entry, user, account) ==
  \/ entry.gid # account.gid /\ user \notin entry.members
  \/ /\ entry.passwd # NoPassword
     /\ NoPassword = IF account.shadow # None THEN account.shadow ELSE account.passwd

NewgrpPermission(p) ==
  LET job     == work[p].job
      account == Account(job.caller)
      member  == Groups[job.group].gid \in job.gids
  IN  /\ At(p, "group")
      /\ \E found \in IF member THEN {job.group} ELSE MatchingGroups(job.caller, job.group) :
           LET entry == GroupEntry(found, job.group)
               asks  == ~member /\ job.caller # "root" /\ NeedsGroupPassword(entry, job.caller, account)
           IN  Moves(p, [work[p] EXCEPT !.account = account, !.asked = entry.passwd,
                                        !.at = IF asks THEN "password" ELSE "open"])
      /\ OnlyMoves

\* A group without a password lets no one in.
NewgrpPassword(p) ==
  /\ At(p, "password") /\ work[p].job.tool = "newgrp"
  /\ \E typed \in Secrets :
       IF work[p].asked # NoPassword /\ PwAuth(work[p].asked, typed)
       THEN Moves(p, [work[p] EXCEPT !.typed = typed, !.at = "open"]) ELSE Exits(p)
  /\ OnlyMoves

OpenNewgrp(p) ==
  /\ At(p, "open") /\ work[p].job.tool = "newgrp"
  /\ Opens(p, Groups[work[p].job.group].gid, "own")
  /\ Goes(p, "session")
  /\ UNCHANGED <<site, files, clock, started, history>>

(***************************************************************************)
(* sulogin.                                                                *)
(***************************************************************************)
StartSulogin(p, job) ==
  /\ job.tool = "sulogin"
  /\ Moves(p, [Idle EXCEPT !.job = job, !.at = "look", !.name = "root", !.pid = started + 1])
  /\ UNCHANGED <<files, raced>>

\* pw_entry: shadow goes before passwd.
SuloginLook(p) ==
  LET account == Account("root") IN
  /\ At(p, "look") /\ work[p].job.tool = "sulogin"
  /\ IF account = Nobody THEN Exits(p)
     ELSE Moves(p, [work[p] EXCEPT
            !.account = account, !.at = "answer",
            !.asked = IF account.shadow # None THEN account.shadow ELSE account.passwd])
  /\ OnlyMoves

\* valid: a shadow field that is empty asks for an empty answer.
Valid(typed, field) ==
  IF field = NoPassword THEN typed = "" ELSE field # Shadow /\ field = Hashed(typed)

\* Who types nothing leaves; the answer is asked for again until it is right.
SuloginAnswer(p) ==
  /\ At(p, "answer") /\ work[p].job.tool = "sulogin"
  /\ \/ Exits(p)
     \/ \E typed \in Secrets \ {""} :
          Moves(p, IF Valid(typed, work[p].asked)
                   THEN [work[p] EXCEPT !.typed = typed, !.at = "open"]
                   ELSE [work[p] EXCEPT !.at = "look"])
  /\ OnlyMoves

OpenSulogin(p) ==
  /\ At(p, "open") /\ work[p].job.tool = "sulogin"
  /\ Opens(p, None, "own")
  /\ Goes(p, "session")
  /\ UNCHANGED <<site, files, clock, started, history>>

(***************************************************************************)
(* faillog -l, -m and -r, in this order.  The size of the file is the one  *)
(* it had when it was opened.  The users come in the order of passwd.      *)
(***************************************************************************)
StartFaillog(p, job) ==
  /\ job.tool = "faillog"
  /\ Moves(p, [Idle EXCEPT !.job = job, !.at = "options", !.ops = job.ops,
                           !.size = Cardinality(DOMAIN faillog)])
  /\ UNCHANGED <<files, raced>>

NextOption(p) ==
  LET w == work[p]
      users == {accounts[n].uid : n \in DOMAIN accounts}
  IN  /\ At(p, "options")
      /\ IF w.ops = <<>> THEN Exits(p)
         ELSE Moves(p, [w EXCEPT
                !.at = "maintain", !.op = Head(w.ops), !.ops = Tail(w.ops),
                !.left = SelectedUids(Head(w.ops).do, w.job.range, w.job.all, w.size, users)])
      /\ OnlyMoves

\* A record that is as it should be is not written.
MaintainRead(p) ==
  LET w == work[p]
      read(uid) == IF uid < w.size THEN Record(faillog, uid) ELSE NoRecord
  IN  /\ At(p, "maintain")
      /\ \/ w.left = {} /\ Goes(p, "options")
         \/ \E uid \in w.left :
              Moves(p, IF Maintained(read(uid), w.op.do, w.op.value) = read(uid)
                       THEN [w EXCEPT !.left = @ \ {uid}]
                       ELSE [w EXCEPT !.left = @ \ {uid}, !.at = "write", !.uid = uid,
                                      !.record = read(uid)])
      /\ OnlyMoves

MaintainWrite(p) ==
  LET w == work[p] IN
  /\ At(p, "write")
  /\ WritesRecord(p, w.uid, Maintained(w.record, w.op.do, w.op.value))
  /\ failures' = IF w.op.do = "reset" THEN [failures EXCEPT ![w.uid] = 0] ELSE failures
  /\ Goes(p, "maintain")
  /\ UNCHANGED <<site, accounts, nologin, utmp, clock, started, sessions, had>>

(***************************************************************************)
(* What goes on around them.                                               *)
(***************************************************************************)
\* A session ends; init marks the entry of login's as dead, or nobody does.
Logout(p) ==
  /\ At(p, "session")
  /\ sessions' = {s \in sessions : s.proc # p}
  /\ utmp' \in {utmp, [i \in DOMAIN utmp |->
                         IF utmp[i].pid = work[p].pid THEN [utmp[i] EXCEPT !.type = "DEAD"] ELSE utmp[i]]}
  /\ Exits(p)
  /\ UNCHANGED <<site, accounts, nologin, faillog, clock, started, history>>

\* usermod -L, and maintenance of the system.
Locked(name) ==
  /\ name \in site.locks /\ accounts[name].shadow # None
  /\ accounts' = [accounts EXCEPT ![name].shadow = Lock(@)]
  /\ UNCHANGED <<site, nologin, faillog, utmp, clock, work, started, sessions, history>>

Maintenance ==
  /\ site.maintenance /\ nologin' = ~nologin
  /\ UNCHANGED <<site, accounts, faillog, utmp, clock, work, started, sessions, history>>

Tick ==
  /\ clock < Len(Moments) /\ clock' = clock + 1
  /\ UNCHANGED <<site, files, work, started, sessions, history>>

Start(p) ==
  /\ At(p, "nothing") /\ started < MaxJobs /\ started' = started + 1
  /\ \E job \in site.jobs : \/ StartLogin(p, job) \/ StartSu(p, job) \/ StartNewgrp(p, job)
                            \/ StartSulogin(p, job) \/ StartFaillog(p, job)
  /\ UNCHANGED <<site, clock, sessions, had, failures>>

LoginStep(p) ==
  \/ Look(p) \/ Answer(p) \/ FailCheck(p) \/ ClearCount(p) \/ FailureRead(p) \/ FailureWrite(p)
  \/ Again(p) \/ TimesOut(p) \/ Enter(p) \/ Expire(p) \/ Limits(p) \/ OpenLogin(p)

OtherStep(p) ==
  \/ SuPermission(p) \/ SuPassword(p) \/ SuHour(p) \/ OpenSu(p)
  \/ NewgrpPermission(p) \/ NewgrpPassword(p) \/ OpenNewgrp(p)
  \/ SuloginLook(p) \/ SuloginAnswer(p) \/ OpenSulogin(p)
  \/ NextOption(p) \/ MaintainRead(p) \/ MaintainWrite(p)

Next ==
  \/ \E p \in Procs : Start(p) \/ LoginStep(p) \/ OtherStep(p) \/ Logout(p)
  \/ \E name \in DOMAIN accounts : Locked(name)
  \/ Maintenance \/ Tick

Spec == Init /\ [][Next]_vars

(***************************************************************************)
(* Properties.                                                             *)
(***************************************************************************)
\* What the manual says of a list with EXCEPT: the words before it, without
\* those that the list after it holds for.
InList(list, Matches(_)) ==
  LET cut(i) == Min({k \in i .. Len(list) : list[k].name = "EXCEPT"} \cup {Len(list) + 1})
      holds[i \in 1 .. Len(list) + 2] ==
        /\ i <= Len(list) /\ \E k \in i .. cut(i) - 1 : Matches(list[k])
        /\ ~holds[cut(i) + 1]
  IN  holds[1]

\* And of a list in suauth, if it is formed as the manual asks.
Keywords == {"ALL", "EXCEPT", "GROUP"}
Rest(list, n) == Range(SubSeq(list, n + 1, Len(list)))

WellFormed(list) ==
  /\ list # <<>>
  /\ \E n \in 0 .. Min({3, Len(list)}) :
                       /\ Rest(list, n) \cap Keywords = {}
                       /\ SubSeq(list, 1, n) \in {<<>>, <<"ALL">>, <<"GROUP">>, <<"ALL", "EXCEPT">>,
                                                  <<"ALL", "EXCEPT", "GROUP">>}
                       /\ (Len(list) = n) = (SubSeq(list, 1, n) = <<"ALL">>)

SuListMeans(name, list) ==
  LET starts(words) == Len(list) >= Len(words) /\ SubSeq(list, 1, Len(words)) = words
      named(n)      == name \in Rest(list, n)
      grouped(n)    == \E word \in Rest(list, n) : name \in Members(word)
  IN  IF starts(<<"ALL", "EXCEPT", "GROUP">>) THEN ~grouped(3)
      ELSE IF starts(<<"ALL", "EXCEPT">>) THEN ~named(2)
      ELSE IF starts(<<"GROUP">>) THEN grouped(1)
      ELSE starts(<<"ALL">>) \/ named(0)

Lines(table) == IF table = Unreadable THEN <<>> ELSE table

\* The lists of suauth mean that for those who run su and those they ask for.
SuListsMean(s) ==
  \A i \in DOMAIN Lines(s.suauth), job \in {j \in s.jobs : j.tool = "su"} :
    /\ AppliesTo(job.name, s.suauth[i].to) = SuListMeans(job.name, s.suauth[i].to)
    /\ AppliesTo(job.caller, s.suauth[i].from) = SuListMeans(job.caller, s.suauth[i].from)

\* The lists of login.access and suauth are read as their manuals say: EXCEPT
\* takes away from what is before it, however often it is there, and ALL, EXCEPT
\* and GROUP are understood wherever they may stand (list_match, applies).
RulesExact ==
  started = 0 =>
    /\ \A line \in Range(site.access), user \in DOMAIN accounts :
         UsersMatch(line.users, user)
           = InList(line.users, LAMBDA word : UserMatch(user, word))
    /\ \A line \in Range(Lines(site.suauth)), user \in DOMAIN accounts :
         WellFormed(line.from) => AppliesTo(user, line.from) = SuListMeans(user, line.from)
    /\ SuListsMean(site)

Proved(s, name) ==
  IF s.typed = None THEN NoPassword \in had[name]
  ELSE s.typed # "" /\ Hashed(s.typed) \in had[name]

EarnedLogin(s) ==
  /\ ~s.account.passwd.locked
  /\ s.account.uid = 0 => IsConsole(site.console, Name[s.job.line])
  /\ \/ s.job.caller = "root" /\ s.job.preauth /\ s.name = s.job.name
     \/ Proved(s, s.name)

\* The first line for the two of them decides who may do without the password.
EarnedSu(s) ==
  LET lines  == {i \in DOMAIN Lines(site.suauth) : /\ SuListMeans(s.name, site.suauth[i].to)
                                            /\ SuListMeans(s.job.caller, site.suauth[i].from)
                                            /\ site.suauth[i].action \in SuActions}
      action == IF lines = {} THEN "NOACTION" ELSE site.suauth[Min(lines)].action
  IN  /\ \/ s.job.caller = "root"
         \/ action = "NOPASS"
         \/ action = "OWNPASS" /\ Proved(s, s.job.caller)
         \/ action = "NOACTION" /\ Proved(s, s.name)
      /\ s.shell = "given" => s.job.caller = "root" \/ ~s.account.restricted

EarnedGroup(s) ==
  LET same == {g \in DOMAIN Groups : Groups[g].gid = s.gid} IN
  \/ s.job.caller = "root"
  \/ s.gid \in s.job.gids \cup {s.account.gid}
  \/ \E g \in same : \/ s.job.caller \in Members(g)
                     \/ g \in DOMAIN GShadow /\ s.job.caller \in GShadow[g].members
  \/ \E entry \in {GroupEntry(g, g) : g \in same} : s.typed # None /\ entry.passwd = Hashed(s.typed)

\* However login, su, newgrp and sulogin got there, by which attempt and whatever
\* was changed while they waited, who has a session has given a password that
\* is or was the account's, or is one of those who need not: root, a user named
\* with -f by root, one whom suauth lets in or who is listed in the group; and
\* root logs in on a console, nobody with a locked password field.  newgrp lets
\* in two more, listed or not: who has the group as login group
\* (check_perms, newgrp.c:146) and who is in it already (newgrp.c:613).  Its
\* comment (newgrp.c:580-586) and man/newgrp.1.xml:66 say of those in their login
\* group that they are asked for the password of the group, or denied.
SessionsEarned ==
  \A s \in sessions :
    CASE s.job.tool = "login"   -> EarnedLogin(s)
      [] s.job.tool = "su"      -> EarnedSu(s)
      [] s.job.tool = "newgrp"  -> EarnedGroup(s)
      [] s.job.tool = "sulogin" -> s.typed # None /\ Proved(s, "root")

\* As long as no two work on the record of a user at once, nobody gets past
\* failcheck once there were as many failures as faillog allows since the count
\* was last cleared, whoever failed and on whichever line, unless enough time
\* has passed, or they were more than a short can count, which failure means to
\* stop at but does not (failure, failcheck and faillog read and write without
\* a lock).
LockedOut ==
  [][\A p \in Procs :
       /\ work[p].job # None /\ work[p].job.tool = "login" /\ work'[p].at = "enter" /\ ~At(p, "enter")
       /\ site.faillogEnab
       => LET uid == work[p].account.uid IN
          \/ uid \in raced' \/ failures[uid] > ShortMax
          \/ ~TooManyFailures([Record(faillog, uid) EXCEPT !.cnt = failures[uid]], clock)]_vars

\* Every session that login opened has one entry in utmp, with its name, its line
\* and its pid: no login on another line takes its place (update_utmp).
UtmpShowsSessions ==
  \A s \in {t \in sessions : t.job.tool = "login"} :
    Cardinality({i \in DOMAIN utmp :
      /\ utmp[i].type = "USER" /\ utmp[i].pid = s.pid
      /\ utmp[i].line = Name[s.job.line] /\ utmp[i].user = s.name}) = 1
=============================================================================
