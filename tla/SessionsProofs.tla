--------------------------- MODULE SessionsProofs ---------------------------
(***************************************************************************)
(* Proofs about Sessions, for every number of processes and all files and  *)
(* commands of the sites: whoever has a session has earned it, utmp shows  *)
(* the sessions of login, and failures lock out.                           *)
(*                                                                         *)
(* The first part says of each step what it leaves of the record of its    *)
(* process; then there is an invariant for each of the three, and a lemma  *)
(* for each step that can disturb it.                                      *)
(***************************************************************************)
EXTENDS Sessions, FiniteSetTheorems, WellFoundedInduction, TLAPS

-----------------------------------------------------------------------------
(* The shape of the state *)

\* The record of a process, whatever is in its fields.
IsWork(w) ==
  w \in [job : {w.job}, at : {w.at}, name : {w.name}, preauth : {w.preauth},
         retries : {w.retries}, failed : {w.failed}, account : {w.account}, asked : {w.asked},
         typed : {w.typed}, record : {w.record}, ops : {w.ops}, op : {w.op}, left : {w.left},
         uid : {w.uid}, size : {w.size}, pid : {w.pid}]

\* The places of each program.
PlaceOf(job, at) ==
  \/ /\ job.tool = "login"
     /\ at \in {"look", "answer", "check", "reset", "fail", "count", "again", "enter",
                "aged", "limits", "open", "session"}
  \/ /\ job.tool = "su"
     /\ at \in {"permission", "password", "aged", "hour", "limits", "open", "session"}
  \/ job.tool = "newgrp" /\ at \in {"group", "password", "open", "session"}
  \/ job.tool = "sulogin" /\ at \in {"look", "answer", "open", "session"}
  \/ job.tool = "faillog" /\ at \in {"options", "maintain", "write"}

Placed(w, jobs) ==
  \/ w.at = "nothing" /\ w = Idle
  \/ w.job \in jobs /\ PlaceOf(w.job, w.at)

SomeAccount == AnyAccount \cup {Nobody}

Base ==
  /\ site \in Sites
  /\ accounts \in [DOMAIN accounts -> AnyAccount]
  /\ had = [n \in DOMAIN accounts |-> had[n]]
  /\ clock \in Nat
  /\ started \in 0 .. MaxJobs
  /\ work = [p \in Procs |-> work[p]]
  /\ \A p \in Procs :
       IsWork(work[p]) /\ Placed(work[p], site.jobs) /\ work[p].account \in SomeAccount

\* What a step leaves as it is: of the process and its user, and of faillog's
\* work.
Goer(w, v)    == IsWork(v) /\ v.job = w.job /\ v.pid = w.pid
SameUser(w, v) ==
  /\ v.name = w.name /\ v.preauth = w.preauth /\ v.account = w.account
  /\ v.asked = w.asked /\ v.typed = w.typed /\ v.failed = w.failed
SameSize(w, v) == v.size = w.size

LEMMA AccountType ==
  ASSUME Base, NEW n PROVE Account(n) \in SomeAccount
  BY DEF Base, Account, SomeAccount

\* What becomes of the records in one step.
LEMMA Moved ==
  ASSUME NEW p \in Procs, NEW w, work = [q \in Procs |-> work[q]], Moves(p, w)
  PROVE  /\ work' = [q \in Procs |-> work'[q]]
         /\ work'[p] = w
         /\ \A q \in Procs \ {p} : work'[q] = work[q]
  BY DEF Moves

LEMMA IdleFields ==
  /\ IsWork(Idle) /\ Idle.at = "nothing" /\ Idle.account = Nobody /\ Idle.job = None
  /\ Idle.preauth = FALSE /\ Idle.failed = FALSE /\ Idle.name = None /\ Idle.ops = <<>>
  BY DEF IsWork, Idle

-----------------------------------------------------------------------------
(* What each step does to the record of its process *)

LEMMA Went ==
  ASSUME Base, NEW p \in Procs, NEW a, Goes(p, a)
  PROVE  \E v : /\ Moves(p, v) /\ Goer(work[p], v) /\ v.at = a
                /\ SameUser(work[p], v) /\ SameSize(work[p], v) /\ v.record = work[p].record
                /\ v.ops = work[p].ops /\ v.op = work[p].op /\ v.left = work[p].left
                /\ v.uid = work[p].uid
<1> DEFINE w == work[p]
           v == [w EXCEPT !.at = a]
<1>1. IsWork(w)
  BY DEF Base
<1>2. Moves(p, v)
  BY DEF Goes
<1> HIDE DEF w
<1>3. /\ IsWork(v) /\ v.at = a /\ v.job = w.job /\ v.pid = w.pid
      /\ v.name = w.name /\ v.preauth = w.preauth /\ v.account = w.account
      /\ v.asked = w.asked /\ v.typed = w.typed /\ v.failed = w.failed
      /\ v.record = w.record /\ v.ops = w.ops /\ v.op = w.op /\ v.left = w.left
      /\ v.uid = w.uid /\ v.size = w.size
  BY <1>1 DEF IsWork
<1> HIDE DEF v
<1> QED BY <1>2, <1>3 DEF Goer, SameUser, SameSize, w

LEMMA LookFacts ==
  ASSUME Base, NEW p \in Procs, Look(p)
  PROVE  LET w == work[p] IN \E v, name :
           /\ Moves(p, v) /\ Goer(w, v)
           /\ name \in IF w.name = None THEN site.names ELSE {w.name}
           /\ v.at = "answer"
           /\ v.name = name
           /\ v.account = Account(name)
           /\ v.asked = AskedOf(Account(name))
           /\ v.preauth = (w.preauth /\ w.name # None /\ Account(name) # Nobody)
           /\ v.failed = (Account(name).passwd.locked \/ EmptyPasswordBarred(site.prevent, Account(name)))
           /\ v.typed = w.typed /\ v.record = w.record /\ v.ops = w.ops /\ v.op = w.op
           /\ v.left = w.left /\ v.uid = w.uid /\ v.size = w.size
<1> DEFINE w == work[p]
<1>1. IsWork(w)
  BY DEF Base
<1>2. PICK name :
        /\ name \in IF w.name = None THEN site.names ELSE {w.name}
        /\ Moves(p, [w EXCEPT !.at = "answer",
                          !.name = name,
                          !.account = Account(name),
                          !.asked = AskedOf(Account(name)),
                          !.preauth = (w.preauth /\ w.name # None /\ Account(name) # Nobody),
                          !.failed = (Account(name).passwd.locked \/ EmptyPasswordBarred(site.prevent, Account(name)))])
  BY DEF Look
<1> DEFINE account == Account(name)
           asked == AskedOf(Account(name))
           preauth == (w.preauth /\ w.name # None /\ Account(name) # Nobody)
           failed == (Account(name).passwd.locked \/ EmptyPasswordBarred(site.prevent, Account(name)))
           v == [w EXCEPT !.at = "answer",
                          !.name = name,
                          !.account = account,
                          !.asked = asked,
                          !.preauth = preauth,
                          !.failed = failed]
<1>3. Moves(p, v)
  BY <1>2
<1> HIDE DEF w, account, asked, preauth, failed
<1>4. /\ IsWork(v) /\ v.job = w.job /\ v.pid = w.pid
      /\ v.at = "answer"
      /\ v.name = name
      /\ v.account = account
      /\ v.asked = asked
      /\ v.preauth = preauth
      /\ v.failed = failed
      /\ v.typed = w.typed /\ v.record = w.record /\ v.ops = w.ops /\ v.op = w.op
      /\ v.left = w.left /\ v.uid = w.uid /\ v.size = w.size
  BY <1>1 DEF IsWork
<1> HIDE DEF v
<1> QED BY <1>2, <1>3, <1>4 DEF Goer, w, account, asked, preauth, failed

LEMMA AnswerFacts ==
  ASSUME Base, NEW p \in Procs, Answer(p)
  PROVE  LET w == work[p] IN \E v, typed :
           /\ Moves(p, v) /\ Goer(w, v)
           /\ typed \in Typed(p)
           /\ v.typed = typed
           /\ v.failed = (w.failed \/ (~w.preauth /\ ~PwAuth(w.asked, typed)) \/ Refused(p))
           /\ v.at = "check"
           /\ v.name = w.name /\ v.preauth = w.preauth /\ v.account = w.account /\ v.asked = w.asked
           /\ v.record = w.record /\ v.ops = w.ops /\ v.op = w.op /\ v.left = w.left
           /\ v.uid = w.uid /\ v.size = w.size
<1> DEFINE w == work[p]
<1>1. IsWork(w)
  BY DEF Base
<1>2. PICK typed :
        /\ typed \in Typed(p)
        /\ Moves(p, [w EXCEPT !.typed = typed,
                          !.failed = (w.failed \/ (~w.preauth /\ ~PwAuth(w.asked, typed)) \/ Refused(p)),
                          !.at = "check"])
  BY DEF Answer
<1> DEFINE failed == (w.failed \/ (~w.preauth /\ ~PwAuth(w.asked, typed)) \/ Refused(p))
           v == [w EXCEPT !.typed = typed,
                          !.failed = failed,
                          !.at = "check"]
<1>3. Moves(p, v)
  BY <1>2
<1> HIDE DEF w, failed
<1>4. /\ IsWork(v) /\ v.job = w.job /\ v.pid = w.pid
      /\ v.typed = typed
      /\ v.failed = failed
      /\ v.at = "check"
      /\ v.name = w.name /\ v.preauth = w.preauth /\ v.account = w.account /\ v.asked = w.asked
      /\ v.record = w.record /\ v.ops = w.ops /\ v.op = w.op /\ v.left = w.left
      /\ v.uid = w.uid /\ v.size = w.size
  BY <1>1 DEF IsWork
<1> HIDE DEF v
<1> QED BY <1>2, <1>3, <1>4 DEF Goer, w, failed

LEMMA FailCheckFacts ==
  ASSUME Base, NEW p \in Procs, FailCheck(p)
  PROVE  LET w == work[p] IN \E v :
           /\ Moves(p, v) /\ Goer(w, v)
           /\ v.failed = (w.failed \/ (CountsFailures(p) /\ TooManyFailures(Record(faillog, w.account.uid), clock)))
           /\ v.record = (IF CountsFailures(p) THEN Record(faillog, w.account.uid) ELSE NoRecord)
           /\ v.at = (CASE (w.failed \/ (CountsFailures(p) /\ TooManyFailures(Record(faillog, w.account.uid), clock))) -> IF CountsFailures(p) THEN "fail" ELSE "again" [] ~(w.failed \/ (CountsFailures(p) /\ TooManyFailures(Record(faillog, w.account.uid), clock))) /\ CountsFailures(p) /\ w.account.uid \in DOMAIN faillog -> "reset" [] OTHER -> "enter")
           /\ v.name = w.name /\ v.preauth = w.preauth /\ v.account = w.account /\ v.asked = w.asked
           /\ v.typed = w.typed /\ v.ops = w.ops /\ v.op = w.op /\ v.left = w.left
           /\ v.uid = w.uid /\ v.size = w.size
<1> DEFINE w == work[p]
<1>1. IsWork(w)
  BY DEF Base
<1>2. /\ Moves(p, [w EXCEPT !.failed = (w.failed \/ (CountsFailures(p) /\ TooManyFailures(Record(faillog, w.account.uid), clock))),
                          !.record = (IF CountsFailures(p) THEN Record(faillog, w.account.uid) ELSE NoRecord),
                          !.at = (CASE (w.failed \/ (CountsFailures(p) /\ TooManyFailures(Record(faillog, w.account.uid), clock))) -> IF CountsFailures(p) THEN "fail" ELSE "again" [] ~(w.failed \/ (CountsFailures(p) /\ TooManyFailures(Record(faillog, w.account.uid), clock))) /\ CountsFailures(p) /\ w.account.uid \in DOMAIN faillog -> "reset" [] OTHER -> "enter")])
  BY DEF FailCheck
<1> DEFINE failed == (w.failed \/ (CountsFailures(p) /\ TooManyFailures(Record(faillog, w.account.uid), clock)))
           record == (IF CountsFailures(p) THEN Record(faillog, w.account.uid) ELSE NoRecord)
           to == (CASE (w.failed \/ (CountsFailures(p) /\ TooManyFailures(Record(faillog, w.account.uid), clock))) -> IF CountsFailures(p) THEN "fail" ELSE "again" [] ~(w.failed \/ (CountsFailures(p) /\ TooManyFailures(Record(faillog, w.account.uid), clock))) /\ CountsFailures(p) /\ w.account.uid \in DOMAIN faillog -> "reset" [] OTHER -> "enter")
           v == [w EXCEPT !.failed = failed,
                          !.record = record,
                          !.at = to]
<1>3. Moves(p, v)
  BY <1>2
<1> HIDE DEF w, failed, record, to
<1>4. /\ IsWork(v) /\ v.job = w.job /\ v.pid = w.pid
      /\ v.failed = failed
      /\ v.record = record
      /\ v.at = to
      /\ v.name = w.name /\ v.preauth = w.preauth /\ v.account = w.account /\ v.asked = w.asked
      /\ v.typed = w.typed /\ v.ops = w.ops /\ v.op = w.op /\ v.left = w.left
      /\ v.uid = w.uid /\ v.size = w.size
  BY <1>1 DEF IsWork
<1> HIDE DEF v
<1> QED BY <1>2, <1>3, <1>4 DEF Goer, w, failed, record, to

LEMMA FailureReadFacts ==
  ASSUME Base, NEW p \in Procs, FailureRead(p)
  PROVE  LET w == work[p] IN \E v :
           /\ Moves(p, v) /\ Goer(w, v)
           /\ v.at = "count"
           /\ v.record = Record(faillog, w.account.uid)
           /\ v.name = w.name /\ v.preauth = w.preauth /\ v.account = w.account /\ v.asked = w.asked
           /\ v.typed = w.typed /\ v.failed = w.failed /\ v.ops = w.ops /\ v.op = w.op
           /\ v.left = w.left /\ v.uid = w.uid /\ v.size = w.size
<1> DEFINE w == work[p]
<1>1. IsWork(w)
  BY DEF Base
<1>2. /\ Moves(p, [w EXCEPT !.at = "count",
                          !.record = Record(faillog, w.account.uid)])
  BY DEF FailureRead
<1> DEFINE record == Record(faillog, w.account.uid)
           v == [w EXCEPT !.at = "count",
                          !.record = record]
<1>3. Moves(p, v)
  BY <1>2
<1> HIDE DEF w, record
<1>4. /\ IsWork(v) /\ v.job = w.job /\ v.pid = w.pid
      /\ v.at = "count"
      /\ v.record = record
      /\ v.name = w.name /\ v.preauth = w.preauth /\ v.account = w.account /\ v.asked = w.asked
      /\ v.typed = w.typed /\ v.failed = w.failed /\ v.ops = w.ops /\ v.op = w.op
      /\ v.left = w.left /\ v.uid = w.uid /\ v.size = w.size
  BY <1>1 DEF IsWork
<1> HIDE DEF v
<1> QED BY <1>2, <1>3, <1>4 DEF Goer, w, record

LEMMA AgainFacts ==
  ASSUME Base, NEW p \in Procs, Again(p)
  PROVE  LET w == work[p] IN
         \/ Exits(p)
         \/ \E v :
              /\ Moves(p, v) /\ Goer(w, v)
              /\ ~ w.job.preauth
              /\ v.at = "look"
              /\ v.name = None
              /\ v.preauth = w.preauth /\ v.account = w.account /\ v.asked = w.asked /\ v.typed = w.typed
              /\ v.failed = w.failed /\ v.record = w.record /\ v.ops = w.ops /\ v.op = w.op
              /\ v.left = w.left /\ v.uid = w.uid /\ v.size = w.size
<1> DEFINE w == work[p]
<1>1. IsWork(w)
  BY DEF Base
<1>2. CASE Exits(p)
  BY <1>2
<1>3. CASE ~ (Exits(p))
  <2>1. /\ Moves(p, [w EXCEPT !.at = "look",
                            !.name = None,
                            !.retries = w.retries - 1])
        /\ ~ w.job.preauth
    BY <1>3 DEF Again
  <2> DEFINE retries == w.retries - 1
             v == [w EXCEPT !.at = "look",
                            !.name = None,
                            !.retries = retries]
  <2>2. Moves(p, v)
    BY <2>1
  <2> HIDE DEF w, retries
  <2>3. /\ IsWork(v) /\ v.job = w.job /\ v.pid = w.pid
        /\ v.at = "look"
        /\ v.name = None
        /\ v.preauth = w.preauth /\ v.account = w.account /\ v.asked = w.asked /\ v.typed = w.typed
        /\ v.failed = w.failed /\ v.record = w.record /\ v.ops = w.ops /\ v.op = w.op
        /\ v.left = w.left /\ v.uid = w.uid /\ v.size = w.size
    BY <1>1 DEF IsWork
  <2> HIDE DEF v
  <2> QED BY <2>1, <2>2, <2>3 DEF Goer, w, retries
<1> QED BY <1>2, <1>3

LEMMA SuPermissionFacts ==
  ASSUME Base, NEW p \in Procs, SuPermission(p)
  PROVE  LET w == work[p] IN
         \/ Exits(p)
         \/ \E v :
              /\ Moves(p, v) /\ Goer(w, v)
              /\ Account(w.job.name) # Nobody
              /\ w.job.caller = "root" \/ CheckSuAuth(site.suauth, w.job.caller, w.job.name) # "DENY"
              /\ v.account = Account(w.job.name)
              /\ v.asked = (IF w.job.caller = "root" THEN NoPassword ELSE PasswordOfSu(CheckSuAuth(site.suauth, w.job.caller, w.job.name), w.job.caller, w.job.name))
              /\ v.at = (IF w.job.caller = "root" THEN "limits" ELSE "password")
              /\ v.name = w.name /\ v.preauth = w.preauth /\ v.typed = w.typed /\ v.failed = w.failed
              /\ v.record = w.record /\ v.ops = w.ops /\ v.op = w.op /\ v.left = w.left
              /\ v.uid = w.uid /\ v.size = w.size
<1> DEFINE w == work[p]
<1>1. IsWork(w)
  BY DEF Base
<1>2. CASE Exits(p)
  BY <1>2
<1>3. CASE ~ (Exits(p))
  <2>1. /\ Moves(p, [w EXCEPT !.account = Account(w.job.name),
                            !.asked = (IF w.job.caller = "root" THEN NoPassword ELSE PasswordOfSu(CheckSuAuth(site.suauth, w.job.caller, w.job.name), w.job.caller, w.job.name)),
                            !.at = (IF w.job.caller = "root" THEN "limits" ELSE "password")])
        /\ Account(w.job.name) # Nobody
        /\ w.job.caller = "root" \/ CheckSuAuth(site.suauth, w.job.caller, w.job.name) # "DENY"
    BY <1>3 DEF SuPermission
  <2> DEFINE account == Account(w.job.name)
             asked == (IF w.job.caller = "root" THEN NoPassword ELSE PasswordOfSu(CheckSuAuth(site.suauth, w.job.caller, w.job.name), w.job.caller, w.job.name))
             to == (IF w.job.caller = "root" THEN "limits" ELSE "password")
             v == [w EXCEPT !.account = account,
                            !.asked = asked,
                            !.at = to]
  <2>2. Moves(p, v)
    BY <2>1
  <2> HIDE DEF w, account, asked, to
  <2>3. /\ IsWork(v) /\ v.job = w.job /\ v.pid = w.pid
        /\ v.account = account
        /\ v.asked = asked
        /\ v.at = to
        /\ v.name = w.name /\ v.preauth = w.preauth /\ v.typed = w.typed /\ v.failed = w.failed
        /\ v.record = w.record /\ v.ops = w.ops /\ v.op = w.op /\ v.left = w.left
        /\ v.uid = w.uid /\ v.size = w.size
    BY <1>1 DEF IsWork
  <2> HIDE DEF v
  <2> QED BY <2>1, <2>2, <2>3 DEF Goer, w, account, asked, to
<1> QED BY <1>2, <1>3

LEMMA SuPasswordFacts ==
  ASSUME Base, NEW p \in Procs, SuPassword(p)
  PROVE  LET w == work[p] IN
         \/ Exits(p)
         \/ \E v, typed :
              /\ Moves(p, v) /\ Goer(w, v)
              /\ typed \in Typed(p)
              /\ PwAuth(w.asked, typed)
              /\ v.typed = typed
              /\ v.at = "aged"
              /\ v.name = w.name /\ v.preauth = w.preauth /\ v.account = w.account /\ v.asked = w.asked
              /\ v.failed = w.failed /\ v.record = w.record /\ v.ops = w.ops /\ v.op = w.op
              /\ v.left = w.left /\ v.uid = w.uid /\ v.size = w.size
<1> DEFINE w == work[p]
<1>1. IsWork(w)
  BY DEF Base
<1>2. CASE Exits(p)
  BY <1>2
<1>3. CASE ~ (Exits(p))
  <2>1. PICK typed :
          /\ typed \in Typed(p)
          /\ PwAuth(w.asked, typed)
          /\ Moves(p, [w EXCEPT !.typed = typed,
                            !.at = "aged"])
    BY <1>3 DEF SuPassword
  <2> DEFINE v == [w EXCEPT !.typed = typed,
                            !.at = "aged"]
  <2>2. Moves(p, v)
    BY <2>1
  <2> HIDE DEF w
  <2>3. /\ IsWork(v) /\ v.job = w.job /\ v.pid = w.pid
        /\ v.typed = typed
        /\ v.at = "aged"
        /\ v.name = w.name /\ v.preauth = w.preauth /\ v.account = w.account /\ v.asked = w.asked
        /\ v.failed = w.failed /\ v.record = w.record /\ v.ops = w.ops /\ v.op = w.op
        /\ v.left = w.left /\ v.uid = w.uid /\ v.size = w.size
    BY <1>1 DEF IsWork
  <2> HIDE DEF v
  <2> QED BY <2>1, <2>2, <2>3 DEF Goer, w
<1> QED BY <1>2, <1>3

LEMMA NewgrpPermissionFacts ==
  ASSUME Base, NEW p \in Procs, NewgrpPermission(p)
  PROVE  LET w == work[p] IN \E v, found :
           /\ Moves(p, v) /\ Goer(w, v)
           /\ found \in IF Groups[w.job.group].gid \in w.job.gids THEN {w.job.group} ELSE MatchingGroups(w.job.caller, w.job.group)
           /\ v.account = Account(w.job.caller)
           /\ v.asked = GroupEntry(found, w.job.group).passwd
           /\ v.at = (IF (~(Groups[w.job.group].gid \in w.job.gids) /\ w.job.caller # "root" /\ NeedsGroupPassword(GroupEntry(found, w.job.group), w.job.caller, Account(w.job.caller))) THEN "password" ELSE "open")
           /\ v.name = w.name /\ v.preauth = w.preauth /\ v.typed = w.typed /\ v.failed = w.failed
           /\ v.record = w.record /\ v.ops = w.ops /\ v.op = w.op /\ v.left = w.left
           /\ v.uid = w.uid /\ v.size = w.size
<1> DEFINE w == work[p]
<1>1. IsWork(w)
  BY DEF Base
<1>2. PICK found :
        /\ found \in IF Groups[w.job.group].gid \in w.job.gids THEN {w.job.group} ELSE MatchingGroups(w.job.caller, w.job.group)
        /\ Moves(p, [w EXCEPT !.account = Account(w.job.caller),
                          !.asked = GroupEntry(found, w.job.group).passwd,
                          !.at = (IF (~(Groups[w.job.group].gid \in w.job.gids) /\ w.job.caller # "root" /\ NeedsGroupPassword(GroupEntry(found, w.job.group), w.job.caller, Account(w.job.caller))) THEN "password" ELSE "open")])
  BY DEF NewgrpPermission
<1> DEFINE account == Account(w.job.caller)
           asked == GroupEntry(found, w.job.group).passwd
           to == (IF (~(Groups[w.job.group].gid \in w.job.gids) /\ w.job.caller # "root" /\ NeedsGroupPassword(GroupEntry(found, w.job.group), w.job.caller, Account(w.job.caller))) THEN "password" ELSE "open")
           v == [w EXCEPT !.account = account,
                          !.asked = asked,
                          !.at = to]
<1>3. Moves(p, v)
  BY <1>2
<1> HIDE DEF w, account, asked, to
<1>4. /\ IsWork(v) /\ v.job = w.job /\ v.pid = w.pid
      /\ v.account = account
      /\ v.asked = asked
      /\ v.at = to
      /\ v.name = w.name /\ v.preauth = w.preauth /\ v.typed = w.typed /\ v.failed = w.failed
      /\ v.record = w.record /\ v.ops = w.ops /\ v.op = w.op /\ v.left = w.left
      /\ v.uid = w.uid /\ v.size = w.size
  BY <1>1 DEF IsWork
<1> HIDE DEF v
<1> QED BY <1>2, <1>3, <1>4 DEF Goer, w, account, asked, to

LEMMA NewgrpPasswordFacts ==
  ASSUME Base, NEW p \in Procs, NewgrpPassword(p)
  PROVE  LET w == work[p] IN
         \/ Exits(p)
         \/ \E v, typed :
              /\ Moves(p, v) /\ Goer(w, v)
              /\ typed \in Secrets
              /\ w.asked # NoPassword
              /\ PwAuth(w.asked, typed)
              /\ v.typed = typed
              /\ v.at = "open"
              /\ v.name = w.name /\ v.preauth = w.preauth /\ v.account = w.account /\ v.asked = w.asked
              /\ v.failed = w.failed /\ v.record = w.record /\ v.ops = w.ops /\ v.op = w.op
              /\ v.left = w.left /\ v.uid = w.uid /\ v.size = w.size
<1> DEFINE w == work[p]
<1>1. IsWork(w)
  BY DEF Base
<1>2. CASE Exits(p)
  BY <1>2
<1>3. CASE ~ (Exits(p))
  <2>1. PICK typed :
          /\ typed \in Secrets
          /\ w.asked # NoPassword
          /\ PwAuth(w.asked, typed)
          /\ Moves(p, [w EXCEPT !.typed = typed,
                            !.at = "open"])
    BY <1>3 DEF NewgrpPassword
  <2> DEFINE v == [w EXCEPT !.typed = typed,
                            !.at = "open"]
  <2>2. Moves(p, v)
    BY <2>1
  <2> HIDE DEF w
  <2>3. /\ IsWork(v) /\ v.job = w.job /\ v.pid = w.pid
        /\ v.typed = typed
        /\ v.at = "open"
        /\ v.name = w.name /\ v.preauth = w.preauth /\ v.account = w.account /\ v.asked = w.asked
        /\ v.failed = w.failed /\ v.record = w.record /\ v.ops = w.ops /\ v.op = w.op
        /\ v.left = w.left /\ v.uid = w.uid /\ v.size = w.size
    BY <1>1 DEF IsWork
  <2> HIDE DEF v
  <2> QED BY <2>1, <2>2, <2>3 DEF Goer, w
<1> QED BY <1>2, <1>3

LEMMA SuloginLookFacts ==
  ASSUME Base, NEW p \in Procs, SuloginLook(p)
  PROVE  LET w == work[p] IN
         \/ Exits(p)
         \/ \E v :
              /\ Moves(p, v) /\ Goer(w, v)
              /\ Account("root") # Nobody
              /\ v.account = Account("root")
              /\ v.at = "answer"
              /\ v.asked = (IF Account("root").shadow # None THEN Account("root").shadow ELSE Account("root").passwd)
              /\ v.name = w.name /\ v.preauth = w.preauth /\ v.typed = w.typed /\ v.failed = w.failed
              /\ v.record = w.record /\ v.ops = w.ops /\ v.op = w.op /\ v.left = w.left
              /\ v.uid = w.uid /\ v.size = w.size
<1> DEFINE w == work[p]
<1>1. IsWork(w)
  BY DEF Base
<1>2. CASE Exits(p)
  BY <1>2
<1>3. CASE ~ (Exits(p))
  <2>1. /\ Moves(p, [w EXCEPT !.account = Account("root"),
                            !.at = "answer",
                            !.asked = (IF Account("root").shadow # None THEN Account("root").shadow ELSE Account("root").passwd)])
        /\ Account("root") # Nobody
    BY <1>3 DEF SuloginLook
  <2> DEFINE account == Account("root")
             asked == (IF Account("root").shadow # None THEN Account("root").shadow ELSE Account("root").passwd)
             v == [w EXCEPT !.account = account,
                            !.at = "answer",
                            !.asked = asked]
  <2>2. Moves(p, v)
    BY <2>1
  <2> HIDE DEF w, account, asked
  <2>3. /\ IsWork(v) /\ v.job = w.job /\ v.pid = w.pid
        /\ v.account = account
        /\ v.at = "answer"
        /\ v.asked = asked
        /\ v.name = w.name /\ v.preauth = w.preauth /\ v.typed = w.typed /\ v.failed = w.failed
        /\ v.record = w.record /\ v.ops = w.ops /\ v.op = w.op /\ v.left = w.left
        /\ v.uid = w.uid /\ v.size = w.size
    BY <1>1 DEF IsWork
  <2> HIDE DEF v
  <2> QED BY <2>1, <2>2, <2>3 DEF Goer, w, account, asked
<1> QED BY <1>2, <1>3

LEMMA SuloginAnswerFacts ==
  ASSUME Base, NEW p \in Procs, SuloginAnswer(p)
  PROVE  LET w == work[p] IN
         \/ Exits(p) \/ Goes(p, "look")
         \/ \E v, typed :
              /\ Moves(p, v) /\ Goer(w, v)
              /\ typed \in Secrets \ {""}
              /\ Valid(typed, w.asked)
              /\ v.typed = typed
              /\ v.at = "open"
              /\ v.name = w.name /\ v.preauth = w.preauth /\ v.account = w.account /\ v.asked = w.asked
              /\ v.failed = w.failed /\ v.record = w.record /\ v.ops = w.ops /\ v.op = w.op
              /\ v.left = w.left /\ v.uid = w.uid /\ v.size = w.size
<1> DEFINE w == work[p]
<1>1. IsWork(w)
  BY DEF Base
<1>2. CASE Exits(p) \/ Goes(p, "look")
  BY <1>2
<1>3. CASE ~ (Exits(p) \/ Goes(p, "look"))
  <2>1. PICK typed :
          /\ typed \in Secrets \ {""}
          /\ Valid(typed, w.asked)
          /\ Moves(p, [w EXCEPT !.typed = typed,
                            !.at = "open"])
    BY <1>3 DEF SuloginAnswer, Goes
  <2> DEFINE v == [w EXCEPT !.typed = typed,
                            !.at = "open"]
  <2>2. Moves(p, v)
    BY <2>1
  <2> HIDE DEF w
  <2>3. /\ IsWork(v) /\ v.job = w.job /\ v.pid = w.pid
        /\ v.typed = typed
        /\ v.at = "open"
        /\ v.name = w.name /\ v.preauth = w.preauth /\ v.account = w.account /\ v.asked = w.asked
        /\ v.failed = w.failed /\ v.record = w.record /\ v.ops = w.ops /\ v.op = w.op
        /\ v.left = w.left /\ v.uid = w.uid /\ v.size = w.size
    BY <1>1 DEF IsWork
  <2> HIDE DEF v
  <2> QED BY <2>1, <2>2, <2>3 DEF Goer, w
<1> QED BY <1>2, <1>3

LEMMA NextOptionFacts ==
  ASSUME Base, NEW p \in Procs, NextOption(p)
  PROVE  LET w == work[p] IN
         \/ Exits(p)
         \/ \E v :
              /\ Moves(p, v) /\ Goer(w, v)
              /\ w.ops # <<>>
              /\ v.at = "maintain"
              /\ v.op = Head(w.ops)
              /\ v.ops = Tail(w.ops)
              /\ v.left = SelectedUids(Head(w.ops).do, w.job.range, w.job.all, w.size, {accounts[n].uid : n \in DOMAIN accounts})
              /\ v.name = w.name /\ v.preauth = w.preauth /\ v.account = w.account /\ v.asked = w.asked
              /\ v.typed = w.typed /\ v.failed = w.failed /\ v.record = w.record /\ v.uid = w.uid
              /\ v.size = w.size
<1> DEFINE w == work[p]
<1>1. IsWork(w)
  BY DEF Base
<1>2. CASE Exits(p)
  BY <1>2
<1>3. CASE ~ (Exits(p))
  <2>1. /\ Moves(p, [w EXCEPT !.at = "maintain",
                            !.op = Head(w.ops),
                            !.ops = Tail(w.ops),
                            !.left = SelectedUids(Head(w.ops).do, w.job.range, w.job.all, w.size, {accounts[n].uid : n \in DOMAIN accounts})])
        /\ w.ops # <<>>
    BY <1>3 DEF NextOption
  <2> DEFINE op == Head(w.ops)
             ops == Tail(w.ops)
             left == SelectedUids(Head(w.ops).do, w.job.range, w.job.all, w.size, {accounts[n].uid : n \in DOMAIN accounts})
             v == [w EXCEPT !.at = "maintain",
                            !.op = op,
                            !.ops = ops,
                            !.left = left]
  <2>2. Moves(p, v)
    BY <2>1
  <2> HIDE DEF w, op, ops, left
  <2>3. /\ IsWork(v) /\ v.job = w.job /\ v.pid = w.pid
        /\ v.at = "maintain"
        /\ v.op = op
        /\ v.ops = ops
        /\ v.left = left
        /\ v.name = w.name /\ v.preauth = w.preauth /\ v.account = w.account /\ v.asked = w.asked
        /\ v.typed = w.typed /\ v.failed = w.failed /\ v.record = w.record /\ v.uid = w.uid
        /\ v.size = w.size
    BY <1>1 DEF IsWork
  <2> HIDE DEF v
  <2> QED BY <2>1, <2>2, <2>3 DEF Goer, w, op, ops, left
<1> QED BY <1>2, <1>3

LEMMA MaintainWritesFacts ==
  ASSUME Base, NEW p \in Procs, MaintainRead(p)
  PROVE  LET w == work[p] IN
         \/ Goes(p, "options") \/ \E uid \in w.left : Moves(p, [w EXCEPT !.left = @ \ {uid}])
         \/ \E v, uid :
              /\ Moves(p, v) /\ Goer(w, v)
              /\ uid \in w.left
              /\ v.left = w.left \ {uid}
              /\ v.at = "write"
              /\ v.uid = uid
              /\ v.record = (IF uid < w.size THEN Record(faillog, uid) ELSE NoRecord)
              /\ v.name = w.name /\ v.preauth = w.preauth /\ v.account = w.account /\ v.asked = w.asked
              /\ v.typed = w.typed /\ v.failed = w.failed /\ v.ops = w.ops /\ v.op = w.op
              /\ v.size = w.size
<1> DEFINE w == work[p]
<1>1. IsWork(w)
  BY DEF Base
<1>2. CASE Goes(p, "options") \/ \E uid \in w.left : Moves(p, [w EXCEPT !.left = @ \ {uid}])
  BY <1>2
<1>3. CASE ~ (Goes(p, "options") \/ \E uid \in w.left : Moves(p, [w EXCEPT !.left = @ \ {uid}]))
  <2>1. PICK uid :
          /\ uid \in w.left
          /\ Moves(p, [w EXCEPT !.left = w.left \ {uid},
                            !.at = "write",
                            !.uid = uid,
                            !.record = (IF uid < w.size THEN Record(faillog, uid) ELSE NoRecord)])
    BY <1>3 DEF MaintainRead
  <2> DEFINE left == w.left \ {uid}
             record == (IF uid < w.size THEN Record(faillog, uid) ELSE NoRecord)
             v == [w EXCEPT !.left = left,
                            !.at = "write",
                            !.uid = uid,
                            !.record = record]
  <2>2. Moves(p, v)
    BY <2>1
  <2> HIDE DEF w, left, record
  <2>3. /\ IsWork(v) /\ v.job = w.job /\ v.pid = w.pid
        /\ v.left = left
        /\ v.at = "write"
        /\ v.uid = uid
        /\ v.record = record
        /\ v.name = w.name /\ v.preauth = w.preauth /\ v.account = w.account /\ v.asked = w.asked
        /\ v.typed = w.typed /\ v.failed = w.failed /\ v.ops = w.ops /\ v.op = w.op
        /\ v.size = w.size
    BY <1>1 DEF IsWork
  <2> HIDE DEF v
  <2> QED BY <2>1, <2>2, <2>3 DEF Goer, w, left, record
<1> QED BY <1>2, <1>3

-----------------------------------------------------------------------------
(* The shape is kept *)

LEMMA InitBase == Init => Base
<1> SUFFICES ASSUME Init PROVE Base
  OBVIOUS
<1>1. site \in Sites /\ SiteFits(site) /\ accounts = site.accounts
  BY SessionsAssumption DEF Init
<1>2. accounts \in [DOMAIN accounts -> AnyAccount]
  BY <1>1 DEF SiteFits
<1>3. had = [n \in DOMAIN accounts |-> had[n]] /\ clock \in Nat /\ started \in 0 .. MaxJobs
  BY SessionsAssumption DEF Init
<1>4. work = [p \in Procs |-> work[p]] /\ \A p \in Procs : work[p] = Idle
  BY DEF Init
<1> QED BY <1>1, <1>2, <1>3, <1>4, IdleFields DEF Base, Placed, SomeAccount

\* What a step may do to the rest.
Around ==
  /\ site' = site
  /\ accounts' \in [DOMAIN accounts' -> AnyAccount]
  /\ had' = [n \in DOMAIN accounts' |-> had'[n]]
  /\ clock' \in Nat
  /\ started' \in 0 .. MaxJobs

LEMMA BaseMoves ==
  ASSUME Base, NEW p \in Procs, NEW v, Moves(p, v), Around,
         IsWork(v), Placed(v, site.jobs), v.account \in SomeAccount
  PROVE  Base'
<1>1. /\ work' = [q \in Procs |-> work'[q]]
      /\ work'[p] = v
      /\ \A q \in Procs \ {p} : work'[q] = work[q]
  BY Moved DEF Base
<1>2. \A q \in Procs : /\ IsWork(work'[q]) /\ Placed(work'[q], site'.jobs)
                       /\ work'[q].account \in SomeAccount
  <2> TAKE q \in Procs
  <2>1. CASE q = p
    BY <1>1, <2>1 DEF Around
  <2>2. CASE q # p
    BY <1>1, <2>2 DEF Around, Base
  <2> QED BY <2>1, <2>2
<1>3. site' \in Sites
  BY DEF Base, Around
<1> QED BY <1>1, <1>2, <1>3 DEF Base, Around

LEMMA OnlyMovesAround == ASSUME Base, OnlyMoves PROVE Around
  BY DEF Base, OnlyMoves, Around, files, history

\* Where a process is tells which program it runs.
LEMMA RunsAt ==
  ASSUME Base, NEW p \in Procs, work[p].at # "nothing"
  PROVE  work[p].job \in site.jobs /\ PlaceOf(work[p].job, work[p].at)
  BY DEF Base, Placed

-----------------------------------------------------------------------------
(* SessionsEarned *)

\* What was typed is a password that the account of a name has had.
Gave(w, name, h) ==
  /\ name \in DOMAIN h
  /\ IF w.typed = None THEN NoPassword \in h[name]
     ELSE w.typed # "" /\ Hashed(w.typed) \in h[name]

\* What is asked for is one, or nothing that can be typed.
Known(password, name, h) == password.locked \/ (name \in DOMAIN h /\ password \in h[name])

MayLogin(w, s, h) ==
  /\ ~w.account.passwd.locked
  /\ w.account.uid = 0 => IsConsole(s.console, Name[w.job.line])
  /\ \/ w.job.caller = "root" /\ w.job.preauth /\ w.name = w.job.name
     \/ Gave(w, w.name, h)

MaySu(w, s, h) ==
  LET action == CheckSuAuth(s.suauth, w.job.caller, w.job.name) IN
  /\ w.name = w.job.name
  /\ \/ w.job.caller = "root"
     \/ action = "NOPASS"
     \/ action = "OWNPASS" /\ Gave(w, w.job.caller, h)
     \/ action = "NOACTION" /\ Gave(w, w.name, h)

WillSu(w, s, h) ==
  LET action == CheckSuAuth(s.suauth, w.job.caller, w.job.name) IN
  /\ w.name = w.job.name
  /\ \/ action = "NOPASS"
     \/ action = "OWNPASS" /\ Known(w.asked, w.job.caller, h)
     \/ action = "NOACTION" /\ Known(w.asked, w.name, h)

InGroup(w) ==
  EarnedGroup([job |-> w.job, account |-> w.account, typed |-> w.typed, gid |-> Groups[w.job.group].gid])

Sound(w, s, h) ==
  /\ PlaceOf(w.job, w.at) /\ w.job.tool = "login" =>
       /\ w.preauth => w.job.preauth /\ w.job.caller = "root" /\ w.name = w.job.name
       /\ w.at = "answer" => /\ w.account.passwd.locked => w.failed
                             /\ Known(w.asked, w.name, h)
       /\ w.at = "check" /\ ~w.failed => MayLogin(w, s, h)
       /\ w.at \in {"reset", "enter", "aged", "limits", "open"} => MayLogin(w, s, h)
  /\ PlaceOf(w.job, w.at) /\ w.job.tool = "su" =>
       /\ ~w.preauth
       /\ w.at = "permission" => w.name = w.job.name
       /\ w.at = "password" => WillSu(w, s, h)
       /\ w.at \in {"aged", "hour", "limits", "open"} => MaySu(w, s, h)
  /\ PlaceOf(w.job, w.at) /\ w.job.tool = "newgrp" =>
       /\ w.job.group \in DOMAIN Groups
       /\ w.at = "password" =>
            \E found \in MatchingGroups(w.job.caller, w.job.group) :
              w.asked = GroupEntry(found, w.job.group).passwd
       /\ w.at = "open" => InGroup(w)
  /\ PlaceOf(w.job, w.at) /\ w.job.tool = "sulogin" =>
       /\ w.at = "answer" => Known(w.asked, "root", h)
       /\ w.at = "open" => w.typed # None /\ Gave(w, "root", h)

SoundSession(x, s, h) ==
  /\ x.job \in s.jobs
  /\ \/ x.job.tool = "login" /\ MayLogin(x, s, h)
     \/ /\ x.job.tool = "su" /\ MaySu(x, s, h)
        /\ x.shell = "given" => x.job.caller = "root" \/ ~x.account.restricted
     \/ x.job.tool = "newgrp" /\ EarnedGroup(x)
     \/ x.job.tool = "sulogin" /\ x.typed # None /\ Gave(x, "root", h)

EarnInv ==
  /\ \A n \in DOMAIN accounts : \A password \in Passwords(accounts[n]) : Known(password, n, had)
  /\ \A p \in Procs : Sound(work[p], site, had)
  /\ \A x \in sessions : SoundSession(x, site, had)

Grows(h, g) == DOMAIN g = DOMAIN h /\ \A n \in DOMAIN h : h[n] \subseteq g[n]

LEMMA GrowsKeeps ==
  ASSUME NEW w, NEW s, NEW h, NEW g, Grows(h, g)
  PROVE  /\ \A name : Gave(w, name, h) => Gave(w, name, g)
         /\ \A password, name : Known(password, name, h) => Known(password, name, g)
         /\ Sound(w, s, h) => Sound(w, s, g)
         /\ SoundSession(w, s, h) => SoundSession(w, s, g)
<1>1. \A name : Gave(w, name, h) => Gave(w, name, g)
  BY DEF Grows, Gave
<1>2. \A password, name : Known(password, name, h) => Known(password, name, g)
  BY DEF Grows, Known
<1>3. MayLogin(w, s, h) => MayLogin(w, s, g)
  BY <1>1 DEF MayLogin
<1>4. MaySu(w, s, h) => MaySu(w, s, g)
  BY <1>1 DEF MaySu
<1>5. WillSu(w, s, h) => WillSu(w, s, g)
  BY <1>2 DEF WillSu
<1>6. Sound(w, s, h) => Sound(w, s, g)
  BY <1>1, <1>2, <1>3, <1>4, <1>5 DEF Sound
<1>7. SoundSession(w, s, h) => SoundSession(w, s, g)
  BY <1>1, <1>3, <1>4 DEF SoundSession
<1> QED BY <1>1, <1>2, <1>6, <1>7

LEMMA EarnMoves ==
  ASSUME Base, EarnInv, NEW p \in Procs, NEW v, Moves(p, v), site' = site, Grows(had, had'),
         Sound(v, site, had'),
         \A n \in DOMAIN accounts' : \A password \in Passwords(accounts'[n]) : Known(password, n, had'),
         \A x \in sessions' : x \in sessions \/ SoundSession(x, site, had')
  PROVE  EarnInv'
<1>1. /\ work'[p] = v
      /\ \A q \in Procs \ {p} : work'[q] = work[q]
  BY Moved DEF Base
<1>2. \A q \in Procs : Sound(work'[q], site', had')
  <2> TAKE q \in Procs
  <2>1. CASE q = p
    BY <1>1, <2>1
  <2>2. CASE q # p
    BY <1>1, <2>2, GrowsKeeps DEF EarnInv
  <2> QED BY <2>1, <2>2
<1>3. \A x \in sessions' : SoundSession(x, site', had')
  BY GrowsKeeps DEF EarnInv
<1> QED BY <1>2, <1>3 DEF EarnInv, Passwords

\* Most steps leave the accounts and the sessions as they are.
Quiet == UNCHANGED <<site, accounts, clock, started, had, sessions>>

LEMMA QuietAround == ASSUME Base, Quiet PROVE Around /\ Grows(had, had')
  BY DEF Base, Quiet, Around, Grows

LEMMA OnlyMovesQuiet == ASSUME OnlyMoves PROVE Quiet
  BY DEF OnlyMoves, Quiet, files, history

LEMMA QuietMove ==
  ASSUME Base, EarnInv, NEW p \in Procs, NEW v, Moves(p, v), Quiet,
         IsWork(v), Placed(v, site.jobs), v.account \in SomeAccount, Sound(v, site, had)
  PROVE  Base' /\ EarnInv'
<1>1. Base'
  BY QuietAround, BaseMoves
<1>2. \A n \in DOMAIN accounts' : \A password \in Passwords(accounts'[n]) : Known(password, n, had')
  BY DEF EarnInv, Passwords, Quiet
<1>3. site' = site /\ had' = had /\ sessions' = sessions /\ Grows(had, had')
  BY QuietAround DEF Quiet
<1>4. Sound(v, site, had')
  BY <1>3
<1> QED BY <1>1, <1>2, <1>3, <1>4, EarnMoves

LEMMA QuietExit ==
  ASSUME Base, EarnInv, NEW p \in Procs, Exits(p), Quiet
  PROVE  Base' /\ EarnInv'
<1>1. Moves(p, Idle) /\ IsWork(Idle) /\ Placed(Idle, site.jobs) /\ Idle.account \in SomeAccount
  BY IdleFields DEF Exits, Placed, SomeAccount
<1>2. Sound(Idle, site, had)
  BY IdleFields DEF Sound, PlaceOf
<1> QED BY <1>1, <1>2, QuietMove

LEMMA QuietGo ==
  ASSUME Base, EarnInv, NEW p \in Procs, NEW a, Goes(p, a), Quiet,
         work[p].job \in site.jobs, PlaceOf(work[p].job, a),
         \A v : Goer(work[p], v) /\ v.at = a /\ SameUser(work[p], v) => Sound(v, site, had)
  PROVE  Base' /\ EarnInv'
<1>1. PICK v : Moves(p, v) /\ Goer(work[p], v) /\ v.at = a /\ SameUser(work[p], v)
  BY Went
<1>2. IsWork(v) /\ v.account \in SomeAccount
  BY <1>1 DEF Goer, SameUser, Base
<1>3. Placed(v, site.jobs)
  BY <1>1 DEF Placed, Goer
<1> QED BY <1>1, <1>2, <1>3, QuietMove

\* Of an account that is read, every password is known.
LEMMA AskedKnown ==
  ASSUME Base, EarnInv, NEW n
  PROVE  /\ Known(AskedOf(Account(n)), n, had)
         /\ Known(Account(n).passwd, n, had)
         /\ Account(n).shadow # None => Known(Account(n).shadow, n, had)
<1>1. CASE n \in DOMAIN accounts
  BY <1>1 DEF EarnInv, Account, AskedOf, Passwords
<1>2. CASE n \notin DOMAIN accounts
  <2>1. Account(n) = Nobody
    BY <1>2 DEF Account
  <2>2. Nobody.passwd.locked /\ Nobody.shadow = None
    BY DEF Nobody, Lock, Hashed
  <2> QED BY <2>1, <2>2 DEF AskedOf, Known
<1> QED BY <1>1, <1>2

\* pw_auth: who has typed what is asked for has given a password.
LEMMA PasswordGiven ==
  ASSUME NEW w, NEW v, NEW h, NEW name, Known(w.asked, name, h), PwAuth(w.asked, v.typed),
         IF w.asked = NoPassword THEN v.typed = None ELSE v.typed \in Secrets
  PROVE  Gave(v, name, h)
<1>1. None \notin Secrets
  BY SessionsAssumption
<1>2. name \in DOMAIN h /\ w.asked \in h[name]
  <2>1. w.asked = Hashed("") \/ w.asked = Hashed(v.typed)
    BY DEF PwAuth, NoPassword
  <2>2. \A x : ~ Hashed(x).locked
    BY DEF Hashed
  <2> QED BY <2>1, <2>2 DEF Known
<1>3. CASE w.asked = NoPassword
  BY <1>2, <1>3 DEF Gave
<1>4. CASE w.asked # NoPassword
  <2>1. w.asked = Hashed(v.typed) /\ v.typed # ""
    BY <1>4 DEF PwAuth, NoPassword
  <2> QED BY <1>1, <1>2, <1>4, <2>1 DEF Gave
<1> QED BY <1>3, <1>4

-----------------------------------------------------------------------------
(* login's steps *)

LEMMA LookEarns ==
  ASSUME Base, EarnInv, NEW p \in Procs, Look(p)
  PROVE  Base' /\ EarnInv'
<1> DEFINE w == work[p]
<1>1. w.at = "look" /\ w.job.tool = "login" /\ w.job \in site.jobs /\ Sound(w, site, had)
  BY RunsAt DEF Look, At, EarnInv, PlaceOf
<1>2. Quiet
  BY OnlyMovesQuiet DEF Look, Quiet
<1>3. PICK v, name :
        /\ Moves(p, v) /\ Goer(w, v)
        /\ name \in IF w.name = None THEN site.names ELSE {w.name}
        /\ v.at = "answer" /\ v.name = name /\ v.account = Account(name)
        /\ v.asked = AskedOf(Account(name))
        /\ v.preauth = (w.preauth /\ w.name # None /\ Account(name) # Nobody)
        /\ v.failed = (Account(name).passwd.locked \/ EmptyPasswordBarred(site.prevent, Account(name)))
  BY LookFacts
<1>4. v.account \in SomeAccount
  BY <1>3, AccountType
<1> HIDE DEF w
<1>9. Sound(v, site, had)
  <3>1. v.preauth => v.job.preauth /\ v.job.caller = "root" /\ v.name = v.job.name
    BY <1>1, <1>3 DEF Sound, PlaceOf, Goer
  <3>2. v.account.passwd.locked => v.failed
    BY <1>3
  <3>3. Known(v.asked, v.name, had)
    BY <1>3, AskedKnown
  <3> QED BY <1>1, <1>3, <3>1, <3>2, <3>3 DEF Sound, Goer
<1>10. IsWork(v) /\ Placed(v, site.jobs)
  BY <1>1, <1>3 DEF Placed, PlaceOf, Goer
<1> QED BY <1>2, <1>3, <1>4, <1>9, <1>10, QuietMove

LEMMA AnswerEarns ==
  ASSUME Base, EarnInv, NEW p \in Procs, Answer(p)
  PROVE  Base' /\ EarnInv'
<1> DEFINE w == work[p]
<1>1. w.at = "answer" /\ w.job.tool = "login" /\ w.job \in site.jobs /\ Sound(w, site, had)
  BY RunsAt DEF Answer, At, EarnInv, PlaceOf
<1>2. Quiet
  BY OnlyMovesQuiet DEF Answer, Quiet
<1>3. PICK v, typed :
        /\ Moves(p, v) /\ Goer(w, v)
        /\ typed \in Typed(p)
        /\ v.at = "check" /\ v.typed = typed
        /\ v.failed = (w.failed \/ (~w.preauth /\ ~PwAuth(w.asked, typed)) \/ Refused(p))
        /\ v.name = w.name /\ v.preauth = w.preauth /\ v.account = w.account
  BY AnswerFacts
<1>4. v.account \in SomeAccount
  BY <1>3 DEF w, Base
<1> HIDE DEF w
<1>9. Sound(v, site, had)
  <3>1. w.preauth => w.job.preauth /\ w.job.caller = "root" /\ w.name = w.job.name
    BY <1>1 DEF Sound, PlaceOf
  <3>2. (w.account.passwd.locked => w.failed) /\ Known(w.asked, w.name, had)
    BY <1>1 DEF Sound, PlaceOf
  <3>3. ASSUME ~ v.failed PROVE MayLogin(v, site, had)
    <4>1. ~ v.account.passwd.locked
      BY <1>3, <3>2, <3>3
    <4>2. v.account.uid = 0 => IsConsole(site.console, Name[v.job.line])
      BY <1>3, <3>3 DEF Refused, w, Goer
    <4>3. CASE w.preauth
      BY <1>3, <3>1, <4>1, <4>2, <4>3 DEF MayLogin, Goer
    <4>4. CASE ~ w.preauth
      <5>1. PwAuth(w.asked, v.typed)
        BY <1>3, <3>3, <4>4
      <5>2. IF w.asked = NoPassword THEN v.typed = None ELSE v.typed \in Secrets
        BY <1>3, <4>4 DEF Typed, w
      <5>3. Gave(v, w.name, had)
        BY <3>2, <5>1, <5>2, PasswordGiven
      <5> QED BY <1>3, <4>1, <4>2, <5>3 DEF MayLogin
    <4> QED BY <4>3, <4>4
  <3> QED BY <1>1, <1>3, <3>1, <3>3 DEF Sound, Goer
<1>10. IsWork(v) /\ Placed(v, site.jobs)
  BY <1>1, <1>3 DEF Placed, PlaceOf, Goer
<1> QED BY <1>2, <1>3, <1>4, <1>9, <1>10, QuietMove

LEMMA FailCheckEarns ==
  ASSUME Base, EarnInv, NEW p \in Procs, FailCheck(p)
  PROVE  Base' /\ EarnInv'
<1> DEFINE w == work[p]
<1>1. w.at = "check" /\ w.job.tool = "login" /\ w.job \in site.jobs /\ Sound(w, site, had)
  BY RunsAt DEF FailCheck, At, EarnInv, PlaceOf
<1>2. Quiet
  BY OnlyMovesQuiet DEF FailCheck
<1>3. PICK v :
        /\ Moves(p, v) /\ Goer(w, v)
        /\ v.at \in {"fail", "again", "reset", "enter"}
        /\ v.at \in {"reset", "enter"} => ~w.failed
        /\ v.name = w.name /\ v.preauth = w.preauth /\ v.account = w.account /\ v.typed = w.typed
  <2>1. PICK v :
          /\ Moves(p, v) /\ Goer(w, v)
          /\ v.at = (CASE (w.failed \/ (CountsFailures(p) /\ TooManyFailures(Record(faillog, w.account.uid), clock))) -> IF CountsFailures(p) THEN "fail" ELSE "again" [] ~(w.failed \/ (CountsFailures(p) /\ TooManyFailures(Record(faillog, w.account.uid), clock))) /\ CountsFailures(p) /\ w.account.uid \in DOMAIN faillog -> "reset" [] OTHER -> "enter")
          /\ v.name = w.name /\ v.preauth = w.preauth /\ v.account = w.account /\ v.typed = w.typed
    BY FailCheckFacts
  <2>2. v.at \in {"fail", "again", "reset", "enter"} /\ (v.at \in {"reset", "enter"} => ~w.failed)
    BY <2>1
  <2> QED BY <2>1, <2>2
<1>4. v.account \in SomeAccount
  BY <1>3 DEF w, Base
<1> HIDE DEF w
<1>5. v.preauth => v.job.preauth /\ v.job.caller = "root" /\ v.name = v.job.name
  BY <1>1, <1>3 DEF Sound, PlaceOf, Goer
<1>6. v.at \in {"reset", "enter"} => MayLogin(v, site, had)
  BY <1>1, <1>3 DEF Sound, PlaceOf, Goer, MayLogin, Gave
<1>7. Sound(v, site, had)
  BY <1>1, <1>3, <1>5, <1>6 DEF Sound, Goer
<1>8. IsWork(v) /\ Placed(v, site.jobs)
  BY <1>1, <1>3 DEF Placed, PlaceOf, Goer
<1> QED BY <1>2, <1>3, <1>4, <1>7, <1>8, QuietMove

NextPlace(a, b, tool) ==
  \/ a = "reset" /\ b = "enter"
  \/ a = "count" /\ b = "again"
  \/ a = "enter" /\ b = "aged"
  \/ a = "hour" /\ b = "limits"
  \/ a = "limits" /\ b = "open"
  \/ a = "aged" /\ b = "hour" /\ tool = "su"
  \/ a = "aged" /\ b = "limits" /\ tool # "su"
  \/ a = "answer" /\ b = "look" /\ tool = "sulogin"
  \/ a \in {"options", "maintain", "write"} /\ b \in {"options", "maintain"}

\* The steps that only go on to the next place, or end.
LEMMA GoEarns ==
  ASSUME Base, EarnInv, NEW p \in Procs, NEW a, NEW b, work[p].at = a, Quiet,
         Goes(p, b) \/ Exits(p),
         NextPlace(a, b, work[p].job.tool)
  PROVE  Base' /\ EarnInv'
<1> DEFINE w == work[p]
<1>1. w.job \in site.jobs /\ PlaceOf(w.job, a) /\ Sound(w, site, had) /\ w.at = a
  BY RunsAt DEF EarnInv, NextPlace
<1>2. CASE Exits(p)
  BY <1>2, QuietExit
<1>3. CASE Goes(p, b)
  <2>1. PlaceOf(w.job, b)
    BY <1>1 DEF PlaceOf, NextPlace
  <2>2. ASSUME NEW v, Goer(w, v), v.at = b, SameUser(w, v) PROVE Sound(v, site, had)
    <3> HIDE DEF w
    <3>1. MayLogin(w, site, had) => MayLogin(v, site, had)
      BY <2>2 DEF MayLogin, Gave, Goer, SameUser
    <3>2. MaySu(w, site, had) => MaySu(v, site, had)
      BY <2>2 DEF MaySu, Gave, Goer, SameUser
    <3>3. CASE w.job.tool = "login"
      <4>1. v.preauth => v.job.preauth /\ v.job.caller = "root" /\ v.name = v.job.name
        BY <1>1, <2>2, <3>3 DEF Sound, Goer, SameUser
      <4>2. v.at \in {"reset", "enter", "aged", "limits", "open"} => MayLogin(v, site, had)
        BY <1>1, <2>2, <3>1, <3>3 DEF Sound, w, PlaceOf, NextPlace
      <4>3. v.at # "answer" /\ v.at # "check"
        BY <2>2 DEF NextPlace
      <4> QED BY <2>2, <3>3, <4>1, <4>2, <4>3 DEF Sound, Goer
    <3>4. CASE w.job.tool = "su"
      <4>1. ~v.preauth
        BY <1>1, <2>2, <3>4 DEF Sound, SameUser
      <4>2. v.at \in {"aged", "hour", "limits", "open"} => MaySu(v, site, had)
        BY <1>1, <2>2, <3>2, <3>4 DEF Sound, w, PlaceOf, NextPlace
      <4>3. v.at # "permission" /\ v.at # "password"
        BY <2>2 DEF NextPlace
      <4> QED BY <2>2, <3>4, <4>1, <4>2, <4>3 DEF Sound, Goer
    <3>5. CASE w.job.tool \notin {"login", "su"}
      <4>1. v.at \notin {"password", "open", "answer"} \/ ~PlaceOf(v.job, v.at)
        BY <1>1, <2>2, <3>5 DEF PlaceOf, Goer, w, NextPlace
      <4> QED BY <1>1, <2>2, <3>5, <4>1 DEF Sound, Goer, PlaceOf
    <3> QED BY <3>3, <3>4, <3>5
  <2> QED BY <1>1, <1>3, <2>1, <2>2, QuietGo
<1> QED BY <1>2, <1>3

LEMMA ClearCountEarns ==
  ASSUME Base, EarnInv, NEW p \in Procs, ClearCount(p)
  PROVE  Base' /\ EarnInv'
<1>1. Quiet
  BY DEF ClearCount, Quiet, WritesRecord
<1>2. work[p].at = "reset" /\ (Goes(p, "enter") \/ Exits(p))
  BY DEF ClearCount, At
<1>3. NextPlace("reset", "enter", work[p].job.tool)
  BY DEF NextPlace
<1> QED BY <1>1, <1>2, <1>3, GoEarns

LEMMA FailureWriteEarns ==
  ASSUME Base, EarnInv, NEW p \in Procs, FailureWrite(p)
  PROVE  Base' /\ EarnInv'
<1>1. Quiet
  BY DEF FailureWrite, Quiet, WritesRecord
<1>2. work[p].at = "count" /\ (Goes(p, "again") \/ Exits(p))
  BY DEF FailureWrite, At
<1>3. NextPlace("count", "again", work[p].job.tool)
  BY DEF NextPlace
<1> QED BY <1>1, <1>2, <1>3, GoEarns

LEMMA MaintainWriteEarns ==
  ASSUME Base, EarnInv, NEW p \in Procs, MaintainWrite(p)
  PROVE  Base' /\ EarnInv'
<1>1. Quiet
  BY DEF MaintainWrite, Quiet, WritesRecord
<1>2. work[p].at = "write" /\ (Goes(p, "maintain") \/ Exits(p))
  BY DEF MaintainWrite, At
<1>3. NextPlace("write", "maintain", work[p].job.tool)
  BY DEF NextPlace
<1> QED BY <1>1, <1>2, <1>3, GoEarns

LEMMA EnterEarns ==
  ASSUME Base, EarnInv, NEW p \in Procs, Enter(p)
  PROVE  Base' /\ EarnInv'
<1>1. Quiet
  BY OnlyMovesQuiet DEF Enter, Quiet
<1>2. work[p].at = "enter" /\ (Goes(p, "aged") \/ Exits(p))
  BY DEF Enter, At
<1>3. NextPlace("enter", "aged", work[p].job.tool)
  BY DEF NextPlace
<1> QED BY <1>1, <1>2, <1>3, GoEarns

LEMMA LimitsEarns ==
  ASSUME Base, EarnInv, NEW p \in Procs, Limits(p)
  PROVE  Base' /\ EarnInv'
<1>1. Quiet
  BY OnlyMovesQuiet DEF Limits, Quiet
<1>2. work[p].at = "limits" /\ (Goes(p, "open") \/ Exits(p))
  BY DEF Limits, At
<1>3. NextPlace("limits", "open", work[p].job.tool)
  BY DEF NextPlace
<1> QED BY <1>1, <1>2, <1>3, GoEarns

LEMMA SuHourEarns ==
  ASSUME Base, EarnInv, NEW p \in Procs, SuHour(p)
  PROVE  Base' /\ EarnInv'
<1>1. Quiet
  BY OnlyMovesQuiet DEF SuHour, Quiet
<1>2. work[p].at = "hour" /\ (Goes(p, "limits") \/ Exits(p))
  BY DEF SuHour, At
<1>3. NextPlace("hour", "limits", work[p].job.tool)
  BY DEF NextPlace
<1> QED BY <1>1, <1>2, <1>3, GoEarns

LEMMA TimesOutEarns ==
  ASSUME Base, EarnInv, NEW p \in Procs, TimesOut(p)
  PROVE  Base' /\ EarnInv'
<1>1. Quiet /\ Exits(p)
  BY OnlyMovesQuiet DEF TimesOut
<1> QED BY <1>1, QuietExit

LEMMA FailureReadEarns ==
  ASSUME Base, EarnInv, NEW p \in Procs, FailureRead(p)
  PROVE  Base' /\ EarnInv'
<1> DEFINE w == work[p]
<1>1. w.at = "fail" /\ w.job.tool = "login" /\ w.job \in site.jobs /\ Sound(w, site, had)
  BY RunsAt DEF FailureRead, At, EarnInv, PlaceOf
<1>2. Quiet
  BY OnlyMovesQuiet DEF FailureRead
<1>3. PICK v :
        /\ Moves(p, v) /\ Goer(w, v) /\ v.at = "count"
        /\ v.name = w.name /\ v.preauth = w.preauth /\ v.account = w.account
  BY FailureReadFacts
<1>4. v.account \in SomeAccount
  BY <1>3 DEF Base
<1> HIDE DEF w
<1>5. Sound(v, site, had)
  BY <1>1, <1>3 DEF Sound, PlaceOf, Goer
<1>6. IsWork(v) /\ Placed(v, site.jobs)
  BY <1>1, <1>3 DEF Placed, PlaceOf, Goer
<1> QED BY <1>2, <1>3, <1>4, <1>5, <1>6, QuietMove

LEMMA AgainEarns ==
  ASSUME Base, EarnInv, NEW p \in Procs, Again(p)
  PROVE  Base' /\ EarnInv'
<1> DEFINE w == work[p]
<1>1. w.at = "again" /\ w.job.tool = "login" /\ w.job \in site.jobs /\ Sound(w, site, had)
  BY RunsAt DEF Again, At, EarnInv, PlaceOf
<1>2. Quiet
  BY OnlyMovesQuiet DEF Again
<1>3. CASE Exits(p)
  BY <1>2, <1>3, QuietExit
<1>4. CASE ~Exits(p)
  <2>1. PICK v :
          /\ Moves(p, v) /\ Goer(w, v) /\ ~w.job.preauth /\ v.at = "look"
          /\ v.preauth = w.preauth /\ v.account = w.account
    BY <1>4, AgainFacts
  <2>2. v.account \in SomeAccount
    BY <2>1 DEF Base
  <2> HIDE DEF w
  <2>3. ~v.preauth
    BY <1>1, <2>1 DEF Sound, PlaceOf
  <2>4. Sound(v, site, had)
    BY <1>1, <2>1, <2>3 DEF Sound, PlaceOf, Goer
  <2>5. IsWork(v) /\ Placed(v, site.jobs)
    BY <1>1, <2>1 DEF Placed, PlaceOf, Goer
  <2> QED BY <1>2, <2>1, <2>2, <2>4, <2>5, QuietMove
<1> QED BY <1>3, <1>4

LEMMA AgeType ==
  ASSUME NEW age \in [AgeFields -> Int], NEW day \in Nat
  PROVE  [age EXCEPT !["lstchg"] = day] \in [AgeFields -> Int]
<1>1. PICK f : f = "lstchg"
  OBVIOUS
<1>2. day \in Int
  OBVIOUS
<1>3. [age EXCEPT ![f] = day] \in [AgeFields -> Int]
  BY <1>2
<1>4. [age EXCEPT !["lstchg"] = day] = [age EXCEPT ![f] = day]
  BY <1>1, Zenon
<1> QED BY <1>3, <1>4

\* expire may give the account a password, and then it has been the account's.
LEMMA ExpireEarns ==
  ASSUME Base, EarnInv, NEW p \in Procs, Expire(p)
  PROVE  Base' /\ EarnInv'
<1> DEFINE w == work[p]
<1>1. /\ w.at = "aged" /\ w.job.tool \in {"login", "su"} /\ w.job \in site.jobs
      /\ Sound(w, site, had)
  BY RunsAt DEF Expire, At, EarnInv, PlaceOf
<1>2. /\ site' = site /\ clock' = clock /\ started' = started /\ sessions' = sessions
      /\ Goes(p, AfterAge(p)) \/ Exits(p)
  BY DEF Expire
<1>3. CASE accounts' = accounts /\ had' = had
  <2>1. Quiet
    BY <1>2, <1>3 DEF Quiet
  <2>2. AfterAge(p) = (IF w.job.tool = "su" THEN "hour" ELSE "limits")
    BY DEF AfterAge
  <2>3. NextPlace("aged", AfterAge(p), work[p].job.tool)
    BY <2>2 DEF NextPlace
  <2> QED BY <1>1, <1>2, <2>1, <2>3, GoEarns
<1>4. CASE ~(accounts' = accounts /\ had' = had)
  <2>1. PICK secret \in Secrets \ {"", "x"} :
          /\ Account(w.name).shadow # None
          /\ accounts' = [accounts EXCEPT ![w.name].shadow = Hashed(secret),
                                          ![w.name].age["lstchg"] = clock]
          /\ had' = [had EXCEPT ![w.name] = @ \cup {Hashed(secret)}]
          /\ Goes(p, AfterAge(p))
    BY <1>4 DEF Expire
  <2>2. w.name \in DOMAIN accounts
    BY <2>1 DEF Account, Nobody
  <2> DEFINE n == w.name
             new == [accounts[n] EXCEPT !.shadow = Hashed(secret), !.age["lstchg"] = clock]
  <2>3. accounts[n] \in AnyAccount /\ clock \in Nat /\ Hashed(secret) \in AnyPassword
    BY <2>2, SessionsAssumption DEF Base, Hashed, AnyPassword
  <2>4. accounts' = [accounts EXCEPT ![n] = new]
    BY <2>1, <2>2, <2>3 DEF Base, AnyAccount
  <2>5. new \in AnyAccount /\ Passwords(new) \subseteq Passwords(accounts[n]) \cup {Hashed(secret)}
    <3> DEFINE a == accounts[n]
               age == [a.age EXCEPT !["lstchg"] = clock]
    <3>0. a.age \in [AgeFields -> Int]
      BY <2>3 DEF AnyAccount
    <3>1. age \in [AgeFields -> Int]
      BY <2>3, <3>0, AgeType
    <3>2. new = [a EXCEPT !.shadow = Hashed(secret), !.age = age]
      OBVIOUS
    <3> HIDE DEF age, a
    <3>3. a \in AnyAccount
      BY <2>3 DEF a
    <3>4. [a EXCEPT !.shadow = Hashed(secret), !.age = age] \in AnyAccount
      BY <2>3, <3>1, <3>3 DEF AnyAccount
    <3>5. /\ [a EXCEPT !.shadow = Hashed(secret), !.age = age].passwd = a.passwd
          /\ [a EXCEPT !.shadow = Hashed(secret), !.age = age].shadow = Hashed(secret)
      BY <3>3 DEF AnyAccount
    <3> HIDE DEF new
    <3> QED BY <3>2, <3>4, <3>5 DEF Passwords, a
  <2> HIDE DEF new, n
  <2>6. accounts' \in [DOMAIN accounts -> AnyAccount] /\ DOMAIN accounts' = DOMAIN accounts
    BY <2>2, <2>4, <2>5 DEF Base, n
  <2>7. Grows(had, had') /\ had' = [m \in DOMAIN accounts |-> had'[m]]
    BY <2>1 DEF Grows, Base, n
  <2>8. Around
    BY <1>2, <2>6, <2>7 DEF Around, Base
  <2>9. \A m \in DOMAIN accounts' : \A password \in Passwords(accounts'[m]) : Known(password, m, had')
    <3> TAKE m \in DOMAIN accounts'
    <3> TAKE password \in Passwords(accounts'[m])
    <3>1. CASE m # n
      BY <2>4, <2>6, <2>7, <3>1, GrowsKeeps DEF EarnInv
    <3>2. CASE m = n /\ password # Hashed(secret)
      <4>1. Known(password, n, had)
        BY <2>2, <2>4, <2>5, <3>2 DEF EarnInv, n
      <4> QED BY <2>7, <3>2, <4>1, GrowsKeeps
    <3>3. CASE m = n /\ password = Hashed(secret)
      <4>1. n \in DOMAIN had /\ password \in had'[n]
        BY <2>1, <2>2, <3>3 DEF Base, n
      <4> QED BY <2>7, <3>3, <4>1 DEF Known, Grows
    <3> QED BY <3>1, <3>2, <3>3
  <2>10. PICK v : Moves(p, v) /\ Goer(w, v) /\ v.at = AfterAge(p) /\ SameUser(w, v)
    BY <2>1, Went
  <2>11. AfterAge(p) = (IF w.job.tool = "su" THEN "hour" ELSE "limits")
    BY DEF AfterAge
  <2>12. IsWork(v) /\ v.account \in SomeAccount /\ Placed(v, site.jobs)
    BY <1>1, <2>10, <2>11 DEF Goer, SameUser, Base, Placed, PlaceOf
  <2> HIDE DEF w
  <2>13. Sound(v, site, had)
    <3>1. CASE w.job.tool = "login"
      <4>1. MayLogin(v, site, had)
        BY <1>1, <2>10, <3>1 DEF Sound, PlaceOf, MayLogin, Gave, Goer, SameUser
      <4>2. v.preauth => v.job.preauth /\ v.job.caller = "root" /\ v.name = v.job.name
        BY <1>1, <2>10, <3>1 DEF Sound, PlaceOf, Goer, SameUser
      <4> QED BY <2>10, <2>11, <3>1, <4>1, <4>2 DEF Sound, Goer
    <3>2. CASE w.job.tool = "su"
      <4>1. MaySu(v, site, had)
        BY <1>1, <2>10, <3>2 DEF Sound, PlaceOf, MaySu, Gave, Goer, SameUser
      <4>2. ~v.preauth
        BY <1>1, <2>10, <3>2 DEF Sound, PlaceOf, SameUser
      <4> QED BY <2>10, <2>11, <3>2, <4>1, <4>2 DEF Sound, Goer
    <3> QED BY <1>1, <3>1, <3>2
  <2>14. Sound(v, site, had')
    BY <2>7, <2>13, GrowsKeeps
  <2>15. Base'
    BY <2>8, <2>10, <2>12, BaseMoves
  <2>16. EarnInv'
    BY <1>2, <2>7, <2>9, <2>10, <2>14, EarnMoves
  <2> QED BY <2>15, <2>16
<1> QED BY <1>3, <1>4

-----------------------------------------------------------------------------
(* su's steps *)

LEMMA NatMin ==
  ASSUME NEW T \in SUBSET Nat, T # {}
  PROVE  Min(T) \in T /\ \A y \in T : Min(T) <= y
<1> DEFINE R == OpToRel(<, Nat)
<1>1. IsWellFoundedOn(R, Nat)
  BY NatLessThanWellFounded
<1>2. \A x, y \in Nat : <<x, y>> \in R <=> x < y
  BY DEF OpToRel
<1> HIDE DEF R
<1>3. PICK x \in T : \A y \in T : ~ (<<y, x>> \in R)
  BY <1>1, WFMin
<1>4. \A y \in T : x <= y
  <2> TAKE y \in T
  <2>1. x \in Nat /\ y \in Nat
    OBVIOUS
  <2>2. ~ (<<y, x>> \in R)
    BY <1>3
  <2> QED BY <1>2, <2>1, <2>2
<1> QED BY <1>4 DEF Min

\* The line that decides is one of those for the two users.
LEMMA SuAuthAnswers ==
  ASSUME Base, NEW caller, NEW wanted
  PROVE  CheckSuAuth(site.suauth, caller, wanted) \in {"DENY", "NOACTION", "NOPASS", "OWNPASS"}
<1> DEFINE table == site.suauth
           lines == SuLines(table, caller, wanted)
<1>1. CASE table = Unreadable \/ lines = {}
  BY <1>1 DEF CheckSuAuth
<1>2. CASE table # Unreadable /\ lines # {}
  <2>1. lines \in SUBSET Nat
    BY <1>2, SessionsAssumption DEF Base, SiteFits, SuLines
  <2> HIDE DEF lines
  <2>2. Min(lines) \in lines
    BY <1>2, <2>1, NatMin
  <2>3. table[Min(lines)].action \in SuActions
    BY <2>2 DEF lines, SuLines
  <2>4. CheckSuAuth(table, caller, wanted) = table[Min(lines)].action
    BY <1>2 DEF CheckSuAuth, lines
  <2> QED BY <2>3, <2>4 DEF SuActions
<1> QED BY <1>1, <1>2

LEMMA SuPermissionEarns ==
  ASSUME Base, EarnInv, NEW p \in Procs, SuPermission(p)
  PROVE  Base' /\ EarnInv'
<1> DEFINE w == work[p]
           action == CheckSuAuth(site.suauth, w.job.caller, w.job.name)
<1>1. w.at = "permission" /\ w.job.tool = "su" /\ w.job \in site.jobs /\ Sound(w, site, had)
  BY RunsAt DEF SuPermission, At, EarnInv, PlaceOf
<1>2. Quiet
  BY OnlyMovesQuiet DEF SuPermission
<1>3. CASE Exits(p)
  BY <1>2, <1>3, QuietExit
<1>4. CASE ~Exits(p)
  <2>1. PICK v :
          /\ Moves(p, v) /\ Goer(w, v)
          /\ w.job.caller = "root" \/ action # "DENY"
          /\ v.account = Account(w.job.name)
          /\ v.asked = (IF w.job.caller = "root" THEN NoPassword
                        ELSE PasswordOfSu(action, w.job.caller, w.job.name))
          /\ v.at = (IF w.job.caller = "root" THEN "limits" ELSE "password")
          /\ v.name = w.name /\ v.preauth = w.preauth
    BY <1>4, SuPermissionFacts
  <2>2. v.account \in SomeAccount
    BY <2>1, AccountType
  <2>3. action \in {"DENY", "NOACTION", "NOPASS", "OWNPASS"}
    BY SuAuthAnswers
  <2> HIDE DEF w
  <2>4. ~v.preauth /\ v.name = v.job.name /\ v.job = w.job
    BY <1>1, <2>1 DEF Sound, PlaceOf, Goer
  <2>5. CASE w.job.caller = "root"
    <3>1. MaySu(v, site, had)
      BY <2>4, <2>5 DEF MaySu
    <3> QED BY <1>1, <1>2, <2>1, <2>2, <2>4, <2>5, <3>1, QuietMove
            DEF Sound, Placed, PlaceOf, Goer
  <2>6. CASE w.job.caller # "root"
    <3>1. WillSu(v, site, had)
      <4>1. CASE action = "NOPASS"
        BY <2>4, <4>1 DEF WillSu
      <4>2. CASE action = "OWNPASS"
        <5>1. v.asked = AskedOf(Account(w.job.caller))
          BY <2>1, <2>6, <4>2 DEF PasswordOfSu
        <5> QED BY <2>4, <4>2, <5>1, AskedKnown DEF WillSu
      <4>3. CASE action = "NOACTION"
        <5>1. v.asked = AskedOf(Account(w.job.name))
          BY <2>1, <2>6, <4>3 DEF PasswordOfSu
        <5> QED BY <2>4, <4>3, <5>1, AskedKnown DEF WillSu
      <4> QED BY <2>1, <2>3, <2>6, <4>1, <4>2, <4>3
    <3> QED BY <1>1, <1>2, <2>1, <2>2, <2>4, <2>6, <3>1, QuietMove
            DEF Sound, Placed, PlaceOf, Goer
  <2> QED BY <2>5, <2>6
<1> QED BY <1>3, <1>4

LEMMA SuPasswordEarns ==
  ASSUME Base, EarnInv, NEW p \in Procs, SuPassword(p)
  PROVE  Base' /\ EarnInv'
<1> DEFINE w == work[p]
<1>1. w.at = "password" /\ w.job.tool = "su" /\ w.job \in site.jobs /\ Sound(w, site, had)
  BY RunsAt DEF SuPassword, At, EarnInv, PlaceOf
<1>2. Quiet
  BY OnlyMovesQuiet DEF SuPassword
<1>3. CASE Exits(p)
  BY <1>2, <1>3, QuietExit
<1>4. CASE ~Exits(p)
  <2>1. PICK v, typed :
          /\ Moves(p, v) /\ Goer(w, v)
          /\ typed \in Typed(p) /\ PwAuth(w.asked, typed) /\ v.typed = typed
          /\ v.at = "aged" /\ v.name = w.name /\ v.preauth = w.preauth /\ v.account = w.account
    BY <1>4, SuPasswordFacts
  <2>2. v.account \in SomeAccount
    BY <2>1 DEF Base
  <2>3. ~w.preauth
    BY <1>1 DEF Sound, PlaceOf
  <2>4. IF w.asked = NoPassword THEN v.typed = None ELSE v.typed \in Secrets
    BY <2>1, <2>3 DEF Typed
  <2> HIDE DEF w
  <2>5. \A name : Known(w.asked, name, had) => Gave(v, name, had)
    BY <2>1, <2>4, PasswordGiven
  <2>6. MaySu(v, site, had)
    BY <1>1, <2>1, <2>5 DEF Sound, PlaceOf, WillSu, MaySu, Goer
  <2>7. Sound(v, site, had)
    BY <1>1, <2>1, <2>3, <2>6 DEF Sound, Goer
  <2>8. IsWork(v) /\ Placed(v, site.jobs)
    BY <1>1, <2>1 DEF Placed, PlaceOf, Goer
  <2> QED BY <1>2, <2>1, <2>2, <2>7, <2>8, QuietMove
<1> QED BY <1>3, <1>4

-----------------------------------------------------------------------------
(* newgrp's steps *)

LEMMA Matching ==
  ASSUME NEW user, NEW group \in DOMAIN Groups, NEW found \in MatchingGroups(user, group)
  PROVE  /\ found \in DOMAIN Groups /\ Groups[found].gid = Groups[group].gid
         /\ found = group \/ user \in Members(found)
  BY DEF MatchingGroups

LEMMA NewgrpPermissionEarns ==
  ASSUME Base, EarnInv, NEW p \in Procs, NewgrpPermission(p)
  PROVE  Base' /\ EarnInv'
<1> DEFINE w == work[p]
           job == w.job
           member == Groups[job.group].gid \in job.gids
<1>1. w.at = "group" /\ job.tool = "newgrp" /\ job \in site.jobs /\ Sound(w, site, had)
  BY RunsAt DEF NewgrpPermission, At, EarnInv, PlaceOf
<1>2. Quiet
  BY OnlyMovesQuiet DEF NewgrpPermission
<1>3. PICK v, found :
        /\ Moves(p, v) /\ Goer(w, v)
        /\ found \in IF member THEN {job.group} ELSE MatchingGroups(job.caller, job.group)
        /\ v.account = Account(job.caller)
        /\ v.asked = GroupEntry(found, job.group).passwd
        /\ v.at = IF ~member /\ job.caller # "root"
                       /\ NeedsGroupPassword(GroupEntry(found, job.group), job.caller, v.account)
                  THEN "password" ELSE "open"
  <2>1. PICK v, found :
        /\ Moves(p, v) /\ Goer(w, v)
        /\ found \in IF member THEN {job.group} ELSE MatchingGroups(job.caller, job.group)
        /\ v.account = Account(job.caller)
        /\ v.asked = GroupEntry(found, job.group).passwd
        /\ v.at = (IF (~(Groups[job.group].gid \in job.gids) /\ job.caller # "root" /\ NeedsGroupPassword(GroupEntry(found, job.group), job.caller, Account(job.caller))) THEN "password" ELSE "open")
    BY NewgrpPermissionFacts
  <2> QED BY <2>1
<1>4. v.account \in SomeAccount
  BY <1>3, AccountType
<1> HIDE DEF w
<1>5. job.group \in DOMAIN Groups /\ v.job = job /\ v.at \in {"password", "open"}
  BY <1>1, <1>3 DEF Sound, PlaceOf, Goer
<1>6. ASSUME v.at = "password"
      PROVE  \E other \in MatchingGroups(job.caller, job.group) :
               v.asked = GroupEntry(other, job.group).passwd
  BY <1>3, <1>6
<1>7. ASSUME v.at = "open" PROVE InGroup(v)
  <2> DEFINE x == [job |-> v.job, account |-> v.account, typed |-> v.typed,
                   gid |-> Groups[v.job.group].gid]
             same == {g \in DOMAIN Groups : Groups[g].gid = x.gid}
             entry == GroupEntry(found, job.group)
  <2>1. x.job = job /\ x.account = v.account /\ x.gid = Groups[job.group].gid
    BY <1>5
  <2>2. CASE member \/ job.caller = "root"
    BY <2>1, <2>2 DEF InGroup, EarnedGroup
  <2>3. CASE ~member /\ job.caller # "root"
    <3>1. entry.gid = v.account.gid \/ job.caller \in entry.members
      BY <1>3, <1>7, <2>3 DEF NeedsGroupPassword
    <3>2. /\ found \in DOMAIN Groups /\ Groups[found].gid = Groups[job.group].gid
      BY <1>3, <1>5, <2>3, Matching
    <3>3. entry.gid = x.gid
      BY <2>1, <3>2 DEF GroupEntry
    <3>4. CASE entry.gid = v.account.gid
      BY <2>1, <3>3, <3>4 DEF InGroup, EarnedGroup
    <3>5. CASE job.caller \in entry.members
      <4>1. CASE job.group \in DOMAIN GShadow
        <5>1. job.caller \in GShadow[job.group].members /\ job.group \in same
          BY <1>5, <2>1, <3>5, <4>1 DEF GroupEntry
        <5> QED BY <2>1, <4>1, <5>1 DEF InGroup, EarnedGroup
      <4>2. CASE job.group \notin DOMAIN GShadow
        <5>1. job.caller \in Members(found) /\ found \in same
          BY <2>1, <3>2, <3>5, <4>2 DEF GroupEntry, Members
        <5> QED BY <2>1, <5>1 DEF InGroup, EarnedGroup
      <4> QED BY <4>1, <4>2
    <3> QED BY <3>1, <3>4, <3>5
  <2> QED BY <2>2, <2>3
<1>8. Sound(v, site, had)
  BY <1>1, <1>5, <1>6, <1>7 DEF Sound
<1>9. IsWork(v) /\ Placed(v, site.jobs)
  BY <1>1, <1>3, <1>5 DEF Placed, PlaceOf, Goer
<1> QED BY <1>2, <1>3, <1>4, <1>8, <1>9, QuietMove

LEMMA NewgrpPasswordEarns ==
  ASSUME Base, EarnInv, NEW p \in Procs, NewgrpPassword(p)
  PROVE  Base' /\ EarnInv'
<1> DEFINE w == work[p]
           job == w.job
<1>1. w.at = "password" /\ job.tool = "newgrp" /\ job \in site.jobs /\ Sound(w, site, had)
  BY RunsAt DEF NewgrpPassword, At, EarnInv, PlaceOf
<1>2. Quiet
  BY OnlyMovesQuiet DEF NewgrpPassword
<1>3. CASE Exits(p)
  BY <1>2, <1>3, QuietExit
<1>4. CASE ~Exits(p)
  <2>1. PICK v, typed :
          /\ Moves(p, v) /\ Goer(w, v)
          /\ typed \in Secrets /\ w.asked # NoPassword /\ PwAuth(w.asked, typed)
          /\ v.typed = typed /\ v.at = "open" /\ v.account = w.account
    BY <1>4, NewgrpPasswordFacts
  <2>2. v.account \in SomeAccount
    BY <2>1 DEF Base
  <2> HIDE DEF w
  <2>3. job.group \in DOMAIN Groups /\ v.job = job
    BY <1>1, <2>1 DEF Sound, PlaceOf, Goer
  <2>4. PICK found \in MatchingGroups(job.caller, job.group) :
          w.asked = GroupEntry(found, job.group).passwd
    BY <1>1 DEF Sound, PlaceOf
  <2>5. w.asked = Hashed(v.typed) /\ v.typed # None
    BY <2>1, SessionsAssumption DEF PwAuth
  <2>6. InGroup(v)
    <3> DEFINE x == [job |-> v.job, account |-> v.account, typed |-> v.typed,
                     gid |-> Groups[v.job.group].gid]
               same == {g \in DOMAIN Groups : Groups[g].gid = x.gid}
    <3>1. x.job = job /\ x.typed = v.typed /\ x.gid = Groups[job.group].gid
      BY <2>3
    <3>2. found \in same /\ job.group \in same /\ (found = job.group \/ job.caller \in Members(found))
      BY <2>3, <3>1, Matching
    <3>3. CASE found = job.group
      <4>1. GroupEntry(job.group, job.group) \in {GroupEntry(g, g) : g \in same}
        BY <3>2
      <4> QED BY <2>4, <2>5, <3>1, <3>3, <4>1 DEF InGroup, EarnedGroup
    <3>4. CASE job.caller \in Members(found)
      BY <3>1, <3>2, <3>4 DEF InGroup, EarnedGroup
    <3> QED BY <3>2, <3>3, <3>4
  <2>7. Sound(v, site, had)
    BY <1>1, <2>1, <2>3, <2>6 DEF Sound
  <2>8. IsWork(v) /\ Placed(v, site.jobs)
    BY <1>1, <2>1 DEF Placed, PlaceOf, Goer
  <2> QED BY <1>2, <2>1, <2>2, <2>7, <2>8, QuietMove
<1> QED BY <1>3, <1>4

-----------------------------------------------------------------------------
(* The steps of sulogin and faillog *)

LEMMA SuloginLookEarns ==
  ASSUME Base, EarnInv, NEW p \in Procs, SuloginLook(p)
  PROVE  Base' /\ EarnInv'
<1> DEFINE w == work[p]
<1>1. w.at = "look" /\ w.job.tool = "sulogin" /\ w.job \in site.jobs
  BY RunsAt DEF SuloginLook, At, PlaceOf
<1>2. Quiet
  BY OnlyMovesQuiet DEF SuloginLook
<1>3. CASE Exits(p)
  BY <1>2, <1>3, QuietExit
<1>4. CASE ~Exits(p)
  <2>1. PICK v :
          /\ Moves(p, v) /\ Goer(w, v) /\ v.account = Account("root") /\ v.at = "answer"
          /\ v.asked = (IF Account("root").shadow # None THEN Account("root").shadow
                        ELSE Account("root").passwd)
    BY <1>4, SuloginLookFacts
  <2>2. v.account \in SomeAccount
    BY <2>1, AccountType
  <2> HIDE DEF w
  <2>3. Known(v.asked, "root", had)
    BY <2>1, AskedKnown
  <2>4. Sound(v, site, had)
    BY <1>1, <2>1, <2>3 DEF Sound, Goer
  <2>5. IsWork(v) /\ Placed(v, site.jobs)
    BY <1>1, <2>1 DEF Placed, PlaceOf, Goer
  <2> QED BY <1>2, <2>1, <2>2, <2>4, <2>5, QuietMove
<1> QED BY <1>3, <1>4

LEMMA SuloginAnswerEarns ==
  ASSUME Base, EarnInv, NEW p \in Procs, SuloginAnswer(p)
  PROVE  Base' /\ EarnInv'
<1> DEFINE w == work[p]
<1>1. w.at = "answer" /\ w.job.tool = "sulogin" /\ w.job \in site.jobs /\ Sound(w, site, had)
  BY RunsAt DEF SuloginAnswer, At, EarnInv, PlaceOf
<1>2. Quiet
  BY OnlyMovesQuiet DEF SuloginAnswer
<1>3. CASE Goes(p, "look") \/ Exits(p)
  <2>1. NextPlace("answer", "look", w.job.tool)
    BY <1>1 DEF NextPlace
  <2> QED BY <1>1, <1>2, <1>3, <2>1, GoEarns
<1>4. CASE ~(Goes(p, "look") \/ Exits(p))
  <2>1. PICK v, typed :
          /\ Moves(p, v) /\ Goer(w, v)
          /\ typed \in Secrets \ {""} /\ Valid(typed, w.asked)
          /\ v.typed = typed /\ v.at = "open" /\ v.account = w.account
    BY <1>4, SuloginAnswerFacts
  <2>2. v.account \in SomeAccount
    BY <2>1 DEF Base
  <2> HIDE DEF w
  <2>3. v.typed # None /\ v.typed # ""
    BY <2>1, SessionsAssumption
  <2>4. w.asked = Hashed(v.typed) /\ ~w.asked.locked
    <3>1. w.asked = Hashed(v.typed)
      BY <2>1, <2>3 DEF Valid
    <3>2. \A x : ~Hashed(x).locked
      BY DEF Hashed
    <3> QED BY <3>1, <3>2
  <2>5. Known(w.asked, "root", had)
    BY <1>1 DEF Sound, PlaceOf
  <2>6. Gave(v, "root", had)
    BY <2>3, <2>4, <2>5 DEF Known, Gave
  <2>7. Sound(v, site, had)
    BY <1>1, <2>1, <2>3, <2>6 DEF Sound, Goer
  <2>8. IsWork(v) /\ Placed(v, site.jobs)
    BY <1>1, <2>1 DEF Placed, PlaceOf, Goer
  <2> QED BY <1>2, <2>1, <2>2, <2>7, <2>8, QuietMove
<1> QED BY <1>3, <1>4

\* faillog opens no session, whatever it does.
LEMMA FaillogEarns ==
  ASSUME Base, EarnInv, NEW p \in Procs, NEW v, Moves(p, v), Quiet,
         work[p].at \in {"options", "maintain"}, v.at \in {"options", "maintain", "write"},
         Goer(work[p], v), v.account = work[p].account
  PROVE  Base' /\ EarnInv'
<1>1. work[p].job.tool = "faillog" /\ work[p].job \in site.jobs
  BY RunsAt DEF PlaceOf
<1>2. Sound(v, site, had)
  BY <1>1 DEF Sound, Goer
<1>3. IsWork(v) /\ Placed(v, site.jobs)
  BY <1>1 DEF Placed, PlaceOf, Goer
<1>4. v.account \in SomeAccount
  BY DEF Base
<1> QED BY <1>2, <1>3, <1>4, QuietMove

LEMMA NextOptionEarns ==
  ASSUME Base, EarnInv, NEW p \in Procs, NextOption(p)
  PROVE  Base' /\ EarnInv'
<1>1. Quiet /\ work[p].at = "options"
  BY OnlyMovesQuiet DEF NextOption, At
<1>2. CASE Exits(p)
  BY <1>1, <1>2, QuietExit
<1>3. CASE ~Exits(p)
  <2>1. PICK v : /\ Moves(p, v) /\ Goer(work[p], v) /\ v.at = "maintain"
                 /\ v.account = work[p].account
    BY <1>3, NextOptionFacts
  <2> QED BY <1>1, <2>1, FaillogEarns
<1> QED BY <1>2, <1>3

LEMMA Skipped ==
  ASSUME Base, NEW p \in Procs, NEW uid, Moves(p, [work[p] EXCEPT !.left = @ \ {uid}])
  PROVE  \E v : /\ Moves(p, v) /\ Goer(work[p], v) /\ v.at = work[p].at
                /\ SameUser(work[p], v) /\ SameSize(work[p], v) /\ v.record = work[p].record
                /\ v.ops = work[p].ops /\ v.op = work[p].op /\ v.left = work[p].left \ {uid}
                /\ v.uid = work[p].uid
<1> DEFINE w == work[p]
           left == w.left \ {uid}
           v == [w EXCEPT !.left = left]
<1>1. IsWork(w)
  BY DEF Base
<1>2. Moves(p, v)
  OBVIOUS
<1> HIDE DEF w, left
<1>3. /\ IsWork(v) /\ v.at = w.at /\ v.job = w.job /\ v.pid = w.pid
      /\ v.name = w.name /\ v.preauth = w.preauth /\ v.account = w.account
      /\ v.asked = w.asked /\ v.typed = w.typed /\ v.failed = w.failed
      /\ v.record = w.record /\ v.ops = w.ops /\ v.op = w.op /\ v.left = left
      /\ v.uid = w.uid /\ v.size = w.size
  BY <1>1 DEF IsWork
<1> HIDE DEF v
<1> QED BY <1>2, <1>3 DEF Goer, SameUser, SameSize, w, left

LEMMA MaintainReadEarns ==
  ASSUME Base, EarnInv, NEW p \in Procs, MaintainRead(p)
  PROVE  Base' /\ EarnInv'
<1>1. Quiet /\ work[p].at = "maintain"
  BY OnlyMovesQuiet DEF MaintainRead, At
<1>2. CASE Goes(p, "options")
  <2>1. NextPlace("maintain", "options", work[p].job.tool)
    BY DEF NextPlace
  <2> QED BY <1>1, <1>2, <2>1, GoEarns
<1>3. CASE \E uid \in work[p].left : Moves(p, [work[p] EXCEPT !.left = @ \ {uid}])
  <2>1. PICK v : /\ Moves(p, v) /\ Goer(work[p], v) /\ v.at = "maintain"
                 /\ SameUser(work[p], v)
    BY <1>1, <1>3, Skipped
  <2> QED BY <1>1, <2>1, FaillogEarns DEF SameUser
<1>4. CASE ~(Goes(p, "options") \/ \E uid \in work[p].left : Moves(p, [work[p] EXCEPT !.left = @ \ {uid}]))
  <2>1. PICK v : /\ Moves(p, v) /\ Goer(work[p], v) /\ v.at = "write"
                 /\ v.account = work[p].account
    BY <1>4, MaintainWritesFacts
  <2> QED BY <1>1, <2>1, FaillogEarns
<1> QED BY <1>2, <1>3, <1>4

-----------------------------------------------------------------------------
(* Sessions begin and end *)

LEMMA OpenEarns ==
  ASSUME Base, EarnInv, NEW p \in Procs, NEW gid, NEW shell, work[p].at = "open",
         Opens(p, gid, shell), Goes(p, "session"),
         UNCHANGED <<site, accounts, clock, started, had>>,
         \A x : /\ x.job = work[p].job /\ x.name = work[p].name /\ x.account = work[p].account
                /\ x.typed = work[p].typed /\ x.gid = gid /\ x.shell = shell
                => SoundSession(x, site, had)
  PROVE  Base' /\ EarnInv'
<1> DEFINE w == work[p]
<1>1. w.at = "open" /\ w.job \in site.jobs /\ PlaceOf(w.job, "open") /\ Sound(w, site, had)
  BY RunsAt DEF EarnInv
<1>2. PICK v : Moves(p, v) /\ Goer(w, v) /\ v.at = "session" /\ SameUser(w, v)
  BY Went
<1>3. Around /\ Grows(had, had')
  BY DEF Around, Grows, Base
<1>4. IsWork(v) /\ v.account \in SomeAccount
  BY <1>2 DEF Goer, SameUser, Base
<1>5. \A x \in sessions' : x \in sessions \/ SoundSession(x, site, had')
  BY DEF Opens
<1>6. \A n \in DOMAIN accounts' : \A password \in Passwords(accounts'[n]) : Known(password, n, had')
  BY DEF EarnInv, Passwords
<1> HIDE DEF w
<1>7. PlaceOf(v.job, "session") /\ Placed(v, site.jobs)
  BY <1>1, <1>2 DEF Placed, PlaceOf, Goer
<1>8. Sound(v, site, had')
  <2>1. CASE w.job.tool \in {"login", "su"}
    BY <1>1, <1>2, <2>1 DEF Sound, Goer, SameUser
  <2>2. CASE w.job.tool \notin {"login", "su"}
    BY <1>1, <1>2, <2>2 DEF Sound, Goer
  <2> QED BY <2>1, <2>2
<1>9. Base'
  BY <1>2, <1>3, <1>4, <1>7, BaseMoves
<1> QED BY <1>2, <1>3, <1>5, <1>6, <1>8, <1>9, EarnMoves DEF Around

LEMMA OpenLoginEarns ==
  ASSUME Base, EarnInv, NEW p \in Procs, OpenLogin(p)
  PROVE  Base' /\ EarnInv'
<1> DEFINE w == work[p]
<1>1. w.at = "open" /\ w.job \in site.jobs /\ w.job.tool = "login" /\ MayLogin(w, site, had)
  BY RunsAt DEF OpenLogin, At, EarnInv, PlaceOf, Sound
<1>2. /\ Opens(p, w.account.gid, "own") /\ Goes(p, "session")
      /\ UNCHANGED <<site, accounts, clock, started, had>>
  BY DEF OpenLogin, history
<1>3. ASSUME NEW x, x.job = w.job, x.name = w.name, x.account = w.account, x.typed = w.typed
      PROVE  SoundSession(x, site, had)
  <2> HIDE DEF w
  <2> QED BY <1>1, <1>3 DEF SoundSession, MayLogin, Gave
<1> QED BY <1>1, <1>2, <1>3, OpenEarns

LEMMA OpenSuEarns ==
  ASSUME Base, EarnInv, NEW p \in Procs, OpenSu(p)
  PROVE  Base' /\ EarnInv'
<1> DEFINE w == work[p]
           shell == ShellOf(w.job, w.account)
<1>1. w.at = "open" /\ w.job \in site.jobs /\ w.job.tool = "su" /\ MaySu(w, site, had)
  BY RunsAt DEF OpenSu, At, EarnInv, PlaceOf, Sound
<1>2. /\ Opens(p, w.account.gid, shell) /\ Goes(p, "session")
      /\ UNCHANGED <<site, accounts, clock, started, had>>
  BY DEF OpenSu, files, history
<1>3. shell = "given" => w.job.caller = "root" \/ ~w.account.restricted
  BY DEF ShellOf
<1>4. ASSUME NEW x, x.job = w.job, x.name = w.name, x.account = w.account, x.typed = w.typed,
             x.shell = shell
      PROVE  SoundSession(x, site, had)
  <2> HIDE DEF w, shell
  <2> QED BY <1>1, <1>3, <1>4 DEF SoundSession, MaySu, Gave
<1> QED BY <1>1, <1>2, <1>4, OpenEarns

LEMMA OpenNewgrpEarns ==
  ASSUME Base, EarnInv, NEW p \in Procs, OpenNewgrp(p)
  PROVE  Base' /\ EarnInv'
<1> DEFINE w == work[p]
           gid == Groups[w.job.group].gid
<1>1. w.at = "open" /\ w.job \in site.jobs /\ w.job.tool = "newgrp" /\ InGroup(w)
  BY RunsAt DEF OpenNewgrp, At, EarnInv, PlaceOf, Sound
<1>2. /\ Opens(p, gid, "own") /\ Goes(p, "session")
      /\ UNCHANGED <<site, accounts, clock, started, had>>
  BY DEF OpenNewgrp, files, history
<1>3. ASSUME NEW x, x.job = w.job, x.account = w.account, x.typed = w.typed, x.gid = gid
      PROVE  SoundSession(x, site, had)
  <2> DEFINE y == [job |-> w.job, account |-> w.account, typed |-> w.typed, gid |-> gid]
  <2>1. y.job = x.job /\ y.account = x.account /\ y.typed = x.typed /\ y.gid = x.gid
    BY <1>3
  <2>2. EarnedGroup(y)
    BY <1>1 DEF InGroup
  <2> HIDE DEF w, gid, y
  <2>3. EarnedGroup(x)
    BY <2>1, <2>2 DEF EarnedGroup
  <2> QED BY <1>1, <1>3, <2>3 DEF SoundSession
<1> QED BY <1>1, <1>2, <1>3, OpenEarns

LEMMA OpenSuloginEarns ==
  ASSUME Base, EarnInv, NEW p \in Procs, OpenSulogin(p)
  PROVE  Base' /\ EarnInv'
<1> DEFINE w == work[p]
<1>1. w.at = "open" /\ w.job \in site.jobs /\ w.job.tool = "sulogin" /\ w.typed # None /\ Gave(w, "root", had)
  BY RunsAt DEF OpenSulogin, At, EarnInv, PlaceOf, Sound
<1>2. /\ Opens(p, None, "own") /\ Goes(p, "session")
      /\ UNCHANGED <<site, accounts, clock, started, had>>
  BY DEF OpenSulogin, files, history
<1>3. ASSUME NEW x, x.job = w.job, x.typed = w.typed PROVE SoundSession(x, site, had)
  <2> HIDE DEF w
  <2> QED BY <1>1, <1>3 DEF SoundSession, Gave
<1> QED BY <1>1, <1>2, <1>3, OpenEarns

LEMMA LogoutEarns ==
  ASSUME Base, EarnInv, NEW p \in Procs, Logout(p)
  PROVE  Base' /\ EarnInv'
<1>1. UNCHANGED <<site, accounts, clock, started, had>> /\ sessions' \subseteq sessions
  BY DEF Logout, history
<1>2. Moves(p, Idle) /\ IsWork(Idle) /\ Placed(Idle, site.jobs) /\ Idle.account \in SomeAccount
  BY IdleFields DEF Logout, Exits, Placed, SomeAccount
<1>3. Sound(Idle, site, had')
  BY IdleFields DEF Sound, PlaceOf
<1>4. Around /\ Grows(had, had')
  BY <1>1 DEF Around, Grows, Base
<1>5. \A n \in DOMAIN accounts' : \A password \in Passwords(accounts'[n]) : Known(password, n, had')
  BY <1>1 DEF EarnInv, Passwords
<1>6. Base'
  BY <1>2, <1>4, BaseMoves
<1> QED BY <1>1, <1>2, <1>3, <1>4, <1>5, <1>6, EarnMoves

\* A command begins with what it was asked for, and has no one yet.
LEMMA StartEarns ==
  ASSUME Base, EarnInv, NEW p \in Procs, Start(p)
  PROVE  Base' /\ EarnInv'
<1>1. /\ started' = started + 1 /\ started < MaxJobs
      /\ UNCHANGED <<site, clock, sessions, had>>
  BY DEF Start
<1>2. accounts' = accounts
  BY DEF Start, StartLogin, StartSu, StartNewgrp, StartSulogin, StartFaillog, files
<1>3. PICK job \in site.jobs :
        \/ StartLogin(p, job) \/ StartSu(p, job) \/ StartNewgrp(p, job)
        \/ StartSulogin(p, job) \/ StartFaillog(p, job)
  BY DEF Start
<1>4. \E v : /\ Moves(p, v) /\ IsWork(v) /\ v.account = Nobody /\ Placed(v, site.jobs)
             /\ Sound(v, site, had)
  <2>1. CASE StartLogin(p, job)
    <3> DEFINE v == [Idle EXCEPT !.job = job, !.at = "look", !.name = job.name, !.pid = started + 1,
                                 !.preauth = job.preauth, !.retries = site.retries]
    <3>1. Moves(p, v) /\ job.tool = "login" /\ (job.preauth => job.caller = "root")
      BY <2>1 DEF StartLogin, MayRunLogin
    <3>2. /\ IsWork(v) /\ v.job = job /\ v.at = "look" /\ v.account = Nobody
          /\ v.name = job.name /\ v.preauth = job.preauth
      BY IdleFields DEF IsWork
    <3> HIDE DEF v
    <3> QED BY <3>1, <3>2 DEF Placed, PlaceOf, Sound
  <2>2. CASE StartSu(p, job)
    <3> DEFINE v == [Idle EXCEPT !.job = job, !.at = "permission", !.name = job.name,
                                 !.pid = started + 1]
    <3>1. Moves(p, v) /\ job.tool = "su"
      BY <2>2 DEF StartSu
    <3>2. /\ IsWork(v) /\ v.job = job /\ v.at = "permission" /\ v.account = Nobody
          /\ v.name = job.name /\ v.preauth = FALSE
      BY IdleFields DEF IsWork
    <3> HIDE DEF v
    <3> QED BY <3>1, <3>2 DEF Placed, PlaceOf, Sound
  <2>3. CASE StartNewgrp(p, job)
    <3> DEFINE v == [Idle EXCEPT !.job = job, !.at = "group", !.name = job.caller,
                                 !.pid = started + 1]
    <3>1. Moves(p, v) /\ job.tool = "newgrp" /\ job.group \in DOMAIN Groups
      BY <2>3 DEF StartNewgrp
    <3>2. IsWork(v) /\ v.job = job /\ v.at = "group" /\ v.account = Nobody
      BY IdleFields DEF IsWork
    <3> HIDE DEF v
    <3> QED BY <3>1, <3>2 DEF Placed, PlaceOf, Sound
  <2>4. CASE StartSulogin(p, job)
    <3> DEFINE v == [Idle EXCEPT !.job = job, !.at = "look", !.name = "root", !.pid = started + 1]
    <3>1. Moves(p, v) /\ job.tool = "sulogin"
      BY <2>4 DEF StartSulogin
    <3>2. IsWork(v) /\ v.job = job /\ v.at = "look" /\ v.account = Nobody
      BY IdleFields DEF IsWork
    <3> HIDE DEF v
    <3> QED BY <3>1, <3>2 DEF Placed, PlaceOf, Sound
  <2>5. CASE StartFaillog(p, job)
    <3> DEFINE v == [Idle EXCEPT !.job = job, !.at = "options", !.ops = job.ops,
                                 !.size = Cardinality(DOMAIN faillog)]
    <3>1. Moves(p, v) /\ job.tool = "faillog"
      BY <2>5 DEF StartFaillog
    <3>2. IsWork(v) /\ v.job = job /\ v.at = "options" /\ v.account = Nobody
      BY IdleFields DEF IsWork
    <3> HIDE DEF v
    <3> QED BY <3>1, <3>2 DEF Placed, PlaceOf, Sound
  <2> QED BY <1>3, <2>1, <2>2, <2>3, <2>4, <2>5
<1>5. PICK v : /\ Moves(p, v) /\ IsWork(v) /\ v.account = Nobody /\ Placed(v, site.jobs)
               /\ Sound(v, site, had)
  BY <1>4
<1>6. started' \in 0 .. MaxJobs
  BY <1>1, SessionsAssumption DEF Base
<1>7. Around /\ Grows(had, had')
  BY <1>1, <1>2, <1>6 DEF Around, Grows, Base
<1>8. Sound(v, site, had')
  BY <1>1, <1>5
<1>9. \A n \in DOMAIN accounts' : \A password \in Passwords(accounts'[n]) : Known(password, n, had')
  BY <1>1, <1>2 DEF EarnInv, Passwords
<1>10. Base'
  BY <1>5, <1>7, BaseMoves DEF SomeAccount
<1> QED BY <1>1, <1>5, <1>7, <1>8, <1>9, <1>10, EarnMoves

\* usermod -L locks a password, and nobody can give a locked one.
LEMMA LockedEarns ==
  ASSUME Base, EarnInv, NEW name \in DOMAIN accounts, Locked(name)
  PROVE  Base' /\ EarnInv'
<1> DEFINE new == [accounts[name] EXCEPT !.shadow = Lock(@)]
<1>1. /\ accounts' = [accounts EXCEPT ![name] = new] /\ accounts[name].shadow # None
      /\ UNCHANGED <<site, clock, work, started, sessions, had>>
  BY DEF Locked, history
<1>2. accounts[name] \in AnyAccount /\ accounts[name].shadow \in AnyPassword
  BY <1>1 DEF Base, AnyAccount
<1>3. \A pw \in AnyPassword : Lock(pw) \in AnyPassword /\ Lock(pw).locked
  BY DEF AnyPassword, Lock
<1>4. new \in AnyAccount
  BY <1>2, <1>3 DEF AnyAccount
<1>5. Passwords(new) \subseteq Passwords(accounts[name]) \cup {Lock(accounts[name].shadow)}
  BY <1>2 DEF Passwords, AnyAccount
<1> HIDE DEF new
<1>6. accounts' \in [DOMAIN accounts -> AnyAccount] /\ DOMAIN accounts' = DOMAIN accounts
  BY <1>1, <1>4 DEF Base
<1>7. \A n \in DOMAIN accounts' : \A password \in Passwords(accounts'[n]) : Known(password, n, had')
  <2> TAKE n \in DOMAIN accounts'
  <2>1. CASE n # name
    BY <1>1, <1>6, <2>1 DEF EarnInv
  <2>2. CASE n = name
    <3> TAKE password \in Passwords(accounts'[n])
    <3>1. password \in Passwords(accounts[name]) \/ password = Lock(accounts[name].shadow)
      BY <1>1, <1>5, <1>6, <2>2
    <3> QED BY <1>1, <1>2, <1>3, <2>2, <3>1 DEF EarnInv, Known
  <2> QED BY <2>1, <2>2
<1>8. Base'
  BY <1>1, <1>6 DEF Base
<1>9. EarnInv'
  BY <1>1, <1>7 DEF EarnInv, Passwords
<1> QED BY <1>8, <1>9

LEMMA RestEarns ==
  ASSUME Base, EarnInv, UNCHANGED <<site, accounts, work, started, sessions, had>>,
         clock' \in Nat
  PROVE  Base' /\ EarnInv'
<1>1. Base'
  BY DEF Base
<1>2. EarnInv'
  BY DEF EarnInv, Passwords
<1> QED BY <1>1, <1>2

LEMMA InitEarns == Init => EarnInv
<1> SUFFICES ASSUME Init PROVE EarnInv
  OBVIOUS
<1>1. \A n \in DOMAIN accounts : \A password \in Passwords(accounts[n]) : Known(password, n, had)
  BY DEF Init, Known
<1>2. \A p \in Procs : Sound(work[p], site, had)
  BY IdleFields DEF Init, Sound, PlaceOf
<1>3. sessions = {}
  BY DEF Init
<1> QED BY <1>1, <1>2, <1>3 DEF EarnInv

LEMMA NextEarns == Base /\ EarnInv /\ [Next]_vars => Base' /\ EarnInv'
<1> SUFFICES ASSUME Base, EarnInv, [Next]_vars PROVE Base' /\ EarnInv'
  OBVIOUS
<1>1. ASSUME NEW p \in Procs, Start(p) \/ Logout(p) PROVE Base' /\ EarnInv'
  BY <1>1, StartEarns, LogoutEarns
<1>2. ASSUME NEW p \in Procs, LoginStep(p) PROVE Base' /\ EarnInv'
  BY <1>2, LookEarns, AnswerEarns, FailCheckEarns, ClearCountEarns, FailureReadEarns,
     FailureWriteEarns, AgainEarns, TimesOutEarns, EnterEarns, ExpireEarns, LimitsEarns,
     OpenLoginEarns DEF LoginStep
<1>3. ASSUME NEW p \in Procs, OtherStep(p) PROVE Base' /\ EarnInv'
  BY <1>3, SuPermissionEarns, SuPasswordEarns, SuHourEarns, OpenSuEarns, NewgrpPermissionEarns,
     NewgrpPasswordEarns, OpenNewgrpEarns, SuloginLookEarns, SuloginAnswerEarns,
     OpenSuloginEarns, NextOptionEarns, MaintainReadEarns, MaintainWriteEarns DEF OtherStep
<1>4. ASSUME NEW name \in DOMAIN accounts, Locked(name) PROVE Base' /\ EarnInv'
  BY <1>4, LockedEarns
<1>5. CASE Maintenance
  BY <1>5, RestEarns DEF Maintenance, history, Base
<1>6. CASE Tick
  <2>1. clock' \in Nat
    BY <1>6 DEF Tick, Base
  <2> QED BY <1>6, <2>1, RestEarns DEF Tick, files, history
<1>7. CASE UNCHANGED vars
  BY <1>7, RestEarns DEF vars, files, history, Base
<1> QED BY <1>1, <1>2, <1>3, <1>4, <1>5, <1>6, <1>7 DEF Next

\* What a session has shown, in the words of the property.
LEMMA EarnInvEarned ==
  ASSUME \A r \in Sites : SuListsMean(r), Base, EarnInv
  PROVE  SessionsEarned
<1> SUFFICES ASSUME NEW s \in sessions, s.job \in site.jobs
             PROVE  CASE s.job.tool = "login"   -> EarnedLogin(s)
                      [] s.job.tool = "su"      -> EarnedSu(s)
                      [] s.job.tool = "newgrp"  -> EarnedGroup(s)
                      [] s.job.tool = "sulogin" -> s.typed # None /\ Proved(s, "root")
  BY DEF SessionsEarned, EarnInv, SoundSession
<1>1. SoundSession(s, site, had)
  BY DEF EarnInv
<1>2. \A name : Gave(s, name, had) => Proved(s, name)
  BY DEF Gave, Proved
<1>3. CASE s.job.tool = "login"
  BY <1>1, <1>2, <1>3 DEF SoundSession, MayLogin, EarnedLogin
<1>4. CASE s.job.tool = "su"
  <2> DEFINE lines == {i \in DOMAIN Lines(site.suauth) : /\ SuListMeans(s.name, site.suauth[i].to)
                                                         /\ SuListMeans(s.job.caller, site.suauth[i].from)
                                                         /\ site.suauth[i].action \in SuActions}
             action == IF lines = {} THEN "NOACTION" ELSE site.suauth[Min(lines)].action
             decided == CheckSuAuth(site.suauth, s.job.caller, s.job.name)
  <2>1. MaySu(s, site, had) /\ (s.shell = "given" => s.job.caller = "root" \/ ~s.account.restricted)
    BY <1>1, <1>4 DEF SoundSession
  <2>2. decided # "DENY" => decided = action
    <3>1. CASE site.suauth = Unreadable
      BY <3>1 DEF CheckSuAuth
    <3>2. CASE site.suauth # Unreadable
      <4>1. lines = SuLines(site.suauth, s.job.caller, s.job.name)
        BY <1>4, <2>1, <3>2 DEF SuListsMean, Lines, SuLines, MaySu, Base
      <4> QED BY <3>2, <4>1 DEF CheckSuAuth
    <3> QED BY <3>1, <3>2
  <2>3. EarnedSu(s)
    BY <1>2, <2>1, <2>2 DEF MaySu, EarnedSu
  <2> QED BY <1>4, <2>3
<1>5. CASE s.job.tool = "newgrp"
  BY <1>1, <1>5 DEF SoundSession
<1>6. CASE s.job.tool = "sulogin"
  BY <1>1, <1>2, <1>6 DEF SoundSession
<1> QED BY <1>1, <1>3, <1>4, <1>5, <1>6 DEF SoundSession

\* However login, su, newgrp and sulogin get to a session, whoever has one gave
\* a password that is or was the account's, or need not, whatever was changed
\* while they waited, if the lists of suauth mean what the manual says
\* (login.c, su.c, newgrp.c, sulogin.c; pw_auth, check_su_auth, expire).  Among
\* those who need not are, in newgrp, they who have the group as login group.
THEOREM SessionsAreEarned ==
  ASSUME \A s \in Sites : SuListsMean(s)
  PROVE  Spec => []SessionsEarned
<1>1. Init => Base /\ EarnInv
  BY InitBase, InitEarns
<1>2. Base /\ EarnInv /\ [Next]_vars => Base' /\ EarnInv'
  BY NextEarns
<1>3. Base /\ EarnInv => SessionsEarned
  BY EarnInvEarned
<1> QED BY <1>1, <1>2, <1>3, PTL DEF Spec

-----------------------------------------------------------------------------
(* The steps that touch no session *)

\* A process ends, or goes from one place to another, none of them a session.
OnTheWay(p) ==
  /\ work[p].at \notin {"nothing", "session"}
  /\ \E v : /\ Moves(p, v)
            /\ \/ v = Idle
               \/ Goer(work[p], v) /\ v.at \notin {"nothing", "session"}

LEMMA ExitOnTheWay ==
  ASSUME NEW p \in Procs, Exits(p), work[p].at \notin {"nothing", "session"} PROVE OnTheWay(p)
  BY DEF Exits, OnTheWay

LEMMA GoOnTheWay ==
  ASSUME Base, NEW p \in Procs, NEW a, Goes(p, a), a \notin {"nothing", "session"},
         work[p].at \notin {"nothing", "session"}
  PROVE  OnTheWay(p)
  BY Went DEF OnTheWay

\* The steps that leave utmp and the sessions alone.
Wayside(p) ==
  \/ Look(p) \/ Answer(p) \/ FailCheck(p) \/ ClearCount(p) \/ FailureRead(p) \/ FailureWrite(p)
  \/ Again(p) \/ TimesOut(p) \/ Enter(p) \/ Expire(p) \/ Limits(p)
  \/ SuPermission(p) \/ SuPassword(p) \/ SuHour(p) \/ NewgrpPermission(p) \/ NewgrpPassword(p)
  \/ SuloginLook(p) \/ SuloginAnswer(p) \/ NextOption(p) \/ MaintainRead(p) \/ MaintainWrite(p)

LEMMA WaysideLeaves ==
  ASSUME NEW p \in Procs, Wayside(p) PROVE UNCHANGED <<utmp, started, sessions>>
  BY DEF Wayside, Look, Answer, FailCheck, ClearCount, FailureRead, FailureWrite, Again, TimesOut,
         Enter, Expire, Limits, SuPermission, SuPassword, SuHour, NewgrpPermission, NewgrpPassword,
         SuloginLook, SuloginAnswer, NextOption, MaintainRead, MaintainWrite, OnlyMoves, files

LEMMA WaysideOnTheWay ==
  ASSUME Base, NEW p \in Procs, Wayside(p) PROVE OnTheWay(p)
<1>1. work[p].at \notin {"nothing", "session"}
  BY DEF Wayside, At, Look, Answer, FailCheck, ClearCount, FailureRead, FailureWrite, Again, TimesOut,
         Enter, Expire, Limits, SuPermission, SuPassword, SuHour, NewgrpPermission, NewgrpPassword,
         SuloginLook, SuloginAnswer, NextOption, MaintainRead, MaintainWrite
<1>2. CASE Look(p)
  BY <1>1, <1>2, LookFacts DEF OnTheWay
<1>3. CASE Answer(p)
  BY <1>1, <1>3, AnswerFacts DEF OnTheWay
<1>4. CASE FailCheck(p)
  <2>1. PICK v : /\ Moves(p, v) /\ Goer(work[p], v)
                 /\ v.at = (CASE (work[p].failed \/ (CountsFailures(p) /\ TooManyFailures(Record(faillog, work[p].account.uid), clock))) -> IF CountsFailures(p) THEN "fail" ELSE "again" [] ~(work[p].failed \/ (CountsFailures(p) /\ TooManyFailures(Record(faillog, work[p].account.uid), clock))) /\ CountsFailures(p) /\ work[p].account.uid \in DOMAIN faillog -> "reset" [] OTHER -> "enter")
    BY <1>4, FailCheckFacts
  <2> QED BY <1>1, <2>1 DEF OnTheWay
<1>5. CASE FailureRead(p)
  BY <1>1, <1>5, FailureReadFacts DEF OnTheWay
<1>6. CASE Exits(p)
  BY <1>1, <1>6, ExitOnTheWay
<1>7. CASE Again(p) /\ ~Exits(p)
  BY <1>1, <1>7, AgainFacts DEF OnTheWay
<1>8. CASE TimesOut(p)
  BY <1>1, <1>8, ExitOnTheWay DEF TimesOut
<1>9. ASSUME NEW a \in {"enter", "again", "aged", "hour", "limits", "open", "look", "options", "maintain"},
              Goes(p, a)
       PROVE  OnTheWay(p)
  BY <1>1, <1>9, GoOnTheWay
<1>10. CASE ClearCount(p) \/ FailureWrite(p) \/ Enter(p) \/ Expire(p) \/ Limits(p) \/ SuHour(p)
            \/ MaintainWrite(p)
  <2>1. Exits(p) \/ \E a \in {"enter", "again", "aged", "hour", "limits", "open", "maintain"} : Goes(p, a)
    BY <1>10 DEF ClearCount, FailureWrite, Enter, Expire, AfterAge, Limits, SuHour, MaintainWrite
  <2> QED BY <1>6, <1>9, <2>1
<1>11. CASE SuPermission(p) /\ ~Exits(p)
  <2>1. PICK v : /\ Moves(p, v) /\ Goer(work[p], v)
                 /\ v.at = (IF work[p].job.caller = "root" THEN "limits" ELSE "password")
    BY <1>11, SuPermissionFacts
  <2> QED BY <1>1, <2>1 DEF OnTheWay
<1>12. CASE SuPassword(p) /\ ~Exits(p)
  BY <1>1, <1>12, SuPasswordFacts DEF OnTheWay
<1>13. CASE NewgrpPermission(p)
  <2>1. PICK v : Moves(p, v) /\ Goer(work[p], v) /\ v.at \in {"password", "open"}
    <3>1. PICK v, found : /\ Moves(p, v) /\ Goer(work[p], v)
                   /\ v.at = (IF (~(Groups[work[p].job.group].gid \in work[p].job.gids) /\ work[p].job.caller # "root" /\ NeedsGroupPassword(GroupEntry(found, work[p].job.group), work[p].job.caller, Account(work[p].job.caller))) THEN "password" ELSE "open")
      BY <1>13, NewgrpPermissionFacts
    <3> QED BY <3>1
  <2> QED BY <1>1, <2>1 DEF OnTheWay
<1>14. CASE NewgrpPassword(p) /\ ~Exits(p)
  BY <1>1, <1>14, NewgrpPasswordFacts DEF OnTheWay
<1>15. CASE SuloginLook(p) /\ ~Exits(p)
  BY <1>1, <1>15, SuloginLookFacts DEF OnTheWay
<1>16. CASE SuloginAnswer(p) /\ ~Exits(p) /\ ~Goes(p, "look")
  BY <1>1, <1>16, SuloginAnswerFacts DEF OnTheWay
<1>17. CASE NextOption(p) /\ ~Exits(p)
  BY <1>1, <1>17, NextOptionFacts DEF OnTheWay
<1>18. CASE MaintainRead(p)
  <2>1. CASE Goes(p, "options")
    BY <1>9, <2>1
  <2>2. CASE \E uid \in work[p].left : Moves(p, [work[p] EXCEPT !.left = @ \ {uid}])
    BY <1>1, <2>2, Skipped DEF OnTheWay
  <2>3. CASE ~(Goes(p, "options") \/ \E uid \in work[p].left : Moves(p, [work[p] EXCEPT !.left = @ \ {uid}]))
    BY <1>1, <1>18, <2>3, MaintainWritesFacts DEF OnTheWay
  <2> QED BY <2>1, <2>2, <2>3
<1> QED
  BY <1>2, <1>3, <1>4, <1>5, <1>6, <1>7, <1>8, <1>9, <1>10, <1>11, <1>12, <1>13, <1>14, <1>15,
     <1>16, <1>17, <1>18 DEF Wayside

-----------------------------------------------------------------------------
(* UtmpShowsSessions *)

\* Lines are told apart by their names and by the ids of their entries, and the
\* entries that are there at first are of other processes and have these ids.
LinesApart ==
  /\ \A l \in DOMAIN Name, k \in DOMAIN Name :
       l # k => Name[l] # Name[k] /\ LineId[l] # LineId[k]
  /\ \A s \in Sites : \A i \in DOMAIN s.utmp :
       /\ s.utmp[i].pid \notin 1 .. MaxJobs
       /\ \A l \in DOMAIN Name : s.utmp[i].line = Name[l] => s.utmp[i].id = LineId[l]

IsSequence(u) == \E S : u \in Seq(S)

IsEntry(e) ==
  e = [type |-> e.type, pid |-> e.pid, line |-> e.line, user |-> e.user, id |-> e.id, host |-> e.host]

Entries(u) == \A i \in DOMAIN u : IsEntry(u[i])

OnLines(u) ==
  \A i \in DOMAIN u, l \in DOMAIN Name : u[i].line = Name[l] => u[i].id = LineId[l]

NoneLater(u, n) == \A i \in DOMAIN u : u[i].pid \notin n + 1 .. MaxJobs

UsersOf(u, pid) == {i \in DOMAIN u : u[i].type = "USER" /\ u[i].pid = pid}

IsLogin(w) == w.at # "nothing" /\ w.job.tool = "login"
HasPid(w)  == w.at # "nothing" /\ w.job.tool # "faillog"

\* What utmp has of a login before its session and in it.
Shown(w, u) ==
  /\ w.job.line \in DOMAIN Name
  /\ \A i \in DOMAIN u : u[i].pid = w.pid /\ u[i].type \in LivingTypes
                         => u[i].line = Name[w.job.line]
  /\ w.at # "session" => UsersOf(u, w.pid) = {}
  /\ w.at = "session" => \E k \in DOMAIN u : /\ UsersOf(u, w.pid) = {k}
                                             /\ u[k].line = Name[w.job.line] /\ u[k].user = w.name

OfOthers(w, v) ==
  /\ HasPid(w) /\ HasPid(v) => w.pid # v.pid
  /\ IsLogin(w) /\ IsLogin(v) => w.job.line # v.job.line

Ongoing(s) ==
  /\ s.proc \in Procs
  /\ LET w == work[s.proc] IN w.at = "session" /\ s.job = w.job /\ s.name = w.name /\ s.pid = w.pid

ShowInv ==
  /\ IsSequence(utmp) /\ Entries(utmp) /\ OnLines(utmp) /\ NoneLater(utmp, started)
  /\ \A p \in Procs : HasPid(work[p]) => work[p].pid \in 1 .. started
  /\ \A p \in Procs : IsLogin(work[p]) => Shown(work[p], utmp)
  /\ \A p \in Procs, q \in Procs : p # q => OfOthers(work[p], work[q])
  /\ \A s \in sessions : Ongoing(s)

LEMMA ShowInvShows == ShowInv => UtmpShowsSessions
<1> SUFFICES ASSUME ShowInv, NEW s \in sessions, s.job.tool = "login"
             PROVE  Cardinality({i \in DOMAIN utmp :
                      /\ utmp[i].type = "USER" /\ utmp[i].pid = s.pid
                      /\ utmp[i].line = Name[s.job.line] /\ utmp[i].user = s.name}) = 1
  BY DEF UtmpShowsSessions
<1> DEFINE w == work[s.proc]
<1>1. s.proc \in Procs /\ w.at = "session" /\ s.job = w.job /\ s.name = w.name /\ s.pid = w.pid
  BY DEF ShowInv, Ongoing
<1>2. Shown(w, utmp)
  BY <1>1 DEF ShowInv, IsLogin
<1>3. PICK k \in DOMAIN utmp : /\ UsersOf(utmp, w.pid) = {k}
                               /\ utmp[k].line = Name[w.job.line] /\ utmp[k].user = w.name
  BY <1>1, <1>2 DEF Shown
<1> HIDE DEF w
<1>4. {i \in DOMAIN utmp : /\ utmp[i].type = "USER" /\ utmp[i].pid = s.pid
                           /\ utmp[i].line = Name[s.job.line] /\ utmp[i].user = s.name} = {k}
  BY <1>1, <1>3 DEF UsersOf
<1> QED BY <1>4, FS_Singleton

\* pututxline changes one entry, or adds it.
Changed(u, n, e, k) ==
  /\ IsSequence(n) /\ DOMAIN n = DOMAIN u \cup {k} /\ n[k] = e
  /\ k \in DOMAIN u => u[k].id = e.id
  /\ \A i \in DOMAIN u \ {k} : n[i] = u[i]

LEMMA Put ==
  ASSUME NEW u, IsSequence(u), NEW e, NEW n, n = PutUtxLine(u, e)
  PROVE  \E k \in Nat : Changed(u, n, e, k)
<1> DEFINE same == {i \in DOMAIN u : u[i].id = e.id}
<1>1. PICK S : u \in Seq(S)
  BY DEF IsSequence
<1>2. CASE same = {}
  <2>1. n = Append(u, e)
    BY <1>2 DEF PutUtxLine
  <2>2. u \in Seq(S \cup {e})
    BY <1>1
  <2>3. /\ n \in Seq(S \cup {e}) /\ Len(n) = Len(u) + 1 /\ n[Len(u) + 1] = e
        /\ \A i \in 1 .. Len(u) : n[i] = u[i]
    BY <2>1, <2>2
  <2>4. Len(u) \in Nat /\ DOMAIN u = 1 .. Len(u) /\ DOMAIN n = 1 .. Len(n)
    BY <1>1, <2>3
  <2>5. DOMAIN n = DOMAIN u \cup {Len(u) + 1} /\ Len(u) + 1 \notin DOMAIN u /\ Len(u) + 1 \in Nat
    BY <2>3, <2>4
  <2> QED BY <2>3, <2>4, <2>5 DEF IsSequence, Changed
<1>3. CASE same # {}
  <2> DEFINE k == Min(same)
  <2>1. same \in SUBSET Nat
    BY <1>1
  <2> HIDE DEF same
  <2>2. k \in same
    BY <1>3, <2>1, NatMin
  <2>3. k \in DOMAIN u /\ u[k].id = e.id /\ k \in Nat
    BY <2>1, <2>2 DEF same
  <2>4. n = [u EXCEPT ![k] = e]
    BY <1>3 DEF PutUtxLine, same
  <2> HIDE DEF k
  <2>5. u \in Seq(S \cup {e}) /\ e \in S \cup {e}
    BY <1>1
  <2>6. n \in Seq(S \cup {e})
    BY <2>3, <2>4, <2>5
  <2>7. DOMAIN n = DOMAIN u /\ n[k] = e /\ \A i \in DOMAIN u \ {k} : n[i] = u[i]
    BY <2>3, <2>4
  <2> QED BY <2>3, <2>6, <2>7 DEF IsSequence, Changed
<1> QED BY <1>2, <1>3

\* An entry that is put for one line does not take the place of another's.
LEMMA PutKeeps ==
  ASSUME LinesApart, NEW u, IsSequence(u), OnLines(u), NEW e, NEW l \in DOMAIN Name,
         e.line = Name[l], e.id = LineId[l]
  PROVE  LET n == PutUtxLine(u, e) IN
         /\ IsSequence(n) /\ OnLines(n)
         /\ Entries(u) /\ IsEntry(e) => Entries(n)
         /\ \A w : Shown(w, u) /\ w.pid # e.pid /\ w.job.line # l => Shown(w, n)
         /\ \A m : NoneLater(u, m) /\ e.pid \notin m + 1 .. MaxJobs => NoneLater(n, m)
<1> DEFINE n == PutUtxLine(u, e)
<1>0. PICK k \in Nat : Changed(u, n, e, k)
  BY Put
<1> HIDE DEF n
<1>1. /\ IsSequence(n) /\ DOMAIN n = DOMAIN u \cup {k} /\ n[k] = e
      /\ k \in DOMAIN u => u[k].id = e.id
      /\ \A i \in DOMAIN u \ {k} : n[i] = u[i]
  BY <1>0 DEF Changed
<1>2. OnLines(n)
  BY <1>1 DEF OnLines, LinesApart
<1>3. ASSUME NEW w, Shown(w, u), w.pid # e.pid, w.job.line # l PROVE Shown(w, n)
  <2>1. w.job.line \in DOMAIN Name /\ LineId[w.job.line] # LineId[l]
    BY <1>3 DEF Shown, LinesApart
  <2>2. \A i \in DOMAIN n : n[i].pid = w.pid /\ n[i].type \in LivingTypes
                            => n[i].line = Name[w.job.line]
    BY <1>1, <1>3 DEF Shown
  <2>3. k \in DOMAIN u => k \notin UsersOf(u, w.pid)
    <3> SUFFICES ASSUME k \in DOMAIN u, k \in UsersOf(u, w.pid) PROVE FALSE
      OBVIOUS
    <3>1. u[k].line = Name[w.job.line]
      BY <1>3 DEF UsersOf, Shown, LivingTypes
    <3> QED BY <1>1, <2>1, <3>1 DEF OnLines
  <2>4. UsersOf(n, w.pid) = UsersOf(u, w.pid)
    BY <1>1, <1>3, <2>3 DEF UsersOf
  <2>5. ASSUME w.at = "session"
        PROVE  \E j \in DOMAIN n : /\ UsersOf(n, w.pid) = {j}
                                   /\ n[j].line = Name[w.job.line] /\ n[j].user = w.name
    <3>1. PICK j \in DOMAIN u : /\ UsersOf(u, w.pid) = {j}
                                /\ u[j].line = Name[w.job.line] /\ u[j].user = w.name
      BY <1>3, <2>5 DEF Shown
    <3>2. j # k
      BY <2>3, <3>1
    <3> QED BY <1>1, <2>4, <3>1, <3>2
  <2> QED BY <1>3, <2>1, <2>2, <2>4, <2>5 DEF Shown
<1>4. ASSUME NEW m, NoneLater(u, m), e.pid \notin m + 1 .. MaxJobs PROVE NoneLater(n, m)
  BY <1>1, <1>4 DEF NoneLater
<1>5. Entries(u) /\ IsEntry(e) => Entries(n)
  BY <1>1 DEF Entries
<1> QED BY <1>1, <1>2, <1>3, <1>4, <1>5 DEF n

\* The entry that is put of the process itself.
LEMMA PutOwn ==
  ASSUME NEW u, IsSequence(u), NEW e, NEW l \in DOMAIN Name, e.line = Name[l],
         \A i \in DOMAIN u : u[i].pid = e.pid /\ u[i].type \in LivingTypes => u[i].line = Name[l],
         UsersOf(u, e.pid) = {}
  PROVE  LET n == PutUtxLine(u, e) IN
         /\ \A i \in DOMAIN n : n[i].pid = e.pid /\ n[i].type \in LivingTypes => n[i].line = Name[l]
         /\ e.type # "USER" => UsersOf(n, e.pid) = {}
         /\ e.type = "USER" => \E k \in DOMAIN n : /\ UsersOf(n, e.pid) = {k}
                                                   /\ n[k].line = Name[l] /\ n[k].user = e.user
<1> DEFINE n == PutUtxLine(u, e)
<1>0. PICK k \in Nat : Changed(u, n, e, k)
  BY Put
<1> HIDE DEF n
<1>1. /\ IsSequence(n) /\ DOMAIN n = DOMAIN u \cup {k} /\ n[k] = e
      /\ k \in DOMAIN u => u[k].id = e.id
      /\ \A i \in DOMAIN u \ {k} : n[i] = u[i]
  BY <1>0 DEF Changed
<1>2. \A i \in DOMAIN n : n[i].pid = e.pid /\ n[i].type \in LivingTypes => n[i].line = Name[l]
  BY <1>1
<1>3. UsersOf(n, e.pid) = (IF e.type = "USER" THEN {k} ELSE {})
  BY <1>1 DEF UsersOf
<1> QED BY <1>1, <1>2, <1>3 DEF n

LEMMA OthersBoth == ASSUME NEW w, NEW v, OfOthers(w, v) PROVE OfOthers(v, w)
  BY DEF OfOthers

LEMMA ShowMoves ==
  ASSUME Base, ShowInv, NEW p \in Procs, NEW v, Moves(p, v),
         IsSequence(utmp'), Entries(utmp'), OnLines(utmp'), NoneLater(utmp', started'),
         started' \in Nat, started <= started',
         HasPid(v) => v.pid \in 1 .. started',
         IsLogin(v) => Shown(v, utmp'),
         \A q \in Procs \ {p} : IsLogin(work[q]) => Shown(work[q], utmp'),
         \A q \in Procs \ {p} : OfOthers(v, work[q]),
         \A s \in sessions' : \/ s \in sessions /\ s.proc # p
                              \/ /\ s.proc = p /\ v.at = "session"
                                 /\ s.job = v.job /\ s.name = v.name /\ s.pid = v.pid
  PROVE  ShowInv'
<1>1. work'[p] = v /\ \A q \in Procs \ {p} : work'[q] = work[q]
  BY Moved DEF Base
<1>2. \A q \in Procs : HasPid(work'[q]) => work'[q].pid \in 1 .. started'
  <2> SUFFICES ASSUME NEW q \in Procs, q # p, HasPid(work[q]) PROVE work[q].pid \in 1 .. started'
    BY <1>1
  <2>1. work[q].pid \in 1 .. started /\ started \in Nat
    BY DEF ShowInv, Base
  <2> QED BY <2>1
<1>3. \A q \in Procs : IsLogin(work'[q]) => Shown(work'[q], utmp')
  BY <1>1
<1>4. \A q \in Procs, r \in Procs : q # r => OfOthers(work'[q], work'[r])
  BY <1>1, OthersBoth DEF ShowInv
<1>5. \A s \in sessions' : Ongoing(s)'
  BY <1>1 DEF ShowInv, Ongoing
<1> QED BY <1>2, <1>3, <1>4, <1>5 DEF ShowInv

LEMMA WaysideShows ==
  ASSUME Base, ShowInv, NEW p \in Procs, Wayside(p)
  PROVE  ShowInv'
<1> DEFINE w == work[p]
<1>1. UNCHANGED <<utmp, started, sessions>>
  BY WaysideLeaves
<1>2. w.at \notin {"nothing", "session"}
  BY WaysideOnTheWay DEF OnTheWay
<1>3. PICK v : /\ Moves(p, v)
               /\ \/ v = Idle
                  \/ Goer(w, v) /\ v.at \notin {"nothing", "session"}
  BY WaysideOnTheWay DEF OnTheWay
<1>4. v.at \notin {"nothing", "session"} => v.job = w.job /\ v.pid = w.pid
  BY <1>3, IdleFields DEF Goer
<1>5. v.at # "session"
  BY <1>3, IdleFields
<1>6. IsLogin(w) => Shown(w, utmp)
  BY DEF ShowInv
<1>7. HasPid(w) => w.pid \in 1 .. started
  BY DEF ShowInv
<1>8. \A q \in Procs \ {p} : OfOthers(w, work[q])
  BY DEF ShowInv
<1>9. \A s \in sessions : s.proc # p
  BY <1>2 DEF ShowInv, Ongoing
<1>10. \A q \in Procs \ {p} : IsLogin(work[q]) => Shown(work[q], utmp)
  BY DEF ShowInv
<1>11. started \in Nat /\ IsSequence(utmp) /\ Entries(utmp) /\ OnLines(utmp) /\ NoneLater(utmp, started)
  BY DEF ShowInv, Base
<1> HIDE DEF w
<1>12. IsLogin(v) => Shown(v, utmp)
  BY <1>2, <1>4, <1>5, <1>6 DEF IsLogin, Shown
<1>13. HasPid(v) => v.pid \in 1 .. started
  BY <1>2, <1>4, <1>5, <1>7 DEF HasPid
<1>14. \A q \in Procs \ {p} : OfOthers(v, work[q])
  BY <1>2, <1>4, <1>5, <1>8 DEF OfOthers, HasPid, IsLogin
<1> QED BY <1>1, <1>3, <1>9, <1>10, <1>11, <1>12, <1>13, <1>14, ShowMoves

\* The entry of a session has the id of its line.
LEMMA EntryId ==
  ASSUME NEW u, IsSequence(u), OnLines(u), NEW l \in DOMAIN Name, NEW pid, NEW name, NEW host,
         \A i \in DOMAIN u : u[i].pid = pid /\ u[i].type \in LivingTypes => u[i].line = Name[l]
  PROVE  LET e == PrepareUtmp(name, l, host, GetCurrentUtmp(u, pid, l), pid) IN
         e.id = LineId[l] /\ e.line = Name[l] /\ e.pid = pid /\ e.type = "USER" /\ e.user = name /\ IsEntry(e)
<1> DEFINE current == GetCurrentUtmp(u, pid, l)
           own == OwnEntries(u, pid)
           held == IF OnLine(u, own, l) # {} THEN OnLine(u, own, l)
                   ELSE IF own # {} THEN own ELSE OnLine(u, OtherGettys(u, pid), l)
<1>1. current = FirstEntry(u, held)
  BY DEF GetCurrentUtmp
<1>2. \A i \in held : i \in DOMAIN u /\ u[i].line = Name[l]
  BY DEF OnLine, OwnEntries, Living, OtherGettys
<1> HIDE DEF held
<1>3. held \in SUBSET Nat
  BY <1>2 DEF IsSequence
<1>4. current = <<>> \/ current[1].id = LineId[l]
  <2>1. CASE held = {}
    BY <1>1, <2>1 DEF FirstEntry
  <2>2. CASE held # {}
    <3>1. Min(held) \in held
      BY <1>3, <2>2, NatMin
    <3>2. current = <<u[Min(held)]>>
      BY <1>1, <2>2 DEF FirstEntry
    <3> QED BY <1>2, <3>1, <3>2 DEF OnLines
  <2> QED BY <2>1, <2>2
<1> HIDE DEF current
<1>5. LET e == PrepareUtmp(name, l, host, current, pid) IN
      e.id = LineId[l] /\ e.line = Name[l] /\ e.pid = pid /\ e.type = "USER" /\ e.user = name /\ IsEntry(e)
  BY <1>4 DEF PrepareUtmp, IsEntry
<1> QED BY <1>5 DEF current

LEMMA OpenLoginShows ==
  ASSUME LinesApart, Base, ShowInv, NEW p \in Procs, OpenLogin(p)
  PROVE  ShowInv'
<1> DEFINE w == work[p]
           l == w.job.line
           e == PrepareUtmp(w.name, l, w.job.host, GetCurrentUtmp(utmp, w.pid, l), w.pid)
<1>1. w.at = "open" /\ IsLogin(w) /\ HasPid(w)
  BY RunsAt DEF OpenLogin, At, IsLogin, HasPid
<1>2. /\ utmp' = PutUtxLine(utmp, e) /\ started' = started
      /\ Opens(p, w.account.gid, "own") /\ Goes(p, "session")
  BY DEF OpenLogin, UpdateUtmp
<1>3. PICK v : Moves(p, v) /\ Goer(w, v) /\ v.at = "session" /\ SameUser(w, v)
  BY <1>2, Went
<1>4. Shown(w, utmp) /\ w.pid \in 1 .. started
  BY <1>1 DEF ShowInv
<1>5. \A q \in Procs \ {p} : OfOthers(w, work[q]) /\ (IsLogin(work[q]) => Shown(work[q], utmp))
  BY DEF ShowInv
<1>6. \A s \in sessions' : \/ s \in sessions /\ s.proc # p
                           \/ s.proc = p /\ s.job = w.job /\ s.name = w.name /\ s.pid = w.pid
  BY <1>1, <1>2 DEF Opens, ShowInv, Ongoing
<1>7. started \in Nat /\ IsSequence(utmp) /\ Entries(utmp) /\ OnLines(utmp) /\ NoneLater(utmp, started)
  BY DEF ShowInv, Base
<1>8. l \in DOMAIN Name
  BY <1>4 DEF Shown
<1> HIDE DEF w
<1>9. e.id = LineId[l] /\ e.line = Name[l] /\ e.pid = w.pid /\ e.type = "USER"
      /\ e.user = w.name /\ IsEntry(e)
  BY <1>4, <1>7, <1>8, EntryId DEF Shown
<1> HIDE DEF e
<1>10. e.pid \notin started + 1 .. MaxJobs
  BY <1>4, <1>7, <1>9
<1>11. /\ IsSequence(utmp') /\ Entries(utmp') /\ OnLines(utmp') /\ NoneLater(utmp', started)
       /\ \A x : Shown(x, utmp) /\ x.pid # w.pid /\ x.job.line # l => Shown(x, utmp')
  BY <1>2, <1>7, <1>8, <1>9, <1>10, PutKeeps
<1>12. /\ \A i \in DOMAIN utmp' : utmp'[i].pid = w.pid /\ utmp'[i].type \in LivingTypes
                                  => utmp'[i].line = Name[l]
       /\ \E k \in DOMAIN utmp' : /\ UsersOf(utmp', w.pid) = {k}
                                  /\ utmp'[k].line = Name[l] /\ utmp'[k].user = w.name
  <2>1. w.at # "session" /\ w.job.line = l
    BY <1>1 DEF l
  <2>2. /\ UsersOf(utmp, w.pid) = {}
        /\ \A i \in DOMAIN utmp : utmp[i].pid = w.pid /\ utmp[i].type \in LivingTypes => utmp[i].line = Name[l]
    BY <1>4, <2>1 DEF Shown
  <2> HIDE DEF l
  <2>3. PICK n : n = PutUtxLine(utmp, e)
    OBVIOUS
  <2>4. IsSequence(utmp) /\ e.line = Name[l] /\ e.pid = w.pid /\ e.type = "USER" /\ e.user = w.name
    BY <1>7, <1>9
  <2>5. UsersOf(utmp, e.pid) = {}
    BY <2>2, <2>4
  <2>6. \A i \in DOMAIN utmp : utmp[i].pid = e.pid /\ utmp[i].type \in LivingTypes => utmp[i].line = Name[l]
    BY <2>2, <2>4
  <2>7. /\ \A i \in DOMAIN n : n[i].pid = e.pid /\ n[i].type \in LivingTypes => n[i].line = Name[l]
        /\ e.type = "USER" => \E k \in DOMAIN n : /\ UsersOf(n, e.pid) = {k}
                                                  /\ n[k].line = Name[l] /\ n[k].user = e.user
    BY <1>8, <2>3, <2>4, <2>5, <2>6, PutOwn
  <2> QED BY <1>2, <2>3, <2>4, <2>7
<1>13. Shown(v, utmp')
  BY <1>3, <1>8, <1>12 DEF Shown, Goer, SameUser
<1>14. \A q \in Procs \ {p} : IsLogin(work[q]) => Shown(work[q], utmp')
  BY <1>1, <1>5, <1>11 DEF OfOthers, HasPid, IsLogin
<1>15. \A q \in Procs \ {p} : OfOthers(v, work[q])
  BY <1>1, <1>3, <1>5 DEF OfOthers, HasPid, IsLogin, Goer
<1>16. v.pid \in 1 .. started /\ v.job = w.job /\ v.name = w.name /\ v.pid = w.pid
  BY <1>3, <1>4 DEF Goer, SameUser
<1> QED BY <1>2, <1>3, <1>6, <1>7, <1>11, <1>13, <1>14, <1>15, <1>16, ShowMoves

LEMMA OpenOtherShows ==
  ASSUME Base, ShowInv, NEW p \in Procs, OpenSu(p) \/ OpenNewgrp(p) \/ OpenSulogin(p)
  PROVE  ShowInv'
<1> DEFINE w == work[p]
<1>1. w.at = "open" /\ w.job.tool \in {"su", "newgrp", "sulogin"}
  BY DEF OpenSu, OpenNewgrp, OpenSulogin, At
<1>2. /\ UNCHANGED <<utmp, started>> /\ Goes(p, "session")
      /\ \E gid, shell : Opens(p, gid, shell)
  BY DEF OpenSu, OpenNewgrp, OpenSulogin, files
<1>3. PICK v : Moves(p, v) /\ Goer(w, v) /\ v.at = "session" /\ SameUser(w, v)
  BY <1>2, Went
<1>4. HasPid(w) /\ w.pid \in 1 .. started
  BY <1>1 DEF ShowInv, HasPid
<1>5. \A q \in Procs \ {p} : OfOthers(w, work[q]) /\ (IsLogin(work[q]) => Shown(work[q], utmp))
  BY DEF ShowInv
<1>6. \A s \in sessions' : \/ s \in sessions /\ s.proc # p
                           \/ s.proc = p /\ s.job = w.job /\ s.name = w.name /\ s.pid = w.pid
  BY <1>1, <1>2 DEF Opens, ShowInv, Ongoing
<1>7. started \in Nat /\ IsSequence(utmp) /\ Entries(utmp) /\ OnLines(utmp) /\ NoneLater(utmp, started)
  BY DEF ShowInv, Base
<1> HIDE DEF w
<1>8. ~IsLogin(v) /\ v.pid \in 1 .. started /\ v.job = w.job /\ v.name = w.name /\ v.pid = w.pid
  BY <1>1, <1>3, <1>4 DEF IsLogin, Goer, SameUser
<1>9. \A q \in Procs \ {p} : OfOthers(v, work[q])
  BY <1>1, <1>3, <1>4, <1>5, <1>8 DEF OfOthers, HasPid, IsLogin
<1> QED BY <1>2, <1>3, <1>5, <1>6, <1>7, <1>8, <1>9, ShowMoves

LEMMA LogoutShows ==
  ASSUME Base, ShowInv, NEW p \in Procs, Logout(p)
  PROVE  ShowInv'
<1> DEFINE w == work[p]
           dead == [i \in DOMAIN utmp |->
                      IF utmp[i].pid = w.pid THEN [utmp[i] EXCEPT !.type = "DEAD"] ELSE utmp[i]]
<1>1. /\ w.at = "session" /\ Moves(p, Idle) /\ started' = started
      /\ sessions' = {s \in sessions : s.proc # p}
      /\ utmp' = utmp \/ utmp' = dead
  BY DEF Logout, At, Exits
<1>2. HasPid(w)
  BY <1>1, RunsAt DEF HasPid, PlaceOf
<1>3. \A q \in Procs \ {p} : OfOthers(w, work[q]) /\ (IsLogin(work[q]) => Shown(work[q], utmp))
  BY DEF ShowInv
<1>4. started \in Nat /\ IsSequence(utmp) /\ Entries(utmp) /\ OnLines(utmp) /\ NoneLater(utmp, started)
  BY DEF ShowInv, Base
<1> HIDE DEF w
<1>5. \A i \in DOMAIN utmp : /\ utmp[i].pid # w.pid => dead[i] = utmp[i]
                             /\ dead[i].pid = utmp[i].pid /\ dead[i].line = utmp[i].line
                             /\ dead[i].id = utmp[i].id /\ IsEntry(dead[i])
  <2> TAKE i \in DOMAIN utmp
  <2> DEFINE x == utmp[i]
  <2>1. CASE x.pid # w.pid
    BY <1>4, <2>1 DEF Entries
  <2>2. CASE x.pid = w.pid
    <3>1. IsEntry(x)
      BY <1>4 DEF Entries
    <3>2. dead[i] = [x EXCEPT !.type = "DEAD"]
      BY <2>2
    <3> HIDE DEF x
    <3>3. [x EXCEPT !.type = "DEAD"] = [type |-> "DEAD", pid |-> x.pid, line |-> x.line,
                                        user |-> x.user, id |-> x.id, host |-> x.host]
      BY <3>1 DEF IsEntry
    <3> QED BY <2>2, <3>2, <3>3 DEF x, IsEntry
  <2> QED BY <2>1, <2>2
<1>6. DOMAIN dead = DOMAIN utmp
  OBVIOUS
<1>7. IsSequence(dead)
  <2>1. PICK S : utmp \in Seq(S)
    BY <1>4 DEF IsSequence
  <2>2. Len(utmp) \in Nat /\ DOMAIN utmp = 1 .. Len(utmp)
    BY <2>1
  <2>3. dead \in [1 .. Len(utmp) -> {dead[i] : i \in DOMAIN utmp}]
    BY <2>2
  <2>4. dead \in Seq({dead[i] : i \in DOMAIN utmp})
    BY <2>2, <2>3
  <2> QED BY <2>4 DEF IsSequence
<1> HIDE DEF dead
<1>8. OnLines(dead) /\ NoneLater(dead, started) /\ Entries(dead)
  BY <1>4, <1>5, <1>6 DEF OnLines, NoneLater, Entries
<1>9. \A x : Shown(x, utmp) /\ x.pid # w.pid => Shown(x, dead)
  <2> SUFFICES ASSUME NEW x, Shown(x, utmp), x.pid # w.pid PROVE Shown(x, dead)
    OBVIOUS
  <2>1. UsersOf(dead, x.pid) = UsersOf(utmp, x.pid)
    BY <1>5, <1>6 DEF UsersOf
  <2>2. \A i \in DOMAIN dead : dead[i].pid = x.pid => dead[i] = utmp[i] /\ i \in DOMAIN utmp
    BY <1>5, <1>6
  <2>3. \A k : UsersOf(utmp, x.pid) = {k} => dead[k] = utmp[k] /\ k \in DOMAIN dead
    BY <1>5, <1>6 DEF UsersOf
  <2> QED BY <2>1, <2>2, <2>3 DEF Shown
<1>10. \A q \in Procs \ {p} : IsLogin(work[q]) => Shown(work[q], utmp')
  BY <1>1, <1>2, <1>3, <1>9 DEF OfOthers, HasPid, IsLogin
<1>11. IsSequence(utmp') /\ Entries(utmp') /\ OnLines(utmp') /\ NoneLater(utmp', started)
  BY <1>1, <1>4, <1>7, <1>8
<1>12. ~HasPid(Idle) /\ ~IsLogin(Idle) /\ \A x : OfOthers(Idle, x)
  BY IdleFields DEF HasPid, IsLogin, OfOthers
<1> QED BY <1>1, <1>4, <1>10, <1>11, <1>12, ShowMoves

LEMMA StartShows ==
  ASSUME LinesApart, Base, ShowInv, NEW p \in Procs, Start(p)
  PROVE  ShowInv'
<1>1. /\ work[p].at = "nothing" /\ started' = started + 1 /\ started < MaxJobs
      /\ sessions' = sessions
  BY DEF Start, At
<1>2. PICK job \in site.jobs :
        \/ StartLogin(p, job) \/ StartSu(p, job) \/ StartNewgrp(p, job)
        \/ StartSulogin(p, job) \/ StartFaillog(p, job)
  BY DEF Start
<1>3. started \in Nat /\ MaxJobs \in Nat /\ NoneLater(utmp, started)
  BY SessionsAssumption DEF Base, ShowInv
<1>4. /\ started' \in Nat /\ started <= started' /\ started + 1 \in 1 .. started'
      /\ started + 1 \in started + 1 .. MaxJobs
  BY <1>1, <1>3
<1>5. NoneLater(utmp, started')
  BY <1>1, <1>3 DEF NoneLater
<1>6. IsSequence(utmp) /\ Entries(utmp) /\ OnLines(utmp)
  BY DEF ShowInv
<1>7. \A q \in Procs \ {p} : HasPid(work[q]) => work[q].pid # started + 1
  <2> TAKE q \in Procs \ {p}
  <2>1. HasPid(work[q]) => work[q].pid \in 1 .. started
    BY DEF ShowInv
  <2> QED BY <1>3, <2>1
<1>8. \A q \in Procs \ {p} : IsLogin(work[q]) => Shown(work[q], utmp)
  BY DEF ShowInv
<1>9. \A s \in sessions' : s \in sessions /\ s.proc # p
  BY <1>1 DEF ShowInv, Ongoing
<1>10. ASSUME NEW v, Moves(p, v), v.job = job, job.tool # "login", v.at # "session", utmp' = utmp,
              job.tool # "faillog" => v.pid = started + 1
       PROVE  ShowInv'
  <2>1. ~IsLogin(v) /\ (HasPid(v) => v.pid = started + 1)
    BY <1>10 DEF IsLogin, HasPid
  <2>2. \A q \in Procs \ {p} : OfOthers(v, work[q])
    BY <1>7, <2>1 DEF OfOthers
  <2>3. IsSequence(utmp') /\ Entries(utmp') /\ OnLines(utmp') /\ NoneLater(utmp', started')
    BY <1>5, <1>6, <1>10
  <2>4. \A q \in Procs \ {p} : IsLogin(work[q]) => Shown(work[q], utmp')
    BY <1>8, <1>10
  <2> QED BY <1>4, <1>9, <1>10, <2>1, <2>2, <2>3, <2>4, ShowMoves
<1>11. CASE StartSu(p, job)
  <2> DEFINE v == [Idle EXCEPT !.job = job, !.at = "permission", !.name = job.name,
                               !.pid = started + 1]
  <2>1. Moves(p, v) /\ job.tool = "su" /\ utmp' = utmp
    BY <1>11 DEF StartSu, files
  <2>2. v.job = job /\ v.at # "session" /\ v.pid = started + 1
    BY IdleFields DEF IsWork
  <2> HIDE DEF v
  <2> QED BY <1>10, <2>1, <2>2
<1>12. CASE StartNewgrp(p, job)
  <2> DEFINE v == [Idle EXCEPT !.job = job, !.at = "group", !.name = job.caller, !.pid = started + 1]
  <2>1. Moves(p, v) /\ job.tool = "newgrp" /\ utmp' = utmp
    BY <1>12 DEF StartNewgrp, files
  <2>2. v.job = job /\ v.at # "session" /\ v.pid = started + 1
    BY IdleFields DEF IsWork
  <2> HIDE DEF v
  <2> QED BY <1>10, <2>1, <2>2
<1>13. CASE StartSulogin(p, job)
  <2> DEFINE v == [Idle EXCEPT !.job = job, !.at = "look", !.name = "root", !.pid = started + 1]
  <2>1. Moves(p, v) /\ job.tool = "sulogin" /\ utmp' = utmp
    BY <1>13 DEF StartSulogin, files
  <2>2. v.job = job /\ v.at # "session" /\ v.pid = started + 1
    BY IdleFields DEF IsWork
  <2> HIDE DEF v
  <2> QED BY <1>10, <2>1, <2>2
<1>14. CASE StartFaillog(p, job)
  <2> DEFINE v == [Idle EXCEPT !.job = job, !.at = "options", !.ops = job.ops,
                               !.size = Cardinality(DOMAIN faillog)]
  <2>1. Moves(p, v) /\ job.tool = "faillog" /\ utmp' = utmp
    BY <1>14 DEF StartFaillog, files
  <2>2. v.job = job /\ v.at # "session"
    BY IdleFields DEF IsWork
  <2> HIDE DEF v
  <2> QED BY <1>10, <2>1, <2>2
<1>15. CASE StartLogin(p, job)
  <2> DEFINE v == [Idle EXCEPT !.job = job, !.at = "look", !.name = job.name, !.pid = started + 1,
                               !.preauth = job.preauth, !.retries = site.retries]
             e == GettyEntry(job.line, started + 1)
  <2>1. /\ Moves(p, v) /\ job.tool = "login" /\ Free(job.line)
        /\ utmp' = IF job.getty THEN PutUtxLine(utmp, e) ELSE utmp
    BY <1>15 DEF StartLogin
  <2>2. v.job = job /\ v.at = "look" /\ v.pid = started + 1
    BY IdleFields DEF IsWork
  <2>3. /\ e.line = Name[job.line] /\ e.id = LineId[job.line] /\ e.pid = started + 1
        /\ e.type = "LOGIN" /\ IsEntry(e)
    BY DEF GettyEntry, IsEntry
  <2>4. job.line \in DOMAIN Name
    BY <2>1, SessionsAssumption DEF Base, SiteFits, JobFits
  <2>5. \A q \in Procs \ {p} : IsLogin(work[q]) => work[q].job.line # job.line
    <3>1. \A q \in Procs : IsLogin(work[q]) => work[q].job \in site.jobs
      BY RunsAt DEF IsLogin
    <3>2. None \notin site.jobs
      BY SessionsAssumption DEF Base, SiteFits
    <3> QED BY <2>1, <3>1, <3>2 DEF Free, LoggingIn, IsLogin
  <2> HIDE DEF v, e
  <2>6. \A i \in DOMAIN utmp : utmp[i].pid # started + 1
    BY <1>3, <1>4 DEF NoneLater
  <2>7. /\ IsSequence(utmp') /\ Entries(utmp') /\ OnLines(utmp') /\ NoneLater(utmp', started')
        /\ \A q \in Procs \ {p} : IsLogin(work[q]) => Shown(work[q], utmp')
    <3>1. CASE ~job.getty
      BY <1>5, <1>6, <1>8, <2>1, <3>1
    <3>2. CASE job.getty
      <4>1. utmp' = PutUtxLine(utmp, e)
        BY <2>1, <3>2
      <4>2. e.pid \notin started' + 1 .. MaxJobs
        BY <1>1, <1>3, <2>3
      <4>3. \A q \in Procs \ {p} : IsLogin(work[q]) => work[q].pid # e.pid
        BY <1>7, <2>3 DEF IsLogin, HasPid
      <4> QED BY <1>5, <1>6, <1>8, <2>3, <2>4, <2>5, <4>1, <4>2, <4>3, PutKeeps
    <3> QED BY <3>1, <3>2
  <2>8. Shown(v, utmp')
    <3>1. UsersOf(utmp, started + 1) = {}
      BY <2>6 DEF UsersOf
    <3>2. CASE ~job.getty
      BY <2>1, <2>2, <2>4, <2>6, <3>1, <3>2 DEF Shown
    <3>3. CASE job.getty
      <4>1. utmp' = PutUtxLine(utmp, e)
        BY <2>1, <3>3
      <4>2. \A i \in DOMAIN utmp : utmp[i].pid = e.pid /\ utmp[i].type \in LivingTypes
                                   => utmp[i].line = Name[job.line]
        BY <2>3, <2>6
      <4>3. /\ \A i \in DOMAIN utmp' : utmp'[i].pid = e.pid /\ utmp'[i].type \in LivingTypes
                                       => utmp'[i].line = Name[job.line]
            /\ UsersOf(utmp', e.pid) = {}
        BY <1>6, <2>3, <2>4, <3>1, <4>1, <4>2, PutOwn
      <4> QED BY <2>2, <2>3, <2>4, <4>3 DEF Shown
    <3> QED BY <3>2, <3>3
  <2>9. \A q \in Procs \ {p} : OfOthers(v, work[q])
    BY <1>7, <2>2, <2>5 DEF OfOthers
  <2> QED BY <1>4, <1>9, <2>1, <2>2, <2>7, <2>8, <2>9, ShowMoves
<1> QED BY <1>2, <1>11, <1>12, <1>13, <1>14, <1>15

LEMMA InitShows == ASSUME LinesApart, Init PROVE ShowInv
<1>1. site \in Sites /\ SiteFits(site) /\ utmp = site.utmp
  BY SessionsAssumption DEF Init
<1>2. IsSequence(utmp)
  BY <1>1 DEF IsSequence, SiteFits
<1>3. Entries(utmp)
  <2>1. utmp \in Seq(AnyEntry)
    BY <1>1 DEF SiteFits
  <2>2. \A e \in AnyEntry : IsEntry(e)
    BY DEF AnyEntry, IsEntry
  <2>3. \A i \in DOMAIN utmp : utmp[i] \in AnyEntry
    BY <2>1
  <2> QED BY <2>2, <2>3 DEF Entries
<1>4. OnLines(utmp) /\ NoneLater(utmp, started)
  BY <1>1, SessionsAssumption DEF OnLines, NoneLater, LinesApart, Init
<1>5. sessions = {} /\ \A p \in Procs : ~HasPid(work[p]) /\ ~IsLogin(work[p])
  BY IdleFields DEF Init, HasPid, IsLogin
<1> QED BY <1>2, <1>3, <1>4, <1>5 DEF ShowInv, OfOthers

LEMMA RestShows ==
  ASSUME ShowInv, UNCHANGED <<utmp, work, started, sessions>> PROVE ShowInv'
  BY DEF ShowInv, Ongoing

LEMMA NextShows == LinesApart /\ Base /\ ShowInv /\ [Next]_vars => ShowInv'
<1> SUFFICES ASSUME LinesApart, Base, ShowInv, [Next]_vars PROVE ShowInv'
  OBVIOUS
<1>1. ASSUME NEW p \in Procs, Start(p) \/ Logout(p) PROVE ShowInv'
  BY <1>1, StartShows, LogoutShows
<1>2. ASSUME NEW p \in Procs, LoginStep(p) \/ OtherStep(p) PROVE ShowInv'
  <2>1. \/ Wayside(p) \/ OpenLogin(p)
        \/ OpenSu(p) \/ OpenNewgrp(p) \/ OpenSulogin(p)
    BY <1>2 DEF LoginStep, OtherStep, Wayside
  <2> QED BY <2>1, WaysideShows, OpenLoginShows, OpenOtherShows
<1>3. ASSUME NEW name \in DOMAIN accounts, Locked(name) PROVE ShowInv'
  BY <1>3, RestShows DEF Locked
<1>4. CASE Maintenance \/ Tick \/ UNCHANGED vars
  BY <1>4, RestShows DEF Maintenance, Tick, vars, files
<1> QED BY <1>1, <1>2, <1>3, <1>4 DEF Next

\* Every session that login opened has one entry in utmp, with its name, its line
\* and its pid, however many processes log in, fail and end at once, if lines are
\* told apart by the ids of their entries (update_utmp, prepare_utmp).
THEOREM SessionsAreShown ==
  ASSUME LinesApart
  PROVE  Spec => []UtmpShowsSessions
<1>1. Init => Base /\ EarnInv /\ ShowInv
  BY InitBase, InitEarns, InitShows
<1>2. Base /\ EarnInv /\ ShowInv /\ [Next]_vars => Base' /\ EarnInv' /\ ShowInv'
  BY NextEarns, NextShows
<1>3. ShowInv => UtmpShowsSessions
  BY ShowInvShows
<1> QED BY <1>1, <1>2, <1>3, PTL DEF Spec

-----------------------------------------------------------------------------
(* LockedOut *)

AnyRecord == [cnt : -(ShortMax + 1) .. ShortMax, max : Nat, time : Nat, lock : Nat]

\* The file has a record for each uid up to some uid.
IsFaillog(log) ==
  /\ \E n \in Nat : DOMAIN log = 0 .. n - 1
  /\ log \in [DOMAIN log -> AnyRecord]

\* The count of a uid is that of its failures, unless it was lost.
Exact(u, log, fails, lost) ==
  u \in lost \/ fails[u] > ShortMax \/ fails[u] = Record(log, u).cnt

\* What a process has read and is going to write is what the file has.  login
\* has seen that the one who is at the reset may enter.
Reads(w, log, lost, now) ==
  /\ w.at \in {"reset", "fail", "count"} => w.account # Nobody
  /\ w.at \in {"reset", "count"} =>
       /\ w.record \in AnyRecord
       /\ w.account.uid \in lost \/ w.record = Record(log, w.account.uid)
  /\ w.at = "reset" => ~TooManyFailures(w.record, now)

\* faillog takes a uid that was beyond the end of the file for one that is, and
\* may then be wrong about its limits, but not about its count.
Maintains(w, log, lost) ==
  w.at \in {"options", "maintain", "write"} =>
    /\ w.size \in Nat /\ w.ops \in Seq(FaillogOps) /\ w.job.range \in AnyUids
    /\ \A u \in Nat : u >= w.size => u \in lost \/ Record(log, u).cnt = 0
    /\ w.at \in {"maintain", "write"} => w.op \in FaillogOps /\ w.left \subseteq Nat
    /\ w.at = "write" =>
         /\ w.uid \in Nat /\ w.record \in AnyRecord
         /\ w.uid \in lost \/ w.record.cnt = Record(log, w.uid).cnt

LockInv ==
  /\ IsFaillog(faillog)
  /\ failures \in [Uids -> Nat]
  /\ \A u \in Uids : Exact(u, faillog, failures, raced)
  /\ \A p \in Procs : Reads(work[p], faillog, raced, clock) /\ Maintains(work[p], faillog, raced)

LEMMA RecordType ==
  ASSUME NEW log, IsFaillog(log), NEW u PROVE Record(log, u) \in AnyRecord
<1>1. NoRecord \in AnyRecord
  BY SessionsAssumption DEF NoRecord, AnyRecord
<1> QED BY <1>1 DEF Record, IsFaillog

\* Whoever is not there has no record.
LEMMA NobodysRecord == ASSUME IsFaillog(faillog) PROVE None \notin DOMAIN faillog
<1>1. PICK n \in Nat : DOMAIN faillog = 0 .. n - 1
  BY DEF IsFaillog
<1>2. None \notin Nat
  BY SessionsAssumption
<1> QED BY <1>1, <1>2

LEMMA ShortFits == \A n \in 0 .. ShortMax : Short(n) = n
<1> TAKE n \in 0 .. ShortMax
<1> DEFINE w == 2 * ShortMax + 2
           x == n + ShortMax + 1
<1>1. ShortMax \in Nat
  BY SessionsAssumption
<1>2. w \in Nat /\ x \in Nat /\ x < w
  BY <1>1
<1>3. x % w = x
  <2> HIDE DEF x, w
  <2> QED BY <1>2
<1> QED BY <1>1, <1>3 DEF Short

LEMMA CountedFits ==
  ASSUME NEW r \in AnyRecord, NEW now \in Nat
  PROVE  /\ Counted(r, now) \in AnyRecord
         /\ r.cnt \in 0 .. ShortMax - 1 => Counted(r, now).cnt = r.cnt + 1
<1> DEFINE c == IF r.cnt + 1 > 0 THEN Short(r.cnt + 1) ELSE r.cnt
<1>1. ShortMax \in Nat
  BY SessionsAssumption
<1>2. r.cnt \in -(ShortMax + 1) .. ShortMax
  BY DEF AnyRecord
<1>3. \A x \in Int : x % (2 * ShortMax + 2) \in 0 .. 2 * ShortMax + 1
  <2> TAKE x \in Int
  <2> DEFINE w == 2 * ShortMax + 2
  <2>1. w \in Nat /\ w > 0
    BY <1>1
  <2> HIDE DEF w
  <2>2. x % w \in 0 .. w - 1
    BY <2>1
  <2> QED BY <1>1, <2>2 DEF w
<1>4. Short(r.cnt + 1) \in -(ShortMax + 1) .. ShortMax
  <2>1. r.cnt + 1 + ShortMax + 1 \in Int
    BY <1>1, <1>2
  <2>2. PICK x \in 0 .. 2 * ShortMax + 1 : Short(r.cnt + 1) = x - (ShortMax + 1)
    BY <1>3, <2>1 DEF Short
  <2> QED BY <1>1, <2>2
<1>5. c \in -(ShortMax + 1) .. ShortMax
  BY <1>2, <1>4
<1>6. r.cnt \in 0 .. ShortMax - 1 => c = r.cnt + 1
  <2> SUFFICES ASSUME r.cnt \in 0 .. ShortMax - 1 PROVE c = r.cnt + 1
    OBVIOUS
  <2>1. r.cnt + 1 \in 0 .. ShortMax /\ r.cnt + 1 > 0
    BY <1>1
  <2> QED BY <2>1, ShortFits
<1>7. Counted(r, now) = [r EXCEPT !.cnt = c, !.time = now]
  BY DEF Counted
<1> HIDE DEF c
<1> DEFINE v == [r EXCEPT !.cnt = c, !.time = now]
<1>8. v \in AnyRecord /\ v.cnt = c
  BY <1>5 DEF AnyRecord
<1> QED BY <1>6, <1>7, <1>8

LEMMA MaintainedFits ==
  ASSUME NEW r \in AnyRecord, NEW op \in FaillogOps
  PROVE  LET m == Maintained(r, op.do, op.value) IN
         m \in AnyRecord /\ m.cnt = IF op.do = "reset" THEN 0 ELSE r.cnt
<1>1. op.do \in {"reset", "max", "lock"} /\ op.value \in Nat /\ ShortMax \in Nat
  BY SessionsAssumption DEF FaillogOps
<1>2. /\ [r EXCEPT !.cnt = 0] = [cnt |-> 0, max |-> r.max, time |-> r.time, lock |-> r.lock]
      /\ [r EXCEPT !.max = op.value] = [cnt |-> r.cnt, max |-> op.value, time |-> r.time, lock |-> r.lock]
      /\ [r EXCEPT !.lock = op.value] = [cnt |-> r.cnt, max |-> r.max, time |-> r.time, lock |-> op.value]
  BY DEF AnyRecord
<1>3. /\ r.max \in Nat /\ r.time \in Nat /\ r.lock \in Nat /\ r.cnt \in -(ShortMax + 1) .. ShortMax
  BY DEF AnyRecord
<1>4. 0 \in -(ShortMax + 1) .. ShortMax
  BY <1>1
<1>5. CASE op.do = "reset"
  BY <1>1, <1>2, <1>3, <1>4, <1>5 DEF Maintained, AnyRecord
<1>6. CASE op.do = "max"
  BY <1>1, <1>2, <1>3, <1>6 DEF Maintained, AnyRecord
<1>7. CASE op.do = "lock"
  BY <1>1, <1>2, <1>3, <1>7 DEF Maintained, AnyRecord
<1> QED BY <1>1, <1>5, <1>6, <1>7

\* A record is written, and the records of the others are what they were.
LEMMA RecordWritten ==
  ASSUME NEW log, IsFaillog(log), NEW uid \in Nat, NEW r \in AnyRecord
  PROVE  LET new == WithRecord(log, uid, r) IN
         /\ IsFaillog(new)
         /\ Record(new, uid) = r
         /\ \A u : u # uid => Record(new, u) = Record(log, u)
<1> DEFINE new == WithRecord(log, uid, r)
<1>1. /\ DOMAIN new = DOMAIN log \cup 0 .. uid
      /\ \A u \in DOMAIN new : new[u] = IF u = uid THEN r ELSE Record(log, u)
      /\ new = [u \in DOMAIN new |-> new[u]]
  BY DEF WithRecord
<1> HIDE DEF new
<1>2. PICK n \in Nat : DOMAIN log = 0 .. n - 1
  BY DEF IsFaillog
<1>3. \E m \in Nat : DOMAIN new = 0 .. m - 1
  <2>1. CASE uid < n
    BY <1>1, <1>2, <2>1
  <2>2. CASE n <= uid
    <3>1. uid + 1 \in Nat /\ DOMAIN new = 0 .. (uid + 1) - 1
      BY <1>1, <1>2, <2>2
    <3> QED BY <3>1
  <2> QED BY <1>2, <2>1, <2>2
<1>4. \A u \in DOMAIN new : new[u] \in AnyRecord
  BY <1>1, RecordType
<1>5. uid \in DOMAIN new
  BY <1>1
<1>6. \A u : u # uid => Record(new, u) = Record(log, u)
  BY <1>1 DEF Record
<1> QED BY <1>1, <1>3, <1>4, <1>5, <1>6 DEF IsFaillog, Record, new

-----------------------------------------------------------------------------
(* How LockInv is kept *)

LEMMA LockMoves ==
  ASSUME Base, LockInv, NEW p \in Procs, NEW v, Moves(p, v),
         UNCHANGED <<faillog, failures, raced, clock>>,
         Reads(v, faillog, raced, clock), Maintains(v, faillog, raced)
  PROVE  LockInv'
<1>1. work'[p] = v /\ \A q \in Procs \ {p} : work'[q] = work[q]
  BY Moved DEF Base
<1>2. \A q \in Procs : Reads(work'[q], faillog, raced, clock) /\ Maintains(work'[q], faillog, raced)
  BY <1>1 DEF LockInv
<1> QED BY <1>2 DEF LockInv

\* Where nothing has been read of faillog.
Elsewhere == {"nothing", "look", "answer", "check", "again", "aged", "limits", "open", "session",
              "permission", "password", "hour", "group", "enter"}

LEMMA NothingRead ==
  ASSUME NEW v, v.at \in Elsewhere, NEW log, NEW lost, NEW now
  PROVE  Reads(v, log, lost, now) /\ Maintains(v, log, lost)
  BY DEF Elsewhere, Reads, Maintains

\* What others have read stays what the file has, or they are noticed.
LEMMA OthersNoticed ==
  ASSUME LockInv, NEW p \in Procs, NEW uid \in Nat, NEW r \in AnyRecord,
         WritesRecord(p, uid, r), NEW q \in Procs \ {p}
  PROVE  Reads(work[q], faillog', raced', clock) /\ Maintains(work[q], faillog', raced')
<1> DEFINE w == work[q]
<1>1. /\ IsFaillog(faillog) /\ faillog' = WithRecord(faillog, uid, r)
      /\ raced \subseteq raced' /\ (HasRead(q, uid) => uid \in raced')
  BY DEF LockInv, WritesRecord
<1>2. \A u : u # uid => Record(faillog', u) = Record(faillog, u)
  BY <1>1, RecordWritten
<1>3. Reads(w, faillog, raced, clock) /\ Maintains(w, faillog, raced)
  BY DEF LockInv
<1>4. Reads(w, faillog', raced', clock)
  <2>1. w.at \in {"reset", "count"} /\ w.account.uid = uid => uid \in raced'
    BY <1>1 DEF HasRead
  <2> QED BY <1>1, <1>2, <1>3, <2>1 DEF Reads
<1>5. Maintains(w, faillog', raced')
  <2>1. w.at \in {"options", "maintain", "write"} /\ uid >= w.size => uid \in raced'
    BY <1>1 DEF HasRead
  <2>2. w.at = "write" /\ w.uid = uid => uid \in raced'
    BY <1>1 DEF HasRead, At
  <2> QED BY <1>1, <1>2, <1>3, <2>1, <2>2 DEF Maintains
<1> QED BY <1>4, <1>5

LEMMA LockWrites ==
  ASSUME Base, LockInv, NEW p \in Procs, NEW v, Moves(p, v), UNCHANGED clock,
         NEW uid \in Nat, NEW r \in AnyRecord, WritesRecord(p, uid, r),
         failures' \in [Uids -> Nat], \A u \in Uids \ {uid} : failures'[u] = failures[u],
         uid \in Uids => uid \in raced \/ failures'[uid] > ShortMax \/ failures'[uid] = r.cnt,
         Reads(v, faillog', raced', clock), Maintains(v, faillog', raced')
  PROVE  LockInv'
<1>1. work'[p] = v /\ \A q \in Procs \ {p} : work'[q] = work[q]
  BY Moved DEF Base
<1>2. \A q \in Procs : Reads(work'[q], faillog', raced', clock') /\ Maintains(work'[q], faillog', raced')
  BY <1>1, OthersNoticed
<1>3. /\ IsFaillog(faillog') /\ Record(faillog', uid) = r /\ raced \subseteq raced'
      /\ \A u : u # uid => Record(faillog', u) = Record(faillog, u)
  BY RecordWritten DEF LockInv, WritesRecord
<1>4. \A u \in Uids : Exact(u, faillog', failures', raced')
  <2> TAKE u \in Uids
  <2>1. CASE u = uid
    BY <1>3, <2>1 DEF Exact
  <2>2. CASE u # uid
    <3>1. Exact(u, faillog, failures, raced)
      BY DEF LockInv
    <3> QED BY <1>3, <2>2, <3>1 DEF Exact
  <2> QED BY <2>1, <2>2
<1> QED BY <1>2, <1>3, <1>4 DEF LockInv

\* The uid of an account is one of those that are counted.
LEMMA UidOf ==
  ASSUME Base, NEW p \in Procs, work[p].account # Nobody
  PROVE  work[p].account.uid \in Uids /\ work[p].account.uid \in Nat
<1>1. work[p].account \in AnyAccount
  BY DEF Base, SomeAccount
<1>2. work[p].account.uid \in 0 .. MaxUid
  BY <1>1 DEF AnyAccount, Uids
<1> QED BY <1>2, SessionsAssumption DEF Uids

LEMMA FailCheckLocks ==
  ASSUME Base, LockInv, NEW p \in Procs, FailCheck(p) PROVE LockInv'
<1> DEFINE w == work[p]
           uid == w.account.uid
           many == TooManyFailures(Record(faillog, uid), clock)
           failed == w.failed \/ (CountsFailures(p) /\ many)
<1>1. PICK v :
        /\ Moves(p, v)
        /\ v.record = IF CountsFailures(p) THEN Record(faillog, uid) ELSE NoRecord
        /\ v.at = CASE failed -> IF CountsFailures(p) THEN "fail" ELSE "again"
                    [] ~failed /\ CountsFailures(p) /\ uid \in DOMAIN faillog -> "reset"
                    [] OTHER -> "enter"
        /\ v.account = w.account
  BY FailCheckFacts
<1>2. UNCHANGED <<faillog, failures, raced, clock>>
  BY DEF FailCheck, OnlyMoves, files, history
<1>3. Record(faillog, uid) \in AnyRecord
  BY RecordType DEF LockInv
<1>4. v.at \in {"fail", "again", "reset", "enter"}
  BY <1>1
<1>5. v.at = "reset" => ~many /\ CountsFailures(p)
  BY <1>1
<1>6. v.at = "fail" => CountsFailures(p)
  BY <1>1
<1>7. Reads(v, faillog, raced, clock)
  BY <1>1, <1>3, <1>4, <1>5, <1>6 DEF Reads, CountsFailures
<1>8. Maintains(v, faillog, raced)
  BY <1>4 DEF Maintains
<1> QED BY <1>1, <1>2, <1>7, <1>8, LockMoves

LEMMA FailureReadLocks ==
  ASSUME Base, LockInv, NEW p \in Procs, FailureRead(p) PROVE LockInv'
<1>1. PICK v : /\ Moves(p, v) /\ v.at = "count" /\ v.account = work[p].account
               /\ v.record = Record(faillog, work[p].account.uid)
  BY FailureReadFacts
<1>2. UNCHANGED <<faillog, failures, raced, clock>> /\ work[p].at = "fail"
  BY DEF FailureRead, At, OnlyMoves, files, history
<1>3. work[p].account # Nobody /\ v.record \in AnyRecord
  BY <1>1, <1>2, RecordType DEF LockInv, Reads
<1>4. Reads(v, faillog, raced, clock) /\ Maintains(v, faillog, raced)
  BY <1>1, <1>3 DEF Reads, Maintains
<1> QED BY <1>1, <1>2, <1>4, LockMoves

LEMMA ClearCountLocks ==
  ASSUME Base, LockInv, NEW p \in Procs, ClearCount(p) PROVE LockInv'
<1> DEFINE w == work[p]
           uid == w.account.uid
           r == [w.record EXCEPT !.cnt = 0]
<1>1. /\ w.at = "reset" /\ WritesRecord(p, uid, r) /\ Goes(p, "enter") /\ clock' = clock
      /\ failures' = [failures EXCEPT ![uid] = 0]
  BY DEF ClearCount, At
<1>2. PICK v : Moves(p, v) /\ v.at = "enter"
  BY <1>1, Went
<1>3. uid \in Uids /\ uid \in Nat /\ w.record \in AnyRecord
  BY <1>1, UidOf DEF LockInv, Reads
<1>4. r \in AnyRecord /\ r.cnt = 0
  <2>1. 0 \in -(ShortMax + 1) .. ShortMax
    BY SessionsAssumption
  <2> HIDE DEF w
  <2> QED BY <1>3, <2>1 DEF AnyRecord
<1>5. failures' \in [Uids -> Nat] /\ failures'[uid] = 0 /\ \A u \in Uids \ {uid} : failures'[u] = failures[u]
  BY <1>1, <1>3 DEF LockInv
<1>6. Reads(v, faillog', raced', clock) /\ Maintains(v, faillog', raced')
  BY <1>2, NothingRead DEF Elsewhere
<1> HIDE DEF r, uid
<1> QED BY <1>1, <1>2, <1>3, <1>4, <1>5, <1>6, LockWrites

LEMMA FailureWriteLocks ==
  ASSUME Base, LockInv, NEW p \in Procs, FailureWrite(p) PROVE LockInv'
<1> DEFINE w == work[p]
           uid == w.account.uid
           r == Counted(w.record, clock)
<1>1. /\ w.at = "count" /\ WritesRecord(p, uid, r) /\ Goes(p, "again") /\ clock' = clock
      /\ failures' = [failures EXCEPT ![uid] = @ + 1]
  BY DEF FailureWrite, At
<1>2. PICK v : Moves(p, v) /\ v.at = "again"
  BY <1>1, Went
<1>3. /\ uid \in Uids /\ uid \in Nat /\ w.record \in AnyRecord
      /\ uid \in raced \/ w.record = Record(faillog, uid)
  BY <1>1, UidOf DEF LockInv, Reads
<1>4. r \in AnyRecord /\ (w.record.cnt \in 0 .. ShortMax - 1 => r.cnt = w.record.cnt + 1)
  BY <1>3, CountedFits DEF Base
<1>5. /\ failures' \in [Uids -> Nat] /\ failures'[uid] = failures[uid] + 1
      /\ failures[uid] \in Nat /\ \A u \in Uids \ {uid} : failures'[u] = failures[u]
  BY <1>1, <1>3 DEF LockInv
<1>6. uid \in raced \/ failures'[uid] > ShortMax \/ failures'[uid] = r.cnt
  <2>1. uid \in raced \/ failures[uid] > ShortMax \/ failures[uid] = w.record.cnt
    BY <1>3 DEF LockInv, Exact
  <2>2. ShortMax \in Nat
    BY SessionsAssumption
  <2> HIDE DEF w, uid, r
  <2> QED BY <1>4, <1>5, <2>1, <2>2
<1>7. Reads(v, faillog', raced', clock) /\ Maintains(v, faillog', raced')
  BY <1>2, NothingRead DEF Elsewhere
<1> HIDE DEF r, uid
<1> QED BY <1>1, <1>2, <1>3, <1>4, <1>5, <1>6, <1>7, LockWrites

LEMMA FaillogRuns ==
  ASSUME Base, NEW p \in Procs, work[p].at \in {"options", "maintain", "write"}
  PROVE  work[p].job.ops \in Seq(FaillogOps) /\ work[p].job.range \in AnyUids
<1>1. work[p].job \in site.jobs /\ work[p].job.tool = "faillog"
  BY RunsAt DEF PlaceOf
<1>2. JobFits(work[p].job)
  BY <1>1, SessionsAssumption DEF Base, SiteFits
<1> QED BY <1>1, <1>2 DEF JobFits

LEMMA SelectedAreUids ==
  ASSUME NEW do, NEW range \in AnyUids, NEW all, NEW size, NEW users \in SUBSET Nat
  PROVE  SelectedUids(do, range, all, size, users) \subseteq Nat
<1>1. /\ range.min # None => range.min \in Nat
      /\ (IF range.min = None THEN 0 ELSE range.min) \in Nat
  BY DEF AnyUids
<1>2. \A low \in Nat : \A high : low .. high \subseteq Nat
  OBVIOUS
<1> QED BY <1>1, <1>2 DEF SelectedUids

LEMMA NextOptionLocks ==
  ASSUME Base, LockInv, NEW p \in Procs, NextOption(p) PROVE LockInv'
<1> DEFINE w == work[p]
<1>1. UNCHANGED <<faillog, failures, raced, clock>> /\ w.at = "options"
  BY DEF NextOption, At, OnlyMoves, files, history
<1>2. CASE Exits(p)
  BY <1>1, <1>2, LockMoves, NothingRead, IdleFields DEF Exits, Elsewhere
<1>3. CASE ~Exits(p)
  <2> DEFINE users == {accounts[n].uid : n \in DOMAIN accounts}
  <2>1. PICK v :
          /\ Moves(p, v) /\ Goer(w, v) /\ w.ops # <<>> /\ v.at = "maintain"
          /\ v.op = Head(w.ops) /\ v.ops = Tail(w.ops) /\ v.size = w.size
          /\ v.left = SelectedUids(Head(w.ops).do, w.job.range, w.job.all, w.size, users)
    BY <1>3, NextOptionFacts
  <2>2. Maintains(w, faillog, raced)
    BY DEF LockInv
  <2>3. w.ops \in Seq(FaillogOps) /\ w.job.range \in AnyUids
    BY <1>1, <2>2 DEF Maintains
  <2>4. v.op \in FaillogOps /\ v.ops \in Seq(FaillogOps)
    <3> HIDE DEF w
    <3> QED BY <2>1, <2>3
  <2>5. users \in SUBSET Nat
    BY SessionsAssumption DEF Base, AnyAccount, Uids
  <2>6. v.left \subseteq Nat
    <3> HIDE DEF w, users
    <3>1. SelectedUids(Head(w.ops).do, w.job.range, w.job.all, w.size, users) \subseteq Nat
      BY <2>3, <2>5, SelectedAreUids
    <3> QED BY <2>1, <3>1
  <2>7. Maintains(v, faillog, raced)
    BY <1>1, <2>1, <2>2, <2>3, <2>4, <2>6 DEF Maintains, Goer
  <2>8. Reads(v, faillog, raced, clock)
    BY <2>1 DEF Reads
  <2> QED BY <1>1, <2>1, <2>7, <2>8, LockMoves
<1> QED BY <1>2, <1>3

LEMMA MaintainReadLocks ==
  ASSUME Base, LockInv, NEW p \in Procs, MaintainRead(p) PROVE LockInv'
<1> DEFINE w == work[p]
<1>1. UNCHANGED <<faillog, failures, raced, clock>> /\ w.at = "maintain"
  BY DEF MaintainRead, At, OnlyMoves, files, history
<1>2. Maintains(w, faillog, raced)
  BY DEF LockInv
<1>3. CASE Goes(p, "options")
  <2>1. PICK v : /\ Moves(p, v) /\ Goer(w, v) /\ v.at = "options" /\ v.size = w.size /\ v.ops = w.ops
    BY <1>3, Went DEF SameSize
  <2>2. Maintains(v, faillog, raced) /\ Reads(v, faillog, raced, clock)
    BY <1>1, <1>2, <2>1 DEF Maintains, Reads, Goer
  <2> QED BY <1>1, <2>1, <2>2, LockMoves
<1>4. CASE \E uid \in w.left : Moves(p, [w EXCEPT !.left = @ \ {uid}])
  <2>0. PICK uid : Moves(p, [w EXCEPT !.left = @ \ {uid}])
    BY <1>4
  <2>1. PICK v : /\ Moves(p, v) /\ Goer(w, v) /\ v.at = w.at /\ v.size = w.size
                 /\ v.ops = w.ops /\ v.op = w.op /\ v.left = w.left \ {uid}
    BY <2>0, Skipped DEF SameSize
  <2>2. Maintains(v, faillog, raced) /\ Reads(v, faillog, raced, clock)
    BY <1>1, <1>2, <2>1 DEF Maintains, Reads, Goer
  <2> QED BY <1>1, <2>1, <2>2, LockMoves
<1>5. CASE ~(Goes(p, "options") \/ \E uid \in w.left : Moves(p, [w EXCEPT !.left = @ \ {uid}]))
  <2>1. PICK v, uid :
          /\ Moves(p, v) /\ Goer(w, v) /\ uid \in w.left /\ v.left = w.left \ {uid}
          /\ v.at = "write" /\ v.uid = uid /\ v.size = w.size /\ v.ops = w.ops /\ v.op = w.op
          /\ v.record = IF uid < w.size THEN Record(faillog, uid) ELSE NoRecord
    BY <1>5, MaintainWritesFacts
  <2>2. uid \in Nat
    BY <1>1, <1>2, <2>1 DEF Maintains
  <2>3. v.record \in AnyRecord
    BY <2>1, RecordType, SessionsAssumption DEF LockInv, NoRecord, AnyRecord
  <2>4. uid \in raced \/ v.record.cnt = Record(faillog, uid).cnt
    <3>1. CASE uid < w.size
      BY <2>1, <3>1
    <3>2. CASE ~(uid < w.size)
      <4>1. uid >= w.size
        BY <1>1, <1>2, <2>2, <3>2 DEF Maintains
      <4>2. uid \in raced \/ Record(faillog, uid).cnt = 0
        BY <1>1, <1>2, <2>2, <4>1 DEF Maintains
      <4> QED BY <2>1, <3>2, <4>2 DEF NoRecord
    <3> QED BY <3>1, <3>2
  <2>5. Maintains(v, faillog, raced)
    BY <1>1, <1>2, <2>1, <2>2, <2>3, <2>4 DEF Maintains, Goer
  <2>6. Reads(v, faillog, raced, clock)
    BY <2>1 DEF Reads
  <2> QED BY <1>1, <2>1, <2>5, <2>6, LockMoves
<1> QED BY <1>3, <1>4, <1>5

LEMMA MaintainWriteLocks ==
  ASSUME Base, LockInv, NEW p \in Procs, MaintainWrite(p) PROVE LockInv'
<1> DEFINE w == work[p]
           r == Maintained(w.record, w.op.do, w.op.value)
<1>1. /\ w.at = "write" /\ WritesRecord(p, w.uid, r) /\ Goes(p, "maintain") /\ clock' = clock
      /\ failures' = IF w.op.do = "reset" THEN [failures EXCEPT ![w.uid] = 0] ELSE failures
  BY DEF MaintainWrite, At
<1>2. PICK v : /\ Moves(p, v) /\ Goer(w, v) /\ v.at = "maintain" /\ v.size = w.size
               /\ v.ops = w.ops /\ v.op = w.op /\ v.left = w.left
  BY <1>1, Went DEF SameSize
<1>3. Maintains(w, faillog, raced)
  BY DEF LockInv
<1>4. /\ w.uid \in Nat /\ w.record \in AnyRecord /\ w.op \in FaillogOps
      /\ w.uid \in raced \/ w.record.cnt = Record(faillog, w.uid).cnt
  BY <1>1, <1>3 DEF Maintains
<1>5. r \in AnyRecord /\ r.cnt = IF w.op.do = "reset" THEN 0 ELSE w.record.cnt
  BY <1>4, MaintainedFits
<1> HIDE DEF r
<1>6. failures' \in [Uids -> Nat] /\ \A u \in Uids \ {w.uid} : failures'[u] = failures[u]
  BY <1>1 DEF LockInv
<1>7. w.uid \in Uids => w.uid \in raced \/ failures'[w.uid] > ShortMax \/ failures'[w.uid] = r.cnt
  <2> SUFFICES ASSUME w.uid \in Uids
               PROVE  w.uid \in raced \/ failures'[w.uid] > ShortMax \/ failures'[w.uid] = r.cnt
    OBVIOUS
  <2>1. CASE w.op.do = "reset"
    BY <1>1, <1>5, <2>1 DEF LockInv
  <2>2. CASE w.op.do # "reset"
    <3>1. Exact(w.uid, faillog, failures, raced)
      BY DEF LockInv
    <3> QED BY <1>1, <1>4, <1>5, <2>2, <3>1 DEF Exact
  <2> QED BY <2>1, <2>2
<1>8. Reads(v, faillog', raced', clock)
  BY <1>2 DEF Reads
<1>9. Maintains(v, faillog', raced')
  <2>1. /\ Record(faillog', w.uid) = r /\ raced \subseteq raced'
        /\ \A u : u # w.uid => Record(faillog', u) = Record(faillog, u)
    BY <1>1, <1>4, <1>5, RecordWritten DEF LockInv, WritesRecord
  <2>2. \A u \in Nat : u >= w.size => u \in raced \/ Record(faillog, u).cnt = 0
    BY <1>1, <1>3 DEF Maintains
  <2>3. \A u \in Nat : u >= w.size => u \in raced' \/ Record(faillog', u).cnt = 0
    BY <1>4, <1>5, <2>1, <2>2
  <2> QED BY <1>1, <1>2, <1>3, <2>3 DEF Maintains, Goer
<1> QED BY <1>1, <1>2, <1>4, <1>5, <1>6, <1>7, <1>8, <1>9, LockWrites

\* Where each program begins.
LEMMA StartPlaces ==
  ASSUME NEW p \in Procs, NEW job,
         \/ StartLogin(p, job) \/ StartSu(p, job) \/ StartNewgrp(p, job)
         \/ StartSulogin(p, job) \/ StartFaillog(p, job)
  PROVE  \E v : /\ Moves(p, v)
                /\ v.at \in {"look", "permission", "group"} \/ (v.at = "options" /\ StartFaillog(p, job))
<1>1. CASE StartLogin(p, job)
  <2> DEFINE v == [Idle EXCEPT !.job = job, !.at = "look", !.name = job.name, !.pid = started + 1,
                            !.preauth = job.preauth, !.retries = site.retries]
  <2>1. Moves(p, v)
    BY <1>1 DEF StartLogin
  <2>2. v.at = "look"
    BY IdleFields DEF IsWork
  <2> HIDE DEF v
  <2> QED BY <1>1, <2>1, <2>2
<1>2. CASE StartSu(p, job)
  <2> DEFINE v == [Idle EXCEPT !.job = job, !.at = "permission", !.name = job.name, !.pid = started + 1]
  <2>1. Moves(p, v)
    BY <1>2 DEF StartSu
  <2>2. v.at = "permission"
    BY IdleFields DEF IsWork
  <2> HIDE DEF v
  <2> QED BY <1>2, <2>1, <2>2
<1>3. CASE StartNewgrp(p, job)
  <2> DEFINE v == [Idle EXCEPT !.job = job, !.at = "group", !.name = job.caller, !.pid = started + 1]
  <2>1. Moves(p, v)
    BY <1>3 DEF StartNewgrp
  <2>2. v.at = "group"
    BY IdleFields DEF IsWork
  <2> HIDE DEF v
  <2> QED BY <1>3, <2>1, <2>2
<1>4. CASE StartSulogin(p, job)
  <2> DEFINE v == [Idle EXCEPT !.job = job, !.at = "look", !.name = "root", !.pid = started + 1]
  <2>1. Moves(p, v)
    BY <1>4 DEF StartSulogin
  <2>2. v.at = "look"
    BY IdleFields DEF IsWork
  <2> HIDE DEF v
  <2> QED BY <1>4, <2>1, <2>2
<1>5. CASE StartFaillog(p, job)
  <2> DEFINE v == [Idle EXCEPT !.job = job, !.at = "options", !.ops = job.ops,
                            !.size = Cardinality(DOMAIN faillog)]
  <2>1. Moves(p, v)
    BY <1>5 DEF StartFaillog
  <2>2. v.at = "options"
    BY IdleFields DEF IsWork
  <2> HIDE DEF v
  <2> QED BY <1>5, <2>1, <2>2
<1> QED BY <1>1, <1>2, <1>3, <1>4, <1>5

LEMMA StartLocks ==
  ASSUME Base, LockInv, NEW p \in Procs, Start(p) PROVE LockInv'
<1>1. PICK job \in site.jobs :
        \/ StartLogin(p, job) \/ StartSu(p, job) \/ StartNewgrp(p, job)
        \/ StartSulogin(p, job) \/ StartFaillog(p, job)
  BY DEF Start
<1>2. UNCHANGED <<faillog, failures, raced, clock>>
  BY DEF Start, StartLogin, StartSu, StartNewgrp, StartSulogin, StartFaillog, files
<1>3. CASE ~StartFaillog(p, job)
  <2>1. PICK v : Moves(p, v) /\ v.at \in Elsewhere
    BY <1>1, <1>3, StartPlaces DEF Elsewhere
  <2> QED BY <1>2, <2>1, NothingRead, LockMoves
<1>4. CASE StartFaillog(p, job)
  <2> DEFINE size == Cardinality(DOMAIN faillog)
             ops == job.ops
             v == [Idle EXCEPT !.job = job, !.at = "options", !.ops = ops, !.size = size]
  <2>1. Moves(p, v) /\ job.tool = "faillog"
    BY <1>4 DEF StartFaillog
  <2>2. v.job = job /\ v.at = "options" /\ v.ops = ops /\ v.size = size
    <3> HIDE DEF size, ops
    <3> QED BY IdleFields DEF IsWork
  <2> HIDE DEF v
  <2>3. ops \in Seq(FaillogOps) /\ job.range \in AnyUids
    BY <2>1, SessionsAssumption DEF Base, SiteFits, JobFits
  <2>4. PICK n \in Nat : DOMAIN faillog = 0 .. n - 1
    BY DEF LockInv, IsFaillog
  <2>5. size = n
    BY <2>4, FS_Interval
  <2>6. \A u \in Nat : u >= size => Record(faillog, u).cnt = 0
    BY <2>4, <2>5 DEF Record, NoRecord
  <2>7. Maintains(v, faillog, raced) /\ Reads(v, faillog, raced, clock)
    BY <2>2, <2>3, <2>5, <2>6 DEF Maintains, Reads
  <2> QED BY <1>2, <2>1, <2>7, LockMoves
<1> QED BY <1>3, <1>4

\* The steps that have nothing to do with faillog.
Aside(p) ==
  \/ Look(p) \/ Answer(p) \/ Again(p) \/ TimesOut(p) \/ Enter(p) \/ Expire(p) \/ Limits(p) \/ OpenLogin(p)
  \/ SuPermission(p) \/ SuPassword(p) \/ SuHour(p) \/ OpenSu(p)
  \/ NewgrpPermission(p) \/ NewgrpPassword(p) \/ OpenNewgrp(p)
  \/ SuloginLook(p) \/ SuloginAnswer(p) \/ OpenSulogin(p) \/ Logout(p)

LEMMA AsideLeaves ==
  ASSUME NEW p \in Procs, Aside(p) PROVE UNCHANGED <<faillog, failures, raced, clock>>
  BY DEF Aside, Look, Answer, Again, TimesOut, Enter, Expire, Limits, OpenLogin, SuPermission,
         SuPassword, SuHour, OpenSu, NewgrpPermission, NewgrpPassword, OpenNewgrp, SuloginLook,
         SuloginAnswer, OpenSulogin, Logout, OnlyMoves, files, history

\* None of them lets anyone in.
LEMMA AsideFacts ==
  ASSUME Base, NEW p \in Procs, Aside(p)
  PROVE  \E v : Moves(p, v) /\ v.at \in Elsewhere \ {"enter"}
<1> DEFINE Away == \E v : Moves(p, v) /\ v.at \in Elsewhere \ {"enter"}
<1>1. Idle.at \in Elsewhere \ {"enter"}
  BY IdleFields DEF Elsewhere
<1>2. CASE Exits(p)
  BY <1>1, <1>2 DEF Exits
<1>3. ASSUME NEW a \in Elsewhere \ {"enter"}, Goes(p, a) PROVE Away
  BY <1>3, Went
<1> HIDE DEF Away
<1>4. CASE Look(p)
  BY <1>4, LookFacts DEF Elsewhere, Away
<1>5. CASE Answer(p)
  BY <1>5, AnswerFacts DEF Elsewhere, Away
<1>6. CASE Again(p) /\ ~Exits(p)
  BY <1>6, AgainFacts DEF Elsewhere, Away
<1>7. CASE TimesOut(p)
  BY <1>2, <1>7 DEF TimesOut, Away
<1>8. CASE Enter(p) \/ Expire(p) \/ Limits(p) \/ SuHour(p)
  <2>1. Exits(p) \/ \E a \in {"aged", "hour", "limits", "open"} : Goes(p, a)
    BY <1>8 DEF Enter, Expire, AfterAge, Limits, SuHour
  <2> QED BY <1>2, <1>3, <2>1 DEF Elsewhere, Away
<1>9. CASE OpenLogin(p) \/ OpenSu(p) \/ OpenNewgrp(p) \/ OpenSulogin(p)
  <2>1. Goes(p, "session")
    BY <1>9 DEF OpenLogin, OpenSu, OpenNewgrp, OpenSulogin
  <2> QED BY <1>3, <2>1 DEF Elsewhere, Away
<1>10. CASE SuPermission(p) /\ ~Exits(p)
  <2>1. PICK v : /\ Moves(p, v)
                 /\ v.at = (IF work[p].job.caller = "root" THEN "limits" ELSE "password")
    BY <1>10, SuPermissionFacts
  <2> QED BY <2>1 DEF Elsewhere, Away
<1>11. CASE SuPassword(p) /\ ~Exits(p)
  BY <1>11, SuPasswordFacts DEF Elsewhere, Away
<1>12. CASE NewgrpPermission(p)
  <2>1. PICK v, found : /\ Moves(p, v)
                 /\ v.at = (IF (~(Groups[work[p].job.group].gid \in work[p].job.gids) /\ work[p].job.caller # "root" /\ NeedsGroupPassword(GroupEntry(found, work[p].job.group), work[p].job.caller, Account(work[p].job.caller))) THEN "password" ELSE "open")
    BY <1>12, NewgrpPermissionFacts
  <2>2. v.at \in {"password", "open"}
    BY <2>1
  <2> QED BY <2>1, <2>2 DEF Elsewhere, Away
<1>13. CASE NewgrpPassword(p) /\ ~Exits(p)
  BY <1>13, NewgrpPasswordFacts DEF Elsewhere, Away
<1>14. CASE SuloginLook(p) /\ ~Exits(p)
  BY <1>14, SuloginLookFacts DEF Elsewhere, Away
<1>15. CASE SuloginAnswer(p) /\ ~Exits(p)
  <2>1. CASE Goes(p, "look")
    BY <1>3, <2>1 DEF Elsewhere, Away
  <2>2. CASE ~Goes(p, "look")
    BY <1>15, <2>2, SuloginAnswerFacts DEF Elsewhere, Away
  <2> QED BY <2>1, <2>2
<1>16. CASE Logout(p)
  BY <1>2, <1>16 DEF Logout, Away
<1> QED
  BY <1>2, <1>4, <1>5, <1>6, <1>7, <1>8, <1>9, <1>10, <1>11, <1>12, <1>13, <1>14, <1>15, <1>16
     DEF Aside, Away

LEMMA AsideLocks ==
  ASSUME Base, LockInv, NEW p \in Procs, Aside(p) PROVE LockInv'
<1>1. PICK v : Moves(p, v) /\ v.at \in Elsewhere
  BY AsideFacts
<1> QED BY <1>1, AsideLeaves, NothingRead, LockMoves

LEMMA TickLocks == ASSUME Base, LockInv, Tick PROVE LockInv'
<1>1. clock \in Nat /\ clock' = clock + 1 /\ UNCHANGED <<faillog, failures, raced, work>>
  BY DEF Tick, Base, files, history
<1>2. ASSUME NEW p \in Procs PROVE Reads(work[p], faillog, raced, clock')
  <2> DEFINE w == work[p]
  <2>1. Reads(w, faillog, raced, clock)
    BY DEF LockInv
  <2>2. w.at = "reset" => ~TooManyFailures(w.record, clock')
    <3> SUFFICES ASSUME w.at = "reset" PROVE ~TooManyFailures(w.record, clock')
      OBVIOUS
    <3> DEFINE time == w.record.time
               lock == w.record.lock
    <3>1. time \in Nat /\ lock \in Nat
      BY <2>1 DEF Reads, AnyRecord
    <3>2. ~TooManyFailures(w.record, clock)
      BY <2>1 DEF Reads
    <3>3. time + lock >= clock' => time + lock >= clock
      <4> HIDE DEF time, lock
      <4> QED BY <1>1, <3>1
    <3> QED BY <3>2, <3>3 DEF TooManyFailures
  <2> QED BY <2>1, <2>2 DEF Reads
<1> QED BY <1>1, <1>2 DEF LockInv

LEMMA RestLocks ==
  ASSUME LockInv, UNCHANGED <<faillog, failures, raced, clock, work>> PROVE LockInv'
  BY DEF LockInv

LEMMA InitLocks == Init => LockInv
<1> SUFFICES ASSUME Init PROVE LockInv
  OBVIOUS
<1>1. /\ SiteFits(site) /\ faillog = site.faillog /\ ShortMax \in Nat
      /\ failures = [u \in Uids |-> Record(faillog, u).cnt]
  BY SessionsAssumption DEF Init
<1>2. Cardinality(DOMAIN faillog) \in Nat
  BY <1>1, FS_CardinalityType DEF SiteFits
<1>3. IsFaillog(faillog)
  <2>1. \E n \in Nat : DOMAIN faillog = 0 .. n - 1
    BY <1>1, <1>2 DEF SiteFits
  <2>2. faillog \in [DOMAIN faillog -> [cnt : 0 .. ShortMax, max : Nat, time : Nat, lock : Nat]]
    BY <1>1 DEF SiteFits
  <2>3. [cnt : 0 .. ShortMax, max : Nat, time : Nat, lock : Nat] \subseteq AnyRecord
    BY <1>1 DEF AnyRecord
  <2> QED BY <2>1, <2>2, <2>3 DEF IsFaillog
<1>4. \A u \in Uids : Record(faillog, u).cnt \in Nat
  BY <1>1 DEF SiteFits, Record, NoRecord
<1>5. \A p \in Procs : Reads(work[p], faillog, raced, clock) /\ Maintains(work[p], faillog, raced)
  BY NothingRead, IdleFields DEF Init, Elsewhere
<1> QED BY <1>1, <1>3, <1>4, <1>5 DEF LockInv, Exact

LEMMA StepKinds ==
  ASSUME NEW p \in Procs, Start(p) \/ LoginStep(p) \/ OtherStep(p) \/ Logout(p)
  PROVE  \/ Start(p) \/ Aside(p) \/ FailCheck(p) \/ ClearCount(p) \/ FailureRead(p) \/ FailureWrite(p)
         \/ NextOption(p) \/ MaintainRead(p) \/ MaintainWrite(p)
  BY DEF LoginStep, OtherStep, Aside

LEMMA NextLocks == Base /\ LockInv /\ [Next]_vars => LockInv'
<1> SUFFICES ASSUME Base, LockInv, [Next]_vars PROVE LockInv'
  OBVIOUS
<1>1. ASSUME NEW p \in Procs, Start(p) \/ LoginStep(p) \/ OtherStep(p) \/ Logout(p) PROVE LockInv'
  BY <1>1, StepKinds, StartLocks, AsideLocks, FailCheckLocks, ClearCountLocks, FailureReadLocks,
     FailureWriteLocks, NextOptionLocks, MaintainReadLocks, MaintainWriteLocks
<1>2. ASSUME NEW name \in DOMAIN accounts, Locked(name) PROVE LockInv'
  BY <1>2, RestLocks DEF Locked, history
<1>3. CASE Maintenance \/ UNCHANGED vars
  BY <1>3, RestLocks DEF Maintenance, vars, files, history
<1> QED BY <1>1, <1>2, <1>3, TickLocks DEF Next

\* Only failcheck, and what clears the count, let anyone in.
LEMMA LetsIn ==
  ASSUME Base, [Next]_vars, NEW p \in Procs, work[p].at # "enter", work'[p].at = "enter"
  PROVE  FailCheck(p) \/ ClearCount(p)
<1>1. work' # work
  OBVIOUS
<1>2. PICK q \in Procs : Start(q) \/ LoginStep(q) \/ OtherStep(q) \/ Logout(q)
  BY <1>1 DEF Next, Locked, Maintenance, Tick, vars
<1>3. ASSUME NEW v, Moves(q, v), v.at # "enter" PROVE FALSE
  <2>1. work'[q] = v /\ \A x \in Procs \ {q} : work'[x] = work[x]
    BY <1>3, Moved DEF Base
  <2> QED BY <1>3, <2>1
<1>4. ASSUME NEW v, Moves(q, v) PROVE q = p
  <2>1. \A x \in Procs \ {q} : work'[x] = work[x]
    BY <1>4, Moved DEF Base
  <2> QED BY <2>1
<1>5. ~Aside(q)
  BY <1>3, AsideFacts
<1>6. ~Start(q)
  <2> SUFFICES ASSUME Start(q) PROVE FALSE
    OBVIOUS
  <2>1. PICK v : Moves(q, v) /\ v.at \in {"look", "permission", "group", "options"}
    BY StartPlaces DEF Start
  <2> QED BY <1>3, <2>1
<1>7. ~FailureRead(q)
  BY <1>3, FailureReadFacts
<1>8. ~FailureWrite(q) /\ ~MaintainWrite(q)
  <2>1. ~(\E a \in {"again", "maintain"} : Goes(q, a))
    BY <1>3, Went
  <2> QED BY <2>1 DEF FailureWrite, MaintainWrite
<1>9. ~Exits(q)
  BY <1>3, IdleFields DEF Exits
<1>10. ~NextOption(q)
  BY <1>3, <1>9, NextOptionFacts
<1>11. ~MaintainRead(q)
  <2> SUFFICES ASSUME MaintainRead(q) PROVE FALSE
    OBVIOUS
  <2>1. ~Goes(q, "options")
    BY <1>3, Went
  <2>2. ~(\E uid \in work[q].left : Moves(q, [work[q] EXCEPT !.left = @ \ {uid}]))
    <3> SUFFICES ASSUME NEW uid, Moves(q, [work[q] EXCEPT !.left = @ \ {uid}]) PROVE FALSE
      OBVIOUS
    <3>1. work[q].at = "maintain"
      BY DEF MaintainRead, At
    <3> QED BY <1>3, <3>1, Skipped
  <2> QED BY <1>3, <2>1, <2>2, MaintainWritesFacts
<1>12. FailCheck(q) \/ ClearCount(q)
  BY <1>2, <1>5, <1>6, <1>7, <1>8, <1>10, <1>11, StepKinds
<1> QED BY <1>4, <1>12, FailCheckFacts, Went DEF ClearCount

\* Whom failcheck lets in has not failed too often, and neither has the one
\* whose count it is about to clear.
LEMMA EntersInTime ==
  ASSUME Base, LockInv, [Next]_vars, NEW p \in Procs, site.faillogEnab,
         work[p].at # "enter", work'[p].at = "enter"
  PROVE  LET uid == work[p].account.uid IN
         \/ uid \in raced' \/ failures[uid] > ShortMax
         \/ ~TooManyFailures([Record(faillog, uid) EXCEPT !.cnt = failures[uid]], clock)
<1> DEFINE w == work[p]
           uid == w.account.uid
           record == Record(faillog, uid)
           count == failures[uid]
<1>1. record \in AnyRecord
  BY RecordType DEF LockInv
<1>2. /\ [record EXCEPT !.cnt = count].max = record.max
      /\ [record EXCEPT !.cnt = count].cnt = count
      /\ [record EXCEPT !.cnt = count].lock = record.lock
      /\ [record EXCEPT !.cnt = count].time = record.time
  <2> HIDE DEF record, count
  <2> QED BY <1>1 DEF AnyRecord
<1>3. CASE FailCheck(p)
  <2>1. uid \notin DOMAIN faillog
    <3>1. CASE w.account = Nobody
      <4>1. Nobody.uid = None
        BY DEF Nobody
      <4> QED BY <3>1, <4>1, NobodysRecord DEF LockInv
    <3>2. CASE w.account # Nobody
      <4>1. PICK v :
              /\ Moves(p, v)
              /\ v.at = CASE (w.failed \/ (CountsFailures(p) /\ TooManyFailures(record, clock))) -> IF CountsFailures(p) THEN "fail" ELSE "again"
                          [] ~(w.failed \/ (CountsFailures(p) /\ TooManyFailures(record, clock))) /\ CountsFailures(p) /\ uid \in DOMAIN faillog -> "reset"
                          [] OTHER -> "enter"
        BY <1>3, FailCheckFacts
      <4>2. v.at = "enter"
        BY <4>1, Moved DEF Base
      <4>3. CountsFailures(p)
        BY <3>2 DEF CountsFailures
      <4> QED BY <4>1, <4>2, <4>3
    <3> QED BY <3>1, <3>2
  <2>2. record.max = 0
    BY <2>1 DEF Record, NoRecord
  <2> QED BY <1>2, <2>2 DEF TooManyFailures
<1>4. CASE ClearCount(p)
  <2>1. w.at = "reset"
    BY <1>4 DEF ClearCount, At
  <2>2. Reads(w, faillog, raced, clock)
    BY DEF LockInv
  <2>3. uid \in Uids
    BY <2>1, <2>2, UidOf DEF Reads
  <2>4. uid \in raced \/ (w.record = record /\ ~TooManyFailures(record, clock))
    BY <2>1, <2>2 DEF Reads
  <2>5. uid \in raced \/ count > ShortMax \/ count = record.cnt
    BY <2>3 DEF LockInv, Exact
  <2>6. raced \subseteq raced'
    BY <1>4 DEF ClearCount, WritesRecord
  <2> QED BY <1>2, <2>4, <2>5, <2>6 DEF TooManyFailures
<1> QED BY <1>3, <1>4, LetsIn

\* As long as no two work on the record of a user at once, nobody gets past
\* failcheck once there were as many failures as faillog allows and a short can
\* count, however logins on several lines and faillog take turns (failcheck,
\* failure, reset_one, setmax_one, set_locktime_one).
THEOREM FailuresLockOut == Spec => LockedOut
<1> DEFINE A ==
      \A p \in Procs :
       /\ work[p].job # None /\ work[p].job.tool = "login" /\ work'[p].at = "enter" /\ ~At(p, "enter")
       /\ site.faillogEnab
       => LET uid == work[p].account.uid IN
          \/ uid \in raced' \/ failures[uid] > ShortMax
          \/ ~TooManyFailures([Record(faillog, uid) EXCEPT !.cnt = failures[uid]], clock)
<1>1. Base /\ LockInv /\ [Next]_vars => A
  BY EntersInTime DEF At
<1>2. Init => Base /\ LockInv
  BY InitBase, InitLocks
<1>3. Init => EarnInv
  BY InitEarns
<1>4. Base /\ EarnInv /\ LockInv /\ [Next]_vars => Base' /\ EarnInv' /\ LockInv'
  BY NextEarns, NextLocks
<1> HIDE DEF A
<1>5. Spec => [][A]_vars
  BY <1>1, <1>2, <1>3, <1>4, PTL DEF Spec
<1> QED BY <1>5 DEF LockedOut, A
=============================================================================
