----------------------------- MODULE MCSessions -----------------------------
(***************************************************************************)
(* A small instance of Sessions: root, u with a password in shadow, v with *)
(* one in passwd and none in shadow, w without any; lines tty1, which is a *)
(* console, and pts.                                                       *)
(***************************************************************************)
EXTENDS Sessions

Entry(gid, members, passwd) == [gid |-> gid, members |-> members, passwd |-> passwd]
AllGroups ==
  [g \in {"wheel", "g", "split", "locked"} |->
     CASE g = "wheel"  -> Entry(0, {"u"}, NoPassword)
       [] g = "g"      -> Entry(2, {}, Shadow)
       [] g = "split"  -> Entry(2, {"w"}, NoPassword)
       [] g = "locked" -> Entry(3, {}, Lock(NoPassword))]
AllGShadow == [g \in {"g"} |-> [members |-> {"u"}, passwd |-> Hashed("g")]]

LineNames == [l \in {"/dev/tty1", "/dev/pts/1"} |-> IF l = "/dev/tty1" THEN "tty1" ELSE "pts/1"]
LineIds   == [l \in DOMAIN LineNames |-> IF l = "/dev/tty1" THEN "tty1" ELSE "ts/1"]
AllCovers == [word \in {"*", "LOCAL"} |-> IF word = "*" THEN {"/dev/tty1", "/dev/pts/1", "tty1", "pts/1"}
                                          ELSE {"/dev/tty1", "/dev/pts/1"}]
Monday == [day |-> "Mo", hour |-> 1200]
Sunday == [day |-> "Su", hour |-> 2300]
AllMoments == <<Monday, Sunday, Monday>>

(***************************************************************************)
(* Accounts.                                                               *)
(***************************************************************************)
User(uid, passwd, shadow) ==
  [uid |-> uid, gid |-> uid, passwd |-> passwd, shadow |-> shadow, age |-> NoAge, restricted |-> FALSE]
Users ==
  [n \in {"root", "u", "v", "w"} |->
     CASE n = "root" -> User(0, Shadow, Hashed("r"))
       [] n = "u"    -> User(1, Shadow, Hashed("s"))
       [] n = "v"    -> [User(2, Hashed("s"), None) EXCEPT !.restricted = TRUE]
       [] n = "w"    -> User(2, NoPassword, None)]
WithAge(last, max, inact) == [NoAge EXCEPT !["lstchg"] = last, !["max"] = max, !["inact"] = inact]
AgedUsers == [Users EXCEPT !["u"].age = WithAge(1, 0, 1)]

(***************************************************************************)
(* Commands.                                                               *)
(***************************************************************************)
Login(name, line) ==
  [tool |-> "login", name |-> name, line |-> line, caller |-> "root", preauth |-> FALSE,
   host |-> "", getty |-> TRUE]
Preauth(name, line) == [Login(name, line) EXCEPT !.preauth = TRUE]
Su(caller, name) ==
  [tool |-> "su", caller |-> caller, name |-> name, fakelogin |-> FALSE, shell |-> TRUE]
Newgrp(caller, group, gids) == [tool |-> "newgrp", caller |-> caller, group |-> group, gids |-> gids]
Faillog(ops, range, all) == [tool |-> "faillog", ops |-> ops, range |-> range, all |-> all]
Op(do, value) == [do |-> do, value |-> value]
AnyUid == [min |-> None, max |-> None]
Only(uid) == [min |-> uid, max |-> uid]

(***************************************************************************)
(* Sites.                                                                  *)
(***************************************************************************)
Plain ==
  [accounts |-> Users, faillog |-> <<>>, utmp |-> <<>>, jobs |-> {}, names |-> {"u"},
   retries |-> 2, prevent |-> "superuser", faillogEnab |-> FALSE, console |-> {"tty1"},
   access |-> <<>>, suauth |-> <<>>, wheelOnly |-> FALSE, ports |-> <<>>,
   quotas |-> FALSE, limits |-> <<>>, locks |-> {}, maintenance |-> FALSE]

Rec(cnt, max, lock) == [cnt |-> cnt, max |-> max, time |-> 0, lock |-> lock]
Log(record) == [uid \in {0, 1} |-> IF uid = 1 THEN record ELSE NoRecord]

CountingSites ==
  { [Plain EXCEPT !.faillogEnab = TRUE, !.faillog = Log(Rec(0, 2, 0)),
                  !.jobs = {Login(None, "/dev/tty1"), Login("u", "/dev/pts/1"),
                            Faillog(<<Op("max", 1), Op("reset", 0)>>, Only(1), FALSE)}],
    [Plain EXCEPT !.faillogEnab = TRUE, !.faillog = Log(Rec(1, 2, 1)),
                  !.jobs = {Login("u", "/dev/tty1"), Preauth("u", "/dev/pts/1"),
                            Faillog(<<Op("lock", 2)>>, AnyUid, FALSE)}],
    [Plain EXCEPT !.faillogEnab = TRUE, !.faillog = [uid \in {} |-> NoRecord],
                  !.jobs = {Login("u", "/dev/tty1"), Faillog(<<Op("max", 1)>>, AnyUid, TRUE),
                            Faillog(<<Op("max", 1)>>, [min |-> 1, max |-> 2], TRUE)}] }

Word(name, host) == [name |-> name, host |-> host]
Names(s) == [i \in DOMAIN s |-> Word(s[i], "")]
Rule(perm, users, froms) == [perm |-> perm, users |-> users, froms |-> froms]
Ports(ports, users, times) == [ports |-> ports, users |-> users, times |-> times, bad |-> FALSE]
Time(days, start, end) == [days |-> days, start |-> start, end |-> end]

EnteringSites ==
  { [Plain EXCEPT !.names = {"root", "u", "nobody"},
                  !.access = <<Rule("-", Names(<<"wheel">>), Names(<<"ALL", "EXCEPT", "LOCAL">>))>>,
                  !.ports = <<Ports({"*"}, {"u"}, {Time({"Mo"}, 900, 1700)})>>,
                  !.maintenance = TRUE,
                  !.jobs = {Preauth("root", "/dev/pts/1"), Login(None, "/dev/tty1"),
                            [Login("u", "/dev/pts/1") EXCEPT !.host = "far"]}],
    [Plain EXCEPT !.names = {"w", "v"}, !.locks = {"u"},
                  !.access = <<Rule("+", <<Word("w", "here")>>, Names(<<"ALL">>)),
                               Rule("-", Names(<<"ALL", "EXCEPT", "u">>), Names(<<"ALL">>))>>,
                  !.jobs = {Preauth("u", "/dev/tty1"), Login("w", "/dev/pts/1"),
                            [Login("u", "/dev/tty1") EXCEPT !.caller = "u", !.getty = FALSE]}],
    [Plain EXCEPT !.accounts = AgedUsers, !.locks = {"u"},
                  !.jobs = {Login("u", "/dev/tty1"), Su("v", "u")}] }

LimitLine(kind, name, logins) == [kind |-> kind, name |-> name, logins |-> logins]
Stale == [type |-> "USER", pid |-> 99, line |-> "pts/1", user |-> "u", id |-> "ts/1", host |-> "far"]

LimitingSites ==
  { [Plain EXCEPT !.quotas = TRUE, !.utmp = <<Stale>>,
                  !.limits = <<LimitLine("others", "", OutOfRange), LimitLine("group", "wheel", 1)>>,
                  !.jobs = {Preauth("u", "/dev/tty1"), [Preauth("u", "/dev/pts/1") EXCEPT !.getty = FALSE],
                            [Login("u", "/dev/pts/1") EXCEPT !.caller = "u", !.getty = FALSE]}],
    [Plain EXCEPT !.quotas = TRUE,
                  !.limits = <<LimitLine("user", "w", NoLimit), LimitLine("user", "w", 0)>>,
                  !.jobs = {Preauth("w", "/dev/tty1"), Preauth("w", "/dev/pts/1"),
                            [Su("root", "w") EXCEPT !.fakelogin = TRUE]}] }

SuRule(to, from, action) == [to |-> to, from |-> from, action |-> action]

SuSites ==
  { [Plain EXCEPT !.suauth = <<SuRule(<<"root">>, <<"ALL", "EXCEPT", "GROUP", "wheel">>, "DENY"),
                               SuRule(<<"root">>, <<"u", "w">>, "OWNPASS"),
                               SuRule(<<"v">>, <<"u", "w">>, "NOPASS")>>,
                  !.locks = {"u"},
                  !.jobs = {Su("u", "root"), Su("w", "root"), Su("u", "v"), Su("v", "u"), Su("root", "u")}],
    [Plain EXCEPT !.wheelOnly = TRUE, !.prevent = "yes", !.ports = <<Ports({"SU"}, {"*"}, {Time({"Mo"}, 1700, 1300)})>>,
                  !.jobs = {Su("u", "root"), Su("w", "root"), Su("u", "w"), Su("u", "v"), Su("root", "v")}],
    [Plain EXCEPT !.suauth = Unreadable, !.jobs = {Su("u", "v"), Su("root", "v"), Su("u", "none")}] }

GroupSites ==
  { [Plain EXCEPT !.locks = {"root"},
                  !.jobs = {Newgrp("u", "g", {}), Newgrp("w", "g", {}), Newgrp("v", "wheel", {}),
                            Newgrp("u", "split", {}), Newgrp("v", "locked", {3}), Newgrp("u", "locked", {}),
                            [tool |-> "sulogin"]}] }

WorkSites == CountingSites \cup EnteringSites \cup LimitingSites \cup SuSites \cup GroupSites

\* Where nothing happens, but the files have a list each.
AccessLists == UNION {[1 .. n -> {"u", "v", "wheel", "EXCEPT"}] : n \in 0 .. 5}
SuLists == UNION {[1 .. n -> {"u", "wheel", "ALL", "EXCEPT", "GROUP"}] : n \in 0 .. 4}
RuleSites ==
  {[Plain EXCEPT !.access = <<Rule("+", Names(list), Names(<<"ALL">>))>>] : list \in AccessLists}
    \cup {[Plain EXCEPT !.suauth = <<SuRule(<<"ALL">>, list, "DENY")>>] : list \in SuLists}

AllSites == WorkSites \cup RuleSites
=============================================================================
