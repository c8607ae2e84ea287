----------------------------- MODULE AccessRules -----------------------------
(***************************************************************************)
(* The files that say who may come in, from where and when: login.access,  *)
(* suauth, porttime, limits and CONSOLE of login.defs.  A file is the      *)
(* sequence of its lines, split into fields and words; a line that is      *)
(* passed over for its form is left out.                                   *)
(***************************************************************************)
EXTENDS Ageing, SequencesExt

CONSTANTS
  Covers,     \* of a word for several origins or ports (ALL is not one of
              \* them): LOCAL, .domain, network., tty*, and *
  ThisHost,
  Groups,     \* the entry of each group
  NoLimit,    \* a limit that cannot be read as a number
  OutOfRange, \* one that an unsigned long cannot hold
  Unreadable  \* a file that exists and cannot be opened

Members(g) == IF g \in DOMAIN Groups THEN Groups[g].members ELSE {}
Covered(word) == IF word \in DOMAIN Covers THEN Covers[word] ELSE {}

\* Of the lines that apply, in their order, the one that decides.
FirstOf(lines) == SubSeq(lines, 1, Min({1, Len(lines)}))
LastOf(lines)  == FirstOf(Reverse(lines))

(***************************************************************************)
(* login.access: a word is a name and, after @, a host or "".              *)
(***************************************************************************)
StringMatch(word, string) == word \in {"ALL", string}

FromMatch(from, name) == StringMatch(name, from) \/ from \in Covered(name)

UserMatch(user, word) ==
  /\ StringMatch(word.name, user) \/ user \in Members(word.name)
  /\ word.host = "" \/ FromMatch(ThisHost, word.host)

\* What is known of a list after some of its words.
NothingMatched == [inclusion |-> TRUE, matched |-> FALSE, result |-> FALSE, over |-> FALSE]

AfterWord(known, word, matching) ==
  CASE known.over -> known
    [] ~known.over /\ word.name = "EXCEPT" ->
         IF known.matched
         THEN [known EXCEPT !.inclusion = ~@, !.matched = FALSE]
         ELSE [known EXCEPT !.over = TRUE]
    [] OTHER ->
         IF word \in matching
         THEN [known EXCEPT !.result = known.inclusion, !.matched = TRUE]
         ELSE known

\* matching are the words that are the item's.
ListMatch(list, matching) ==
  FoldLeft(LAMBDA known, word : AfterWord(known, word, matching), NothingMatched, list).result

UsersMatch(list, user) == ListMatch(list, {word \in Range(list) : UserMatch(user, word)})
FromsMatch(list, from) == ListMatch(list, {word \in Range(list) : FromMatch(from, word.name)})

LoginAccess(table, user, from) ==
  LET Applies(line) == FromsMatch(line.froms, from) /\ UsersMatch(line.users, user)
      line == FirstOf(SelectSeq(table, Applies))
  IN  line = <<>> \/ line[1].perm = "+"

(***************************************************************************)
(* suauth: a list is read by a machine of five states, which may stop with *)
(* an answer at any word.                                                  *)
(***************************************************************************)
\* A mistake it could make: EXCEPT forgotten when GROUP comes.
AfterTokenForgetsExcept(state, token, name) ==
  IF state \in {"yes", "no"} THEN state
  ELSE CASE token = "ALL"    -> IF state = "names" THEN "all" ELSE "no"
         [] token = "EXCEPT" -> IF state = "all" THEN "all except" ELSE "no"
         [] token = "GROUP"  -> IF state \in {"names", "all except"} THEN "groups" ELSE "no"
         [] OTHER -> CASE state = "names"  -> IF token = name THEN "yes" ELSE state
                       [] state = "all"    -> "no"
                       [] state = "groups" -> IF name \in Members(token) THEN "yes" ELSE state
                       [] state = "all except" -> IF token = name THEN "no" ELSE state

AfterToken(state, token, name) ==
  IF state \in {"yes", "no"} THEN state
  ELSE CASE token = "ALL"    -> IF state = "names" THEN "all" ELSE "no"
         [] token = "EXCEPT" -> IF state = "all" THEN "all except" ELSE "no"
         [] token = "GROUP"  -> CASE state = "names"      -> "groups"
                                  [] state = "all except" -> "all except groups"
                                  [] OTHER                -> "no"
         [] OTHER -> CASE state = "names"  -> IF token = name THEN "yes" ELSE state
                       [] state = "all"    -> "no"
                       [] state = "groups" -> IF name \in Members(token) THEN "yes" ELSE state
                       [] state = "all except" -> IF token = name THEN "no" ELSE state
                       [] state = "all except groups" -> IF name \in Members(token) THEN "no" ELSE state

AppliesTo(name, list) ==
  FoldLeft(LAMBDA state, token : AfterToken(state, token, name), "names", list)
    \notin {"names", "groups", "no"}

SuActions == {"DENY", "NOPASS", "OWNPASS"}

\* The lines for the two users; one whose action nobody knows is passed over.
SuLines(table, caller, wanted) ==
  {i \in DOMAIN table : /\ AppliesTo(wanted, table[i].to) /\ AppliesTo(caller, table[i].from)
                        /\ table[i].action \in SuActions}

\* A mistake it could make: a later line goes before an earlier one.
CheckSuAuthLast(table, caller, wanted) ==
  IF table = Unreadable THEN "DENY"
  ELSE LET lines == SuLines(table, caller, wanted)
       IN  IF lines = {} THEN "NOACTION" ELSE table[Max(lines)].action

CheckSuAuth(table, caller, wanted) ==
  IF table = Unreadable THEN "DENY"
  ELSE LET lines == SuLines(table, caller, wanted)
       IN  IF lines = {} THEN "NOACTION" ELSE table[Min(lines)].action

(***************************************************************************)
(* porttime: a line has ports, users and times; one with a day that nobody *)
(* knows (bad) ends the search.                                            *)
(***************************************************************************)
PortCmp(pattern, port) == pattern = port \/ (port # "SU" /\ port \in Covered(pattern))

GetTtyUser(lines, tty, user) ==
  LET Ends(line) == \/ line.bad
                    \/ /\ \E pattern \in line.ports : PortCmp(pattern, tty)
                       /\ line.users \cap {user, "*"} # {}
      line == FirstOf(SelectSeq(lines, Ends))
  IN  IF line = <<>> \/ line[1].bad THEN <<>> ELSE line

InHours(t, hour) ==
  IF t.start <= t.end THEN t.start <= hour /\ hour <= t.end
                      ELSE t.start <= hour \/ hour <= t.end

IsTtyTime(lines, user, tty, now) ==
  LET line == GetTtyUser(lines, tty, user)
  IN  line = <<>> \/ \E t \in line[1].times : now.day \in t.days /\ InHours(t, now.hour)

(***************************************************************************)
(* limits: how many sessions a user may have.  A line is for a user, for   *)
(* the members of a group, or for all others.                              *)
(***************************************************************************)
UserLimit(lines, user) ==
  LET own    == FirstOf(SelectSeq(lines, LAMBDA l : l.kind = "user" /\ l.name = user))
      groups == LastOf(SelectSeq(lines, LAMBDA l : l.kind = "group" /\ user \in Members(l.name)))
      others == LastOf(SelectSeq(lines, LAMBDA l : l.kind = "others"))
  IN  IF own \o groups \o others = <<>> THEN NoLimit ELSE (own \o groups \o others)[1].logins

\* check_logins: count stops one above the limit.
TooManyLogins(limit, count) ==
  limit # NoLimit /\ (limit \in {0, OutOfRange} \/ count > limit)

(***************************************************************************)
(* CONSOLE, and the passwords.                                             *)
(***************************************************************************)
IsConsole(console, tty) == console = Unreadable \/ tty \in console

\* PREVENT_NO_AUTH looks at the passwd field alone.
EmptyPasswordBarred(prevent, account) ==
  /\ account.passwd = NoPassword
  /\ prevent = "yes" \/ (prevent = "superuser" /\ account.uid = 0)

\* pw_auth: nothing is asked when there is no password.
PwAuth(pw, typed) == pw = NoPassword \/ (pw \notin {Shadow, NoPassword} /\ pw = Hashed(typed))
=============================================================================
