-------------------------- MODULE MCPasswordTools --------------------------
(***************************************************************************)
(* A small instance of PasswordTools: a user u, who is a member of the     *)
(* group g.                                                                *)
(***************************************************************************)
EXTENDS PasswordTools

(***************************************************************************)
(* The files: with shadow files, without, as a useradd or groupadd leaves  *)
(* them that stopped half way, and as a userdel or groupdel.               *)
(***************************************************************************)
User(pw)    == [n \in {"u"} |-> [pw |-> pw, gecos |-> [full |-> "a", room |-> "b"], shell |-> "sh"]]
Aging       == [lstchg |-> 5, max |-> 3, warn |-> 1, inact |-> 4, expire |-> -1]
Hidden      == [n \in {"u"} |-> [pw |-> Hashed("h0"), age |-> Aging]]
Group(pw)   == [g \in {"g"} |-> [pw |-> pw, members |-> {"u"}]]
Gshadow     == [g \in {"g"} |-> [pw |-> Hashed("h0"), admins |-> {"u"}, members |-> {"u"}]]

Contents(passwd, shadow, group, gshadow) ==
  [f \in Files |-> CASE f = "passwd" -> passwd [] f = "shadow" -> shadow
                     [] f = "group" -> group [] f = "gshadow" -> gshadow]

AllStarts ==
  { Contents(User(Shadow), Hidden, Group(Shadow), Gshadow),
    Contents(User(Hashed("h0")), Absent, Group(Hashed("h0")), Absent),
    Contents(User(Shadow), <<>>, Group(Shadow), <<>>),
    Contents(User(Shadow), Put(Hidden, "z", Hidden["u"]),
             Put(Group(Shadow), "g", [Group(Shadow)["g"] EXCEPT !.members = {"u", "z"}]),
             Put(Gshadow, "z", Gshadow["g"])) }

(***************************************************************************)
(* The command lines.                                                      *)
(***************************************************************************)
Run(tool, name) ==
  [tool |-> tool, name |-> name, by |-> Root, flags |-> {}, pw |-> Unset, old |-> Hashed("h0"),
   age |-> <<>>, gecos |-> <<>>, shell |-> Unset, users |-> {}, admins |-> {}]

Option(tool, name, o) == [Run(tool, name) EXCEPT !.flags = {o}]

UserJobs ==
  { [Run("passwd", "u") EXCEPT !.pw = Hashed("h1"), !.by = "u"],
    [Run("passwd", "u") EXCEPT !.pw = Hashed("h1")],
    [Option("passwd", "u", "k") EXCEPT !.pw = Hashed("h1"), !.by = "u"],
    Option("passwd", "u", "l"), Option("passwd", "u", "u"), Option("passwd", "u", "d"),
    Option("passwd", "u", "e"),
    [Run("chpasswd", Unset) EXCEPT !.users = {"u"}, !.pw = Hashed("h2")],
    [Run("chage", "u") EXCEPT !.age = [expire |-> 3]],
    [Run("chfn", "u") EXCEPT !.gecos = [room |-> "c"], !.by = "u"],
    [Run("chfn", "u") EXCEPT !.gecos = [full |-> "d"]],
    [Run("chsh", "u") EXCEPT !.shell = "nologin"],
    [Option("usermod", "u", "L") EXCEPT !.pw = Hashed("h3")],
    Option("usermod", "u", "L"), Option("usermod", "u", "U"),
    [Run("usermod", "u") EXCEPT !.pw = Hashed("h3")],
    [Run("usermod", "u") EXCEPT !.age = [inact |-> 9]],
    [Run("vipw", "u") EXCEPT !.shell = "ksh"],
    [Option("vipw", "u", "s") EXCEPT !.age = [max |-> -1]],
    Run("pwck", Unset), Run("pwconv", Unset), Run("pwunconv", Unset) }

GroupJobs ==
  { [Option("gpasswd", "g", "a") EXCEPT !.users = {"u"}, !.by = "u"],
    [Option("gpasswd", "g", "d") EXCEPT !.users = {"u"}, !.by = "u"],
    [Run("gpasswd", "g") EXCEPT !.flags = {"A", "M"}],
    [Run("gpasswd", "g") EXCEPT !.pw = Hashed("h1")],
    Option("gpasswd", "g", "r"), Option("gpasswd", "g", "R"),
    [Run("chgpasswd", "g") EXCEPT !.pw = Hashed("h2")],
    Run("grpck", Unset), Run("grpconv", Unset), Run("grpunconv", Unset) }

AllJobs == UserJobs \cup GroupJobs
=============================================================================
