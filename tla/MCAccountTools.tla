--------------------------- MODULE MCAccountTools ---------------------------
(***************************************************************************)
(* Small instances of AccountTools: one user with a group of its own, and  *)
(* one group that is nobody's primary group.                               *)
(***************************************************************************)
EXTENDS AccountTools

Only(tool, name) ==
  [tool |-> tool, name |-> name, newName |-> Unset, uid |-> 0, gid |-> 0,
   users |-> Unset, groups |-> {}, flags |-> {}, lines |-> <<>>]

\* Names: a is the user, g the free group, b is new.  Ids: 1 and 2 are those
\* of system accounts, 3 to 6 those of users, of which 5 is reserved.
Passwd == [n \in {"a"} |-> [uid |-> 3, gid |-> 3]]
Groups == [n \in {"a", "g"} |-> [gid |-> IF n = "a" THEN 3 ELSE 4, members |-> {}]]

UserJobs ==
  { [Only("useradd", "b") EXCEPT !.flags = {"usergroup"}],
    [Only("useradd", "b") EXCEPT !.flags = {"usergroup", "r"}],
    [Only("useradd", "b") EXCEPT !.gid = 4, !.uid = 4],
    [Only("useradd", "g") EXCEPT !.gid = 3, !.uid = 4],
    [Only("useradd", "b") EXCEPT !.gid = 3, !.groups = {"a", "g"}],
    [Only("usermod", "a") EXCEPT !.newName = "b"],
    [Only("usermod", "a") EXCEPT !.newName = "b", !.groups = {"g"}, !.flags = {"G", "a"}],
    [Only("usermod", "a") EXCEPT !.uid = 6, !.gid = 4],
    [Only("usermod", "a") EXCEPT !.groups = {"g"}, !.flags = {"G", "r"}],
    Only("userdel", "a"),
    [Only("userdel", "b") EXCEPT !.flags = {"f"}] }

GroupJobs ==
  { Only("groupadd", "b"),
    [Only("groupadd", "b") EXCEPT !.gid = 3, !.flags = {"f"}],
    [Only("groupadd", "b") EXCEPT !.gid = 6, !.users = {"a"}],
    Only("groupdel", "g"),
    [Only("groupdel", "a") EXCEPT !.flags = {"f"}],
    [Only("groupmod", "g") EXCEPT !.gid = 6],
    [Only("groupmod", "a") EXCEPT !.gid = 6, !.newName = "b"],
    [Only("groupmod", "g") EXCEPT !.users = {"a"}, !.flags = {"a"}] }

\* b comes before a second user g, whose group is there already, with a line
\* for a in between; and b with the uid of a and a group whose name is new.
NewLine(name) == [name |-> name, uid |-> 0, uidOf |-> Unset, gid |-> 0, group |-> Unset]

BatchJobs ==
  { [Only("newusers", Unset) EXCEPT !.lines =
       << NewLine("b"), NewLine("a"), [NewLine("g") EXCEPT !.group = "g"] >>],
    [Only("newusers", Unset) EXCEPT !.lines =
       << [NewLine("g") EXCEPT !.uid = 6, !.gid = 4],
          [NewLine("b") EXCEPT !.uidOf = "a", !.group = "b"] >>] }

AllJobs == UserJobs \cup GroupJobs \cup BatchJobs
=============================================================================
