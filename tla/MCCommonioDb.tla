---------------------------- MODULE MCCommonioDb ----------------------------
(* Instances of CommonioDb for TLC: the files the tools may find.          *)
EXTENDS CommonioDb

CONSTANTS m1, m2

line(n, ms) == [name |-> n, members |-> ms]

TwoSets == {{m1}, {m1, m2}}

\* Without merging: no file, a name that is there twice, a line that does not
\* parse; with merging: a split group, next to another one, before NIS lines.
SomeFiles ==
  {[maxMembers |-> 0, file |-> Missing],
   [maxMembers |-> 0, file |-> <<line(1, {m1}), line(1, {m2}), line(Nis, {})>>],
   [maxMembers |-> 0, file |-> <<line(2, {}), line(Bad, {}), line(Nis, {})>>],
   [maxMembers |-> 1, file |-> <<line(1, {m1}), line(2, {m2}), line(1, {m2}), line(Nis, {})>>]}

\* A split group whose second line is the last of the file.
SplitLast == {[maxMembers |-> 1, file |-> <<line(1, {m1}), line(1, {m2})>>]}
=============================================================================
