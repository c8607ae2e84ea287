------------------------------- MODULE MCSubIds -------------------------------
(***************************************************************************)
(* A small instance of SubIds: users a and b, a new one c, and identifiers *)
(* up to 9, of which 2 to 7 are given to users, two at a time.             *)
(***************************************************************************)
EXTENDS SubIds

UidOf   == [n \in {"1", "2", "3"} |-> CASE n = "1" -> 1 [] n = "2" -> 2 [] n = "3" -> 3]
Users   == [n \in {"a", "b"} |-> IF n = "a" THEN 1 ELSE 2]

Setting(d, w, s) == [deterministic |-> d, wrap |-> w, storeByUid |-> s]
AllConfigs == {Setting(FALSE, FALSE, FALSE), Setting(TRUE, FALSE, FALSE),
               Setting(TRUE, TRUE, FALSE), Setting(FALSE, FALSE, TRUE)}

(***************************************************************************)
(* The file: absent, empty, a range of a; ranges out of order, adjacent,   *)
(* of a by number and by name, overlapping, and reaching beyond the        *)
(* interval; a range of somebody who is not there.                         *)
(***************************************************************************)
AllStarts ==
  { Absent, <<>>,
    <<RangeOf("a", 2, 3)>>,
    <<RangeOf("a", 4, 2), RangeOf("1", 2, 2)>>,
    <<RangeOf("a", 3, 2), RangeOf("c", 6, 3)>>,
    <<RangeOf("b", 1, 2), RangeOf("3", 3, 1), RangeOf("a", 5, 2), RangeOf("a", 6, 1)>> }

(***************************************************************************)
(* The command lines and calls.                                            *)
(***************************************************************************)
Span(start, count) == [start |-> start, count |-> count]
Run(tool, name, uid) ==
  [tool |-> tool, name |-> name, newName |-> Unset, uid |-> uid, flags |-> {},
   add |-> <<>>, del |-> <<>>, start |-> 0, count |-> 0]

ToolJobs ==
  { Run("useradd", "c", 3), [Run("useradd", "c", 4) EXCEPT !.flags = {"r"}],
    Run("newusers", "c", 3), Run("newusers", "b", 2), Run("userdel", "a", 1),
    [Run("usermod", "a", 1) EXCEPT !.newName = "d"],
    [Run("usermod", "a", 1) EXCEPT !.del = <<Span(3, 2)>>, !.add = <<Span(7, 1)>>],
    [Run("usermod", "b", 2) EXCEPT !.add = <<Span(2, 2)>>] }

LibraryJobs ==
  { [Run("grant", "b", 2) EXCEPT !.start = 1, !.count = 2],
    [Run("grant", "a", 1) EXCEPT !.start = 1, !.count = 2, !.flags = {"reuse"}],
    [Run("ungrant", "a", 1) EXCEPT !.start = 3, !.count = 1] }

MapJobs ==
  { [Run("newuidmap", "a", 1) EXCEPT !.add = <<Span(2, 3), Span(1, 1)>>],
    [Run("newuidmap", "a", 1) EXCEPT !.add = <<Span(1, 1), Span(2, 0)>>],
    [Run("newuidmap", "a", 1) EXCEPT !.add = <<Span(3, 2)>>],
    [Run("newgidmap", "a", 1) EXCEPT !.add = <<Span(1, 1)>>],
    [Run("newgidmap", "a", 1) EXCEPT !.add = <<Span(1, 1), Span(2, 2)>>],
    [Run("newuidmap", "c", 3) EXCEPT !.add = <<Span(6, 2)>>] }

SearchByUsermod == [Run("usermod", "b", 2) EXCEPT !.flags = {"S"}]

AllJobs == ToolJobs \cup LibraryJobs \cup MapJobs \cup {SearchByUsermod}
=============================================================================
