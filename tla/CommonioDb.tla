----------------------------- MODULE CommonioDb -----------------------------
(***************************************************************************)
(* An account file in lib/commonio.c between commonio_open and             *)
(* commonio_close: the doubly linked list of its entries, and how it is    *)
(* written back.  The group file's hooks (lib/groupio.c), which merge the  *)
(* lines of a split group and split a large one, are part of it.           *)
(*                                                                         *)
(* The process has the lock (CommonioLock), so only its own death can come *)
(* between two steps: the process is killed or the machine stops.          *)
(*                                                                         *)
(* Abstractions.  A line is a name and a set of members, for files other   *)
(* than group any value.  Names are numbers, in the order of the sorts.    *)
(* NIS lines and lines that do not parse keep only their kind.  A list is  *)
(* a function from the entries (numbers, 0 is NULL) to the next.  A backup *)
(* or a temporary file that is left behind is never read again, so only    *)
(* the temporary file of the session is kept, and whether it is complete.  *)
(***************************************************************************)
EXTENDS Naturals, Sequences, FiniteSets, SequencesExt

CONSTANTS
  Names, Members,
  MemberSets,      \* those that updates are made with
  MaxCells,        \* bound: entries in memory
  MaxAppend,       \* bound: entries in memory, for an append
  Configurations,  \* what the file holds at first, and MAX_MEMBERS_PER_GROUP
  Missing, Torn,   \* no file; a file not all of which was written
  Absent, Closed   \* no entry of this name; no session

Nis == 0           \* a line that begins with + or -
Bad == Cardinality(Names) + 1   \* a line that does not parse, sorted last

ASSUME DbAssumption ==
  /\ Names = 1 .. Cardinality(Names)
  /\ MaxCells \in Nat \ {0} /\ MaxAppend \in 0 .. MaxCells
  /\ MemberSets \subseteq SUBSET Members

Cells == 1 .. MaxCells
Pointers == 0 .. MaxCells
Kinds == Names \cup {Nis, Bad}

Line == [name : Kinds, members : SUBSET Members]

VARIABLES
  maxMembers,   \* MAX_MEMBERS_PER_GROUP; 0: neither merge nor split
  file,
  tmp,          \* the temporary file of the session
  stage,        \* of the session: open, or how far close has come
  head, tail, cursor, next, prev,
  cells,        \* the entries
  changed,      \* db->changed
  session       \* history: the table the tool has asked for

list == <<head, tail, next, prev, cells>>
disk == <<file, tmp>>
vars == <<maxMembers, disk, stage, list, cursor, changed, session>>

Cell == [name : Kinds, members : SUBSET Members, changed : BOOLEAN, lines : Seq(Line)]
NoCell == [name |-> Bad, members |-> {}, changed |-> FALSE, lines |-> <<>>]

TypeOK ==
  /\ maxMembers \in 0 .. Cardinality(Members)
  /\ file \in {Missing} \/ file \in Seq(Line)
  /\ tmp \in {"none", "torn", "whole"}
  /\ stage \in {"closed", "open", "sorted", "backup", "write", "rename"}
  /\ {head, tail, cursor} \subseteq Pointers
  /\ next \in [Cells -> Pointers] /\ prev \in [Cells -> Pointers]
  /\ cells \in [Cells -> Cell]
  /\ changed \in BOOLEAN

\* What the lines of a file say of a name: the members of all its lines.
TableOf(lines) ==
  [n \in Names |->
     LET Of == {i \in DOMAIN lines : lines[i].name = n} IN
     IF Of = {} THEN Absent ELSE UNION {lines[i].members : i \in Of}]

Lines(f) == IF f \in {Missing, Torn} THEN <<>> ELSE f

Init ==
  /\ \E c \in Configurations : file = c.file /\ maxMembers = c.maxMembers
  /\ tmp = "none"
  /\ stage = "closed"
  /\ head = 0 /\ tail = 0 /\ cursor = 0
  /\ next = [c \in Cells |-> 0] /\ prev = next
  /\ cells = [c \in Cells |-> NoCell]
  /\ changed = FALSE /\ session = Closed

-----------------------------------------------------------------------------
(* The list *)

\* The entries in order, following next from the head; at most MaxCells.
Walk ==
  LET from[i \in 0 .. MaxCells, c \in Pointers] ==
        IF i = 0 \/ c = 0 THEN <<>> ELSE <<c>> \o from[i - 1, next[c]]
  IN from[MaxCells, head]

Listed == {Walk[i] : i \in DOMAIN Walk}

\* next_entry_by_name, find_entry_by_name
Positions(name) == {i \in DOMAIN Walk : cells[Walk[i]].name = name}
First(positions) == Walk[CHOOSE i \in positions : \A j \in positions : i <= j]
Find(name) == IF Positions(name) = {} THEN 0 ELSE First(Positions(name))

Put(pointers, cell, to) == IF cell = 0 THEN pointers ELSE [pointers EXCEPT ![cell] = to]

\* An entry that is not in use.
Fresh == CHOOSE c \in Cells : c \notin Listed \cup {tail}

Room == Listed \cup {tail} # Cells   \* bound

\* add_one_entry
AddLast(c) ==
  /\ next' = Put([next EXCEPT ![c] = 0], tail, c)
  /\ prev' = [prev EXCEPT ![c] = tail]
  /\ head' = IF head = 0 THEN c ELSE head
  /\ tail' = c

\* Variant: the new entry goes to the end.
AddNisLast(c) == AddLast(c)

\* add_one_entry_nis: before the first NIS entry.
AddNis(c) ==
  IF Positions(Nis) = {} THEN AddLast(c)
  ELSE LET p == First(Positions(Nis)) IN
       /\ next' = Put([next EXCEPT ![c] = p], prev[p], c)
       /\ prev' = [prev EXCEPT ![c] = prev[p], ![p] = c]
       /\ head' = IF prev[p] = 0 THEN c ELSE head
       /\ UNCHANGED tail

\* Variant: the tail is forgotten.
DelEntryKeepsTail(p) ==
  /\ cursor' = IF p = cursor THEN next[p] ELSE cursor
  /\ next' = [Put(next, prev[p], next[p]) EXCEPT ![p] = 0]
  /\ prev' = [Put(prev, next[p], prev[p]) EXCEPT ![p] = 0]
  /\ head' = IF prev[p] = 0 THEN next[p] ELSE head
  /\ UNCHANGED tail
  /\ changed' = TRUE

\* commonio_del_entry.  What a freed entry still points to is of no interest.
DelEntry(p) ==
  /\ cursor' = IF p = cursor THEN next[p] ELSE cursor
  /\ next' = [Put(next, prev[p], next[p]) EXCEPT ![p] = 0]
  /\ prev' = [Put(prev, next[p], prev[p]) EXCEPT ![p] = 0]
  /\ head' = IF prev[p] = 0 THEN next[p] ELSE head
  /\ tail' = IF next[p] = 0 THEN prev[p] ELSE tail
  /\ changed' = TRUE

-----------------------------------------------------------------------------
(* Operations *)

\* The entries that group_open_hook keeps: all but those whose name an entry
\* before has (name, password and gid, of which only the first is modelled).
Kept(lines) ==
  {i \in DOMAIN lines :
     maxMembers > 0 /\ lines[i].name \in Names =>
       \A j \in 1 .. i - 1 : lines[j].name # lines[i].name}

\* merge_group_entries, for all the lines merged into one.
Merged(lines, i) ==
  LET same == {j \in DOMAIN lines :
                 j = i \/ (maxMembers > 0 /\ lines[i].name \in Names /\ lines[j].name = lines[i].name)}
  IN [name |-> lines[i].name, members |-> UNION {lines[j].members : j \in same},
      changed |-> FALSE, lines |-> [k \in 1 .. Cardinality(same) |->
                                     lines[SetToSortSeq(same, <)[k]]]]

\* commonio_open for update, creating the file when it is missing.  Merging
\* unlinks entries after the list is made, and does not look at tail.
Open ==
  LET lines == Lines(file)
      order == SetToSortSeq(Kept(lines), <) IN
  /\ stage = "closed" /\ Len(lines) <= MaxCells
  /\ stage' = "open"
  /\ head' = IF lines = <<>> THEN 0 ELSE 1
  /\ tail' = Len(lines)
  /\ cursor' = 0 /\ changed' = FALSE
  /\ cells' = [c \in Cells |-> IF c \in Kept(lines) THEN Merged(lines, c) ELSE NoCell]
  /\ next' = [c \in Cells |->
       IF c \in Kept(lines) /\ c # Last(order) THEN Min({k \in Kept(lines) : k > c}) ELSE 0]
  /\ prev' = [c \in Cells |->
       IF c \in Kept(lines) /\ c # 1 THEN Max({k \in Kept(lines) : k < c}) ELSE 0]
  /\ session' = TableOf(lines)
  /\ UNCHANGED <<maxMembers, disk>>

\* commonio_update
Update(name, members) ==
  LET new == [name |-> name, members |-> members, changed |-> TRUE, lines |-> <<>>]
      p == Find(name) IN
  /\ stage = "open"
  /\ \/ /\ Cardinality(Positions(name)) = 1
        /\ cells' = [cells EXCEPT ![p] = [new EXCEPT !.lines = cells[p].lines]]
        /\ cursor' = p
        /\ UNCHANGED <<head, tail, next, prev>>
     \/ /\ p = 0 /\ Room
        /\ cells' = [cells EXCEPT ![Fresh] = new]
        /\ AddNis(Fresh)
        /\ UNCHANGED cursor
  /\ changed' = TRUE
  /\ session' = [session EXCEPT ![name] = members]
  /\ UNCHANGED <<maxMembers, disk, stage>>

\* commonio_append, of the subordinate id files: no merging, no NIS lines.
AppendEntry(name, members) ==
  /\ stage = "open" /\ maxMembers = 0 /\ Positions(Nis) = {} /\ Len(Walk) < MaxAppend
  /\ cells' = [cells EXCEPT ![Fresh] =
       [name |-> name, members |-> members, changed |-> TRUE, lines |-> <<>>]]
  /\ AddLast(Fresh)
  /\ changed' = TRUE
  /\ session' = [session EXCEPT ![name] = IF @ = Absent THEN members ELSE @ \cup members]
  /\ UNCHANGED <<maxMembers, disk, stage, cursor>>

\* commonio_remove; the entry is freed.
RemoveEntry(name) ==
  /\ stage = "open" /\ Cardinality(Positions(name)) = 1
  /\ DelEntry(Find(name))
  /\ cells' = [cells EXCEPT ![Find(name)] = NoCell]
  /\ session' = [session EXCEPT ![name] = Absent]
  /\ UNCHANGED <<maxMembers, disk, stage>>

\* commonio_locate
Locate(name) ==
  /\ stage = "open" /\ Find(name) # 0
  /\ cursor' = Find(name)
  /\ UNCHANGED <<maxMembers, disk, stage, list, changed, session>>

Rewind ==
  /\ stage = "open"
  /\ cursor' = 0
  /\ UNCHANGED <<maxMembers, disk, stage, list, changed, session>>

\* commonio_next: the next entry that parsed, or NULL.
NextEntry ==
  LET at == IF cursor = 0 THEN 0 ELSE CHOOSE i \in DOMAIN Walk : Walk[i] = cursor
      after == {i \in DOMAIN Walk : i > at /\ cells[Walk[i]].name \in Names} IN
  /\ stage = "open"
  /\ cursor' = IF after = {} THEN 0 ELSE First(after)
  /\ UNCHANGED <<maxMembers, disk, stage, list, changed, session>>

\* The list made of the entries in another order.
Relink(order) ==
  /\ head' = IF order = <<>> THEN 0 ELSE order[1]
  /\ next' = [c \in Cells |->
       IF \E i \in 1 .. Len(order) - 1 : order[i] = c
         THEN order[1 + CHOOSE i \in 1 .. Len(order) - 1 : order[i] = c] ELSE 0]

\* commonio_sort (pw_sort, gr_sort, find_free_range): the entries before the
\* first NIS entry, which keeps its prev.  Only pwck and grpck sort a file
\* with NIS entries, and they close it next.
Sort ==
  LET nis == Positions(Nis)
      n == IF nis = {} THEN Len(Walk) ELSE Min(nis) - 1
      key(c) == cells[c].name
      sorted == SortSeq(SubSeq(Walk, 1, n), LAMBDA c, d : key(c) < key(d)) IN
  /\ stage = "open" /\ n > 1
  /\ Relink(sorted \o SubSeq(Walk, n + 1, Len(Walk)))
  /\ prev' = [c \in Cells |->
       IF c = sorted[1] THEN 0
       ELSE IF \E i \in 2 .. n : sorted[i] = c
         THEN sorted[(CHOOSE i \in 2 .. n : sorted[i] = c) - 1] ELSE prev[c]]
  /\ tail' = IF nis = {} THEN Last(sorted) ELSE tail
  /\ changed' = TRUE
  /\ stage' = IF nis = {} THEN stage ELSE "sorted"
  /\ UNCHANGED <<maxMembers, disk, cells, cursor, session>>

\* commonio_sort_wrt (spw_sort): the first entry of each name of the other
\* file comes first, in the order of that file.
SortWrt(names) ==
  LET moved == [i \in DOMAIN SelectSeq(names, LAMBDA n : Find(n) # 0) |->
                  Find(SelectSeq(names, LAMBDA n : Find(n) # 0)[i])]
      rest == SelectSeq(Walk, LAMBDA c : \A i \in DOMAIN moved : moved[i] # c) IN
  /\ stage = "open" /\ head # 0
  /\ Relink(moved \o rest)
  /\ tail' = IF rest = <<>> THEN 0 ELSE Last(rest)
  /\ changed' = TRUE /\ stage' = "sorted"
  /\ UNCHANGED <<maxMembers, disk, prev, cells, cursor, session>>

-----------------------------------------------------------------------------
(* Closing *)

\* split_groups: at most maxMembers on a line.
Split[ms \in SUBSET Members] ==
  IF maxMembers = 0 \/ Cardinality(ms) <= maxMembers THEN <<ms>>
  ELSE LET some == CHOOSE s \in SUBSET ms : Cardinality(s) = maxMembers
       IN <<some>> \o Split[ms \ some]

\* What write_all makes of an entry: the lines it was read from, or the new
\* ones.
LinesOf(c) ==
  IF cells[c].changed
    THEN [i \in DOMAIN Split[cells[c].members] |->
            [name |-> cells[c].name, members |-> Split[cells[c].members][i]]]
    ELSE cells[c].lines

Written == FlattenSeq([i \in DOMAIN Walk |-> LinesOf(Walk[i])])

\* free_linked_list; commonio_close returns.
Freed ==
  /\ stage' = "closed"
  /\ head' = 0 /\ tail' = 0 /\ cursor' = 0 /\ changed' = FALSE
  /\ next' = [c \in Cells |-> 0] /\ prev' = [c \in Cells |-> 0]
  /\ cells' = [c \in Cells |-> NoCell]
  /\ session' = Closed
  /\ tmp' = "none"
  /\ UNCHANGED maxMembers

InSession == stage \in {"open", "sorted"}

CloseUnchanged ==
  /\ InSession /\ ~ changed
  /\ Freed /\ UNCHANGED file

Close ==
  /\ InSession /\ changed
  /\ stage' = IF file = Missing THEN "write" ELSE "backup"
  /\ UNCHANGED <<maxMembers, disk, list, cursor, changed, session>>

\* create_backup: a copy of the file that is still open.
CreateBackup ==
  /\ stage = "backup"
  /\ stage' = "write"
  /\ UNCHANGED <<maxMembers, disk, list, cursor, changed, session>>

\* Variant: an error of write_all, fflush or fsync is not looked at.
WriteErrorIgnored ==
  /\ stage = "write"
  /\ tmp' \in {"whole", "torn"}
  /\ stage' = "rename"
  /\ UNCHANGED <<maxMembers, file, list, cursor, changed, session>>

WriteTmp ==
  /\ stage = "write"
  /\ tmp' = "whole"
  /\ stage' = "rename"
  /\ UNCHANGED <<maxMembers, file, list, cursor, changed, session>>

\* The close hook, the backup or the temporary file failed; after an error
\* the temporary file is removed, except when it is rename's.
CloseFails ==
  /\ stage \in {"backup", "write", "rename"}
  /\ Freed /\ UNCHANGED file

Rename ==
  /\ stage = "rename"
  /\ file' = IF tmp = "whole" THEN Written ELSE Torn
  /\ Freed

\* The process dies, or the machine stops before the rename is on the disk.
Die ==
  /\ stage # "closed"
  /\ Freed /\ UNCHANGED file

Operation ==
  \/ \E n \in Names : \E ms \in MemberSets : Update(n, ms) \/ AppendEntry(n, ms)
  \/ \E n \in Names : RemoveEntry(n) \/ Locate(n)
  \/ Rewind \/ NextEntry
  \/ Sort
  \/ \E names \in SetToSeqs(Names) : SortWrt(names)

CloseStep ==
  \/ CloseUnchanged \/ Close \/ CreateBackup \/ WriteTmp \/ CloseFails \/ Rename

Next == Open \/ Operation \/ CloseStep \/ Die

Spec == Init /\ [][Next]_vars

-----------------------------------------------------------------------------
(* Properties *)

\* "New entries are inserted before the first NIS entry.  Order is preserved
\* when db is written out": every entry the tool has put in the file is in
\* the list that will be written, with what was last asked for, and the
\* cursor never stays on an entry that was freed, in any order of additions,
\* removals and iteration.
ListIsSession ==
  /\ stage # "closed" =>
       \A n \in Names :
         session[n] = IF Positions(n) = {} THEN Absent
                      ELSE UNION {cells[Walk[i]].members : i \in Positions(n)}
  /\ cursor \in Listed \cup {0}

\* NIS lines at the end of a file are still there after additions.
NisAtEnd(lines) ==
  \A i, j \in DOMAIN lines : i < j /\ lines[i].name = Nis => lines[j].name = Nis

NisStayLast ==
  [][file' # file /\ NisAtEnd(Lines(file)) => NisAtEnd(Lines(file'))]_file

Table == INSTANCE RecordFile WITH
  Keys <- Names, Values <- SUBSET Members,
  stored <- TableOf(Lines(file)), session <- session

\* List, hooks and the four steps of closing implement a table that is
\* replaced as a whole or not at all.
ImplementsTable == Table!Spec
=============================================================================
