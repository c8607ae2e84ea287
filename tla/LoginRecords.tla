---------------------------- MODULE LoginRecords ----------------------------
(***************************************************************************)
(* The files that login keeps: faillog, a record for each uid up to some   *)
(* uid, and utmp, the entries of the sessions.                             *)
(***************************************************************************)
EXTENDS Integers, Sequences, FiniteSets, SequencesExt

CONSTANTS
  ShortMax,   \* the largest short
  Name,       \* of a line, without /dev/
  LineId,     \* the last characters of that
  None

(***************************************************************************)
(* faillog.                                                                *)
(***************************************************************************)
NoRecord == [cnt |-> 0, max |-> 0, time |-> 0, lock |-> 0]

Short(n) == ((n + ShortMax + 1) % (2 * ShortMax + 2)) - (ShortMax + 1)

Record(log, uid) == IF uid \in DOMAIN log THEN log[uid] ELSE NoRecord

\* A write beyond the end leaves records of zeroes before it.
WithRecord(log, uid, record) ==
  [u \in DOMAIN log \cup 0 .. uid |-> IF u = uid THEN record ELSE Record(log, u)]

\* A mistake it could make: the record that was read is not added to.
CountedFromZero(record, now) == [record EXCEPT !.cnt = 1, !.time = now]

\* failure: the sum is an int, what is kept of it a short.
Counted(record, now) ==
  [record EXCEPT !.cnt = IF @ + 1 > 0 THEN Short(@ + 1) ELSE @, !.time = now]

TooManyFailures(record, now) ==
  /\ record.max # 0 /\ record.cnt >= record.max
  /\ record.lock = 0 \/ record.time + record.lock >= now

(***************************************************************************)
(* faillog -r, -m and -l: which uids, and what becomes of a record.  A     *)
(* range is [min, max], each a uid or None, and all is -a.                 *)
(***************************************************************************)
LastUid(size) == IF size > 1 THEN size - 1 ELSE size

SelectedUids(do, range, all, size, users) ==
  LET last == LastUid(size)
      low  == IF range.min = None THEN 0 ELSE range.min
      high == IF range.max = None THEN IF all \/ do = "reset" THEN last ELSE Max(users \cup {0})
              ELSE IF do = "reset" /\ last < range.max THEN last ELSE range.max
  IN  IF range.min # None /\ range.min = range.max THEN {range.min}
      ELSE IF all THEN low .. high ELSE users \cap low .. high

Maintained(record, do, value) ==
  CASE do = "reset" -> [record EXCEPT !.cnt = 0]
    [] do = "max"   -> [record EXCEPT !.max = value]
    [] do = "lock"  -> [record EXCEPT !.lock = value]

(***************************************************************************)
(* utmp.                                                                   *)
(***************************************************************************)
LivingTypes == {"LOGIN", "USER"}

FirstEntry(utmp, held) == IF held = {} THEN <<>> ELSE <<utmp[Min(held)]>>

Living(utmp) == {i \in DOMAIN utmp : utmp[i].type \in LivingTypes}
OwnEntries(utmp, pid)   == {i \in Living(utmp) : utmp[i].pid = pid}
OtherGettys(utmp, pid)  == {i \in DOMAIN utmp : utmp[i].type = "LOGIN" /\ utmp[i].pid # pid}
OnLine(utmp, held, line) == {i \in held : utmp[i].line = Name[line]}

\* A mistake it could make: the entry of a getty on any line.
GetCurrentUtmpAnyGetty(utmp, pid, line) ==
  LET own == OwnEntries(utmp, pid)
  IN  FirstEntry(utmp, IF OnLine(utmp, own, line) # {} THEN OnLine(utmp, own, line)
                       ELSE IF own # {} THEN own ELSE OtherGettys(utmp, pid))

\* get_current_utmp: the entry of the process on its line, one of the process
\* on another line, one of a getty on the line.
GetCurrentUtmp(utmp, pid, line) ==
  LET own == OwnEntries(utmp, pid)
  IN  FirstEntry(utmp, IF OnLine(utmp, own, line) # {} THEN OnLine(utmp, own, line)
                       ELSE IF own # {} THEN own ELSE OnLine(utmp, OtherGettys(utmp, pid), line))

PrepareUtmp(name, line, host, current, pid) ==
  [type |-> "USER", pid |-> pid, line |-> Name[line], user |-> name,
   id   |-> IF current # <<>> /\ current[1].id # "" THEN current[1].id ELSE LineId[line],
   host |-> IF host = "" /\ current # <<>> THEN current[1].host ELSE host]

\* pututxline puts an entry in the place of one with its id.
PutUtxLine(utmp, entry) ==
  LET same == {i \in DOMAIN utmp : utmp[i].id = entry.id}
  IN  IF same = {} THEN Append(utmp, entry) ELSE [utmp EXCEPT ![Min(same)] = entry]

UpdateUtmp(utmp, name, line, host, pid) ==
  PutUtxLine(utmp, PrepareUtmp(name, line, host, GetCurrentUtmp(utmp, pid, line), pid))

ActiveSessionsCount(utmp, name) ==
  Cardinality({i \in DOMAIN utmp : utmp[i].type = "USER" /\ utmp[i].user = name})
=============================================================================
