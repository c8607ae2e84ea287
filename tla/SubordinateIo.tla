---------------------------- MODULE SubordinateIo ----------------------------
(***************************************************************************)
(* The file of subordinate identifiers, a sequence of ranges, and what     *)
(* subordinateio and find_new_sub_uids compute from it.  A range belongs   *)
(* to a user by name or by number.  subuid and subgid have the same code.  *)
(*                                                                         *)
(* passwd gives the uid of each user, as in the file when it is looked at. *)
(***************************************************************************)
EXTENDS Integers, ToolScripts, Functions

CONSTANTS
  MaxId,       \* the largest identifier
  UidMin, UidMax,
  SubIdMin, SubIdMax, SubIdCount,
  NumberOf     \* the uid that a name made of digits stands for

RangeOf(owner, start, count) == [owner |-> owner, start |-> start, count |-> count]

\* The last identifier of a range; one before the first when it is empty.
LastOf(r) == r.start + r.count - 1
IdsOf(r)  == r.start .. LastOf(r)

(***************************************************************************)
(* Users.                                                                  *)
(***************************************************************************)
\* getpw_uid_or_nam: a number must be the uid of somebody.
KnownUid(passwd, owner) ==
  IF owner \in DOMAIN NumberOf THEN {NumberOf[owner]} \cap Range(passwd)
  ELSE {passwd[n] : n \in {owner} \cap DOMAIN passwd}

IsSameUser(passwd, a, b) == KnownUid(passwd, a) \cap KnownUid(passwd, b) # {}

RangeExists(passwd, db, owner) == \E i \in DOMAIN db : IsSameUser(passwd, db[i].owner, owner)

\* The identifiers of an owner, by name or as the same user.
OwnedBy(passwd, db, owner) ==
  UNION {IdsOf(r) : r \in {s \in Range(db) : s.owner = owner \/ IsSameUser(passwd, s.owner, owner)}}

AllIds(db) == UNION {IdsOf(r) : r \in Range(db)}

(***************************************************************************)
(* Looking up.                                                             *)
(***************************************************************************)
\* The first of the ranges at some positions, if there is one.
FirstAt(db, at) == {db[i] : i \in {j \in at : \A k \in at : j <= k}}

\* find_range: a range of that name, before one of the same user.
FindRange(passwd, db, owner, val) ==
  LET holds == {i \in DOMAIN db : val \in IdsOf(db[i])}
      named == {i \in holds : db[i].owner = owner}
  IN  IF named # {} THEN FirstAt(db, named)
      ELSE FirstAt(db, {i \in holds : IsSameUser(passwd, db[i].owner, owner)})

\* Variant: the range that holds the first identifier is enough.
HaveRangeFirstOnly(passwd, db, owner, start, count) ==
  count > 0 /\ FindRange(passwd, db, owner, start) # {}

\* have_range: one range after the other, from start to the end.
HaveRange(passwd, db, owner, start, count) ==
  LET end == start + count - 1
      reach[s \in start .. end] ==
        \E r \in FindRange(passwd, db, owner, s) : LastOf(r) >= end \/ reach[LastOf(r) + 1]
  IN  count > 0 /\ reach[start]

\* list_owner_ranges
ListOwnerRanges(passwd, db, owner) ==
  EntriesAt(db, {i \in DOMAIN db : IsSameUser(passwd, db[i].owner, owner)})

\* append_uids, which believes a number
OwnerUid(passwd, owner) ==
  IF owner \in DOMAIN NumberOf THEN {NumberOf[owner]} ELSE KnownUid(passwd, owner)

\* find_subid_owners, which gives up at a name that is nobody's.
FindSubidOwners(passwd, db, id) ==
  LET uids == {OwnerUid(passwd, r.owner) : r \in {s \in Range(db) : id \in IdsOf(s)}}
  IN  IF {} \in uids THEN {} ELSE {UNION uids}

(***************************************************************************)
(* Finding a free range: none, or where it begins.                         *)
(***************************************************************************)
\* subordinate_range_cmp, but for the names: ranges that only differ in their
\* owner may come in any order.
Below(r, s) == r.start < s.start \/ (r.start = s.start /\ r.count < s.count)

\* How many ranges come up to the i-th one.
Place(db, i) ==
  Cardinality({j \in DOMAIN db : Below(db[j], db[i]) \/ (~Below(db[i], db[j]) /\ j <= i)})

\* Variant: the ranges are looked at in the order of the file.
Unsorted(db) == db

Sorted(db) == [k \in DOMAIN db |-> db[CHOOSE i \in DOMAIN db : Place(db, i) = k]]

\* Variant: a range is taken to end one identifier early.
FirstHoleOverlaps(sorted, min, max, count) ==
  LET step(acc, r) ==
        IF acc.found # {} \/ r.count = 0 THEN acc
        ELSE IF r.start - acc.low >= count THEN [acc EXCEPT !.found = {acc.low}]
        ELSE [acc EXCEPT !.low = IF @ < LastOf(r) THEN LastOf(r) ELSE @]
      end == FoldLeft(step, [low |-> min, found |-> {}], sorted)
  IN  IF end.found # {} THEN end.found ELSE {l \in {end.low} : max - l >= count - 1}

\* The loop of find_free_range.  low is where the hole before a range begins,
\* after all the ranges that come earlier; the hole is cut off after max.  Once
\* low is beyond max no hole is wide enough.
FirstHole(sorted, min, max, count) ==
  LET used    == {i \in DOMAIN sorted : sorted[i].count # 0}
      low(i)  == Max({min} \cup {LastOf(sorted[j]) + 1 : j \in {k \in used : k < i}})
      high(i) == IF sorted[i].start > max + 1 THEN max + 1 ELSE sorted[i].start
      wide    == {i \in used : high(i) - low(i) >= count}
      end     == low(Len(sorted) + 1)
  IN  IF count = 0 \/ max < min \/ count > max - min + 1 THEN {}
      ELSE IF wide # {} THEN {low(i) : i \in {j \in wide : \A k \in wide : j <= k}}
      ELSE {l \in {end} : max - l >= count - 1}

FindFreeRange(db, min, max, count) == FirstHole(Sorted(db), min, max, count)

\* find_new_sub_uids_deterministic: the slot of the uid, which may wrap.
FindNewSubIdsDeterministic(uid, wrap) ==
  LET space == SubIdMax - SubIdMin + 1
      slots == space \div SubIdCount
      offset == uid - UidMin
  IN  IF \/ uid < UidMin
         \/ SubIdMin > SubIdMax \/ SubIdCount = 0 \/ SubIdCount > space
         \/ offset >= slots /\ ~wrap
      THEN {}
      ELSE {SubIdMin + (IF offset >= slots THEN offset % slots ELSE offset) * SubIdCount}

FindNewSubIdsLinear(db) == FindFreeRange(db, SubIdMin, SubIdMax, SubIdCount)

\* config: the settings of login.defs.
FindNewSubIds(config, db, uid) ==
  IF config.deterministic THEN FindNewSubIdsDeterministic(uid, config.wrap)
  ELSE FindNewSubIdsLinear(db)

\* The search leaves the ranges sorted.
AfterFind(config, db) == IF config.deterministic THEN db ELSE Sorted(db)

(***************************************************************************)
(* Adding and removing.                                                    *)
(***************************************************************************)
AddRange(passwd, db, owner, start, count) ==
  IF HaveRange(passwd, db, owner, start, count) THEN db
  ELSE Append(db, RangeOf(owner, start, count))

\* sub_uid_add: under the number of the user, when it has one.
SubIdAdd(config, passwd, db, owner, start, count) ==
  IF config.storeByUid
  THEN {AddRange(passwd, db, n, start, count) :
          n \in {m \in DOMAIN NumberOf : NumberOf[m] \in KnownUid(passwd, owner)}}
  ELSE {AddRange(passwd, db, owner, start, count)}

\* Variant: what comes after a hole in the middle is lost.
RemoveRangeDropsTail(passwd, db, owner, start, count) ==
  LET end == start + count - 1
      touched(r) == IsSameUser(passwd, r.owner, owner) /\ start <= LastOf(r) /\ end >= r.start
      kept(r) == IF ~touched(r) THEN {r}
                 ELSE IF start > r.start THEN {[r EXCEPT !.count = start - r.start]}
                 ELSE IF end < LastOf(r) THEN {RangeOf(r.owner, end + 1, LastOf(r) - end)} ELSE {}
  IN  IF count = 0 THEN db
      ELSE FoldLeft(LAMBDA rest, r : rest \o SetToSeq(kept(r)), <<>>, db)

\* remove_range: a range is deleted, cut at one end, or loses its middle; what
\* comes after the middle is a new range at the end of the file.
RemoveRange(passwd, db, owner, start, count) ==
  LET end == start + count - 1
      touched(r) == IsSameUser(passwd, r.owner, owner) /\ start <= LastOf(r) /\ end >= r.start
      after(r) == RangeOf(r.owner, end + 1, LastOf(r) - end)
      cut(r) == IF ~touched(r) THEN r
                ELSE IF start > r.start THEN RangeOf(r.owner, r.start, start - r.start) ELSE after(r)
      at(Part(_)) == {i \in DOMAIN db : Part(db[i])}
      kept  == EntriesAt(db, at(LAMBDA r : ~touched(r) \/ start > r.start \/ end < LastOf(r)))
      split == EntriesAt(db, at(LAMBDA r : touched(r) /\ start > r.start /\ end < LastOf(r)))
  IN  IF count = 0 THEN db
      ELSE [i \in DOMAIN kept |-> cut(kept[i])] \o [i \in DOMAIN split |-> after(split[i])]

(***************************************************************************)
(* newuidmap and newgidmap: each range of a map is one of the caller's, or *)
(* its own identifier.                                                     *)
(***************************************************************************)
\* get_map_ranges: no range is empty or goes beyond the largest identifier.
MapRangesParse(ranges) ==
  \A r \in Range(ranges) : r.count \in 1 .. MaxId - r.start

VerifyRange(passwd, db, user, own, range) ==
  /\ range.count > 0
  /\ \/ HaveRange(passwd, db, user, range.start, range.count)
     \/ range.count = 1 /\ range.start = own

VerifyRanges(passwd, db, user, own, ranges) ==
  \A r \in Range(ranges) : VerifyRange(passwd, db, user, own, r)

\* Variant: the caller's own group is as good as one of subgid.
AllowSetgroupsOwn(passwd, db, user, ranges) == ranges # <<>>

\* newgidmap lets the process change its groups when a range is in subgid.
AllowSetgroups(passwd, db, user, ranges) ==
  \E r \in Range(ranges) : HaveRange(passwd, db, user, r.start, r.count)
=============================================================================
