------------------------- MODULE NorxDatabaseProofs -------------------------
(***************************************************************************)
(* Proofs about NorxDatabase, for every set of names, identifier range and *)
(* limit: the integrity of the database is an inductive invariant, so it   *)
(* holds after any sequence of calls by any actors.  What the limits bound *)
(* (the number of records, the length of a member list) plays no part.     *)
(***************************************************************************)
EXTENDS NorxDatabase, TLAPS

AccountsOK(as) ==
  /\ as \subseteq Account
  /\ \A a, b \in as : a.name = b.name \/ a.uid = b.uid => a = b

GroupsOK(gs) ==
  /\ gs \subseteq Group
  /\ \A g, h \in gs : g.name = h.name \/ g.gid = h.gid => g = h
  /\ \A g \in gs, n \in UserNames : g.members[n] <= 1

GidsOf(gs) == {g.gid : g \in gs}

\* Only these names are members of the groups.
OnlyMembers(gs, names) ==
  \A g \in gs, n \in UserNames : g.members[n] > 0 => n \in names

Consistent(as, gs) ==
  /\ AccountsOK(as)
  /\ GroupsOK(gs)
  /\ \A a \in as : a.gid \in GidsOf(gs)
  /\ OnlyMembers(gs, Names(as))

Integrity ==
  /\ Consistent(accounts, groups)
  /\ caller \in Actors \cup {Absent}

-----------------------------------------------------------------------------
(* The helpers *)

\* next_id gives an identifier of the dynamic range that is not in use.
LEMMA ChosenIdFresh ==
  ASSUME NEW option \in Ids \cup {Absent}, NEW used, NEW i \in ChosenId(option, used)
  PROVE  i \in Ids /\ i \notin used
  BY DatabaseAssumption DEF ChosenId, NextId, Ids

\* set_membership brings in nobody but the user it is called for.
LEMMA SetMembershipOK ==
  ASSUME NEW gs, GroupsOK(gs), NEW names, OnlyMembers(gs, names),
         NEW user \in UserNames, NEW named
  PROVE  LET hs == SetMembership(gs, user, named) IN
         /\ GroupsOK(hs)
         /\ GidsOf(hs) = GidsOf(gs)
         /\ OnlyMembers(hs, names \cup {user})
<1>. DEFINE hs == SetMembership(gs, user, named)
<1>1. \A h \in hs : h \in Group /\ h.members[user] <= 1 /\
        \E g \in gs : /\ h.name = g.name /\ h.gid = g.gid
                     /\ \A n \in UserNames \ {user} : h.members[n] = g.members[n]
  <2>. SUFFICES ASSUME NEW h \in hs
                PROVE  h \in Group /\ h.members[user] <= 1 /\
        \E g \in gs : /\ h.name = g.name /\ h.gid = g.gid
                     /\ \A n \in UserNames \ {user} : h.members[n] = g.members[n]
    OBVIOUS
  <2>1. PICK g \in gs : h = [g EXCEPT !.members[user] = IF g.name \in named THEN 1 ELSE 0]
    BY DEF SetMembership
  <2>2. g \in Group /\ g.members \in [UserNames -> Nat]
    BY <2>1 DEF GroupsOK, Group, Members
  <2>3. h.members = [g.members EXCEPT ![user] = IF g.name \in named THEN 1 ELSE 0]
    BY <2>1, <2>2 DEF Group
  <2>4. h.name = g.name /\ h.gid = g.gid /\ h \in Group
    BY <2>1, <2>2, <2>3 DEF Group, Members
  <2>. QED
    BY <2>2, <2>3, <2>4
<1>2. \A g \in gs : \E h \in hs : h.gid = g.gid
  <2>. SUFFICES ASSUME NEW g \in gs  PROVE \E h \in hs : h.gid = g.gid
    OBVIOUS
  <2>. DEFINE h == [g EXCEPT !.members[user] = IF g.name \in named THEN 1 ELSE 0]
  <2>1. h \in hs
    BY DEF SetMembership
  <2>2. g \in Group
    BY DEF GroupsOK
  <2>3. h.gid = g.gid
    BY <2>2 DEF Group
  <2>. QED
    BY <2>1, <2>3
<1>3. GidsOf(hs) = GidsOf(gs)
  BY <1>1, <1>2 DEF GidsOf
<1>4. \A h, k \in hs : h.name = k.name \/ h.gid = k.gid => h = k
  <2>1. SUFFICES ASSUME NEW h \in hs, NEW k \in hs, h.name = k.name \/ h.gid = k.gid
                 PROVE  h = k
    OBVIOUS
  <2>2. PICK g \in gs : h = [g EXCEPT !.members[user] = IF g.name \in named THEN 1 ELSE 0]
    BY DEF SetMembership
  <2>3. PICK j \in gs : k = [j EXCEPT !.members[user] = IF j.name \in named THEN 1 ELSE 0]
    BY DEF SetMembership
  <2>4. g.name = j.name \/ g.gid = j.gid
    BY <2>1, <2>2, <2>3 DEF GroupsOK, Group
  <2>5. g = j
    BY <2>4 DEF GroupsOK
  <2>. QED
    BY <2>2, <2>3, <2>5
<1>5. GroupsOK(hs)
  BY <1>1, <1>4 DEF GroupsOK
<1>6. OnlyMembers(hs, names \cup {user})
  BY <1>1 DEF OnlyMembers
<1>. QED
  BY <1>3, <1>5, <1>6

\* With no groups it takes the user out of all of them.
LEMMA ClearMembershipOK ==
  ASSUME NEW gs, GroupsOK(gs), NEW names, OnlyMembers(gs, names), NEW user \in UserNames
  PROVE  OnlyMembers(SetMembership(gs, user, {}), names \ {user})
<1>. SUFFICES ASSUME NEW h \in SetMembership(gs, user, {}), NEW n \in UserNames,
                     h.members[n] > 0
              PROVE  n \in names \ {user}
  BY DEF OnlyMembers
<1>1. PICK g \in gs : h = [g EXCEPT !.members[user] = 0]
  BY DEF SetMembership
<1>2. g \in Group /\ g.members \in [UserNames -> Nat]
  BY <1>1 DEF GroupsOK, Group, Members
<1>3. h.members = [g.members EXCEPT ![user] = 0]
  BY <1>1, <1>2 DEF Group
<1>. QED
  BY <1>1, <1>2, <1>3 DEF OnlyMembers

\* Renaming to a name that is in no group keeps member lists free of
\* duplicates.
LEMMA RenameMemberOK ==
  ASSUME NEW gs, GroupsOK(gs), NEW names, OnlyMembers(gs, names),
         NEW old \in UserNames, NEW new \in UserNames, old # new, new \notin names
  PROVE  LET hs == RenameMember(gs, old, new) IN
         /\ GroupsOK(hs)
         /\ GidsOf(hs) = GidsOf(gs)
         /\ OnlyMembers(hs, (names \ {old}) \cup {new})
<1>. DEFINE renamed(g) == [n \in UserNames |->
                             IF n = new THEN g.members[new] + g.members[old]
                             ELSE IF n = old THEN 0 ELSE g.members[n]]
            hs == RenameMember(gs, old, new)
<1>1. hs = {[g EXCEPT !.members = renamed(g)] : g \in gs}
  BY DEF RenameMember
<1>2. \A g \in gs : /\ g \in Group /\ g.members \in [UserNames -> Nat]
                    /\ g.members[new] = 0 /\ g.members[old] <= 1
  BY DEF GroupsOK, Group, Members, OnlyMembers
<1>3. \A g \in gs : /\ renamed(g) \in Members
                    /\ \A n \in UserNames : renamed(g)[n] <= 1
                    /\ renamed(g)[old] = 0
                    /\ \A n \in UserNames \ {old, new} : renamed(g)[n] = g.members[n]
  BY <1>2 DEF Members, GroupsOK
<1>. HIDE DEF renamed
<1>4. \A g \in gs : LET h == [g EXCEPT !.members = renamed(g)] IN
        h \in Group /\ h.name = g.name /\ h.gid = g.gid /\ h.members = renamed(g)
  BY <1>2, <1>3 DEF Group
<1>. HIDE DEF hs
<1>5. \A h \in hs : \E g \in gs :
        h \in Group /\ h.name = g.name /\ h.gid = g.gid /\ h.members = renamed(g)
           /\ h = [g EXCEPT !.members = renamed(g)]
  <2>. SUFFICES ASSUME NEW g \in gs, NEW h, h = [g EXCEPT !.members = renamed(g)]
                PROVE  h \in Group /\ h.name = g.name /\ h.gid = g.gid /\ h.members = renamed(g)
    BY <1>1
  <2>. QED
    BY <1>4
<1>6. \A g \in gs : \E h \in hs : h.gid = g.gid
  <2>. SUFFICES ASSUME NEW g \in gs  PROVE \E h \in hs : h.gid = g.gid
    OBVIOUS
  <2>. [g EXCEPT !.members = renamed(g)] \in hs
    BY <1>1
  <2>. QED
    BY <1>4
<1>7. GidsOf(hs) = GidsOf(gs)
  BY <1>5, <1>6 DEF GidsOf
<1>8. \A h, k \in hs : h.name = k.name \/ h.gid = k.gid => h = k
  BY <1>5 DEF GroupsOK
<1>9. \A h \in hs, n \in UserNames : h.members[n] <= 1
  <2>. SUFFICES ASSUME NEW h \in hs, NEW n \in UserNames  PROVE h.members[n] <= 1
    OBVIOUS
  <2>. PICK g \in gs : h.members = renamed(g)
    BY <1>5
  <2>. QED
    BY <1>3
<1>10. GroupsOK(hs)
  BY <1>5, <1>8, <1>9 DEF GroupsOK
<1>11. OnlyMembers(hs, (names \ {old}) \cup {new})
  <2>. SUFFICES ASSUME NEW h \in hs, NEW n \in UserNames, h.members[n] > 0
                PROVE  n \in (names \ {old}) \cup {new}
    BY DEF OnlyMembers
  <2>1. PICK g \in gs : h.members = renamed(g)
    BY <1>5
  <2>2. n # old
    BY <2>1, <1>3
  <2>3. CASE n # new
    <3>. g.members[n] > 0
      BY <2>1, <2>2, <2>3, <1>3
    <3>. QED
      BY <2>2 DEF OnlyMembers
  <2>. QED
    BY <2>3
<1>. QED
  BY <1>7, <1>10, <1>11 DEF hs

\* A new account with a name and a number of its own (add_account).
LEMMA AddAccountOK ==
  ASSUME NEW as, AccountsOK(as), NEW a \in Account,
         a.name \notin Names(as), \A b \in as : b.uid # a.uid
  PROVE  /\ AccountsOK(as \cup {a})
         /\ Names(as \cup {a}) = Names(as) \cup {a.name}
  BY DEF AccountsOK, Names

\* An account that keeps its number and takes a free name (modify_user).
LEMMA ReplaceAccountOK ==
  ASSUME NEW as, AccountsOK(as), NEW a \in as, NEW b \in Account,
         b.uid = a.uid, b.name \notin Names(as \ {a})
  PROVE  /\ AccountsOK((as \ {a}) \cup {b})
         /\ Names((as \ {a}) \cup {b}) = (Names(as) \ {a.name}) \cup {b.name}
<1>. DEFINE bs == (as \ {a}) \cup {b}
<1>1. AccountsOK(bs)
  BY DEF AccountsOK, Names
<1>2. \A c \in as \ {a} : c.name # a.name
  BY DEF AccountsOK
<1>3. Names(bs) = (Names(as) \ {a.name}) \cup {b.name}
  BY <1>2 DEF Names
<1>. QED
  BY <1>1, <1>3

\* One account less (delete_user).
LEMMA RemoveAccountOK ==
  ASSUME NEW as, AccountsOK(as), NEW a \in as
  PROVE  /\ AccountsOK(as \ {a})
         /\ Names(as \ {a}) = Names(as) \ {a.name}
<1>1. \A c \in as \ {a} : c.name # a.name
  BY DEF AccountsOK
<1>. QED
  BY <1>1 DEF AccountsOK, Names

\* A list of members that validate_group_members accepts.
LEMMA AddGroupOK ==
  ASSUME NEW gs, GroupsOK(gs), NEW g \in Group, NEW names, OnlyMembers(gs, names),
         g.name \notin Names(gs), \A h \in gs : h.gid # g.gid,
         \A n \in UserNames : g.members[n] <= 1 /\ (g.members[n] > 0 => n \in names)
  PROVE  /\ GroupsOK(gs \cup {g})
         /\ OnlyMembers(gs \cup {g}, names)
         /\ GidsOf(gs \cup {g}) = GidsOf(gs) \cup {g.gid}
<1>1. /\ gs \cup {g} \subseteq Group
      /\ \A h, k \in gs \cup {g} : h.name = k.name \/ h.gid = k.gid => h = k
  BY DEF GroupsOK, Names
<1>2. \A h \in gs \cup {g}, n \in UserNames : h.members[n] <= 1
  BY DEF GroupsOK
<1>3. OnlyMembers(gs \cup {g}, names)
  BY DEF OnlyMembers
<1>. QED
  BY <1>1, <1>2, <1>3 DEF GroupsOK, GidsOf

\* One group less, which is nobody's primary group (delete_group).
LEMMA RemoveGroupOK ==
  ASSUME NEW gs, GroupsOK(gs), NEW g \in gs, NEW names, OnlyMembers(gs, names)
  PROVE  /\ GroupsOK(gs \ {g})
         /\ OnlyMembers(gs \ {g}, names)
         /\ GidsOf(gs \ {g}) = GidsOf(gs) \ {g.gid}
<1>1. GroupsOK(gs \ {g}) /\ OnlyMembers(gs \ {g}, names)
  BY DEF GroupsOK, OnlyMembers
<1>2. \A h \in gs \ {g} : h.gid # g.gid
  BY DEF GroupsOK
<1>. QED
  BY <1>1, <1>2 DEF GidsOf

-----------------------------------------------------------------------------
(* The operations *)

\* create_group keeps the integrity of the database.
LEMMA CreateGroupOK ==
  ASSUME Consistent(accounts, groups), NEW actor, NEW name \in GroupNames,
         NEW option \in Ids \cup {Absent}, NEW members \in MemberLists,
         CreateGroup(actor, name, option, members)
  PROVE  Consistent(accounts', groups')
<1>1. PICK gid \in ChosenId(option, Gids) :
        groups' = groups \cup {[name |-> name, gid |-> gid, members |-> members]}
  BY DEF CreateGroup
<1>. DEFINE g == [name |-> name, gid |-> gid, members |-> members]
<1>2. gid \in Ids /\ gid \notin Gids
  BY ChosenIdFresh
<1>3. g \in Group /\ g.name = name /\ g.gid = gid /\ g.members = members
  BY <1>2 DEF Group, Members, MemberLists
<1>4. /\ \A n \in UserNames : g.members[n] <= 1
      /\ \A n \in UserNames : g.members[n] > 0 => n \in Names(accounts)
      /\ g.name \notin Names(groups)
  BY <1>3 DEF CreateGroup, ValidMembers
<1>5. \A h \in groups : h.gid # g.gid
  BY <1>2, <1>3 DEF Gids
<1>6. groups' = groups \cup {g} /\ accounts' = accounts
  BY <1>1 DEF CreateGroup
<1>. HIDE DEF g
<1>7. /\ GroupsOK(groups \cup {g})
      /\ OnlyMembers(groups \cup {g}, Names(accounts))
      /\ GidsOf(groups \cup {g}) = GidsOf(groups) \cup {g.gid}
  BY <1>3, <1>4, <1>5, AddGroupOK DEF Consistent
<1>. QED
  BY <1>6, <1>7 DEF Consistent

\* modify_group keeps the integrity of the database.
LEMMA ModifyGroupOK ==
  ASSUME Consistent(accounts, groups), NEW actor, NEW id \in Ids,
         NEW name \in GroupNames \cup {Absent},
         NEW members \in MemberLists \cup {Absent},
         ModifyGroup(actor, id, name, members)
  PROVE  Consistent(accounts', groups')
<1>1. PICK g \in groups :
        /\ g.gid = id
        /\ OrElse(name, g.name) \notin Names(groups \ {g})
        /\ ValidMembers(OrElse(members, g.members))
        /\ groups' = (groups \ {g}) \cup {[name |-> OrElse(name, g.name), gid |-> id,
                                         members |-> OrElse(members, g.members)]}
  BY DEF ModifyGroup
<1>. DEFINE h == [name |-> OrElse(name, g.name), gid |-> id,
                  members |-> OrElse(members, g.members)]
<1>2. h \in Group /\ h.name = OrElse(name, g.name) /\ h.gid = id
        /\ h.members = OrElse(members, g.members)
  BY DEF Consistent, GroupsOK, Group, Members, MemberLists, OrElse
<1>3. /\ \A n \in UserNames : h.members[n] <= 1
      /\ \A n \in UserNames : h.members[n] > 0 => n \in Names(accounts)
      /\ h.name \notin Names(groups \ {g})
  BY <1>1, <1>2 DEF ValidMembers
<1>4. /\ GroupsOK(groups \ {g})
      /\ OnlyMembers(groups \ {g}, Names(accounts))
      /\ GidsOf(groups \ {g}) = GidsOf(groups) \ {g.gid}
  BY RemoveGroupOK DEF Consistent
<1>5. \A k \in groups \ {g} : k.gid # h.gid
  BY <1>1, <1>2 DEF Consistent, GroupsOK
<1>6. groups' = (groups \ {g}) \cup {h} /\ accounts' = accounts
  BY <1>1 DEF ModifyGroup
<1>7. /\ GroupsOK((groups \ {g}) \cup {h})
      /\ OnlyMembers((groups \ {g}) \cup {h}, Names(accounts))
      /\ GidsOf((groups \ {g}) \cup {h}) = GidsOf(groups \ {g}) \cup {h.gid}
  <2>. HIDE DEF h
  <2>. QED
    BY <1>2, <1>3, <1>4, <1>5, AddGroupOK
<1>8. GidsOf((groups \ {g}) \cup {h}) = GidsOf(groups)
  BY <1>1, <1>2, <1>4, <1>7 DEF GidsOf
<1>. QED
  BY <1>6, <1>7, <1>8 DEF Consistent

\* delete_group keeps the integrity of the database.
LEMMA DeleteGroupOK ==
  ASSUME Consistent(accounts, groups), NEW actor, NEW id \in Ids, DeleteGroup(actor, id)
  PROVE  Consistent(accounts', groups')
<1>1. PICK g \in groups : g.gid = id /\ groups' = groups \ {g}
  BY DEF DeleteGroup
<1>2. /\ GroupsOK(groups \ {g})
      /\ OnlyMembers(groups \ {g}, Names(accounts))
      /\ GidsOf(groups \ {g}) = GidsOf(groups) \ {g.gid}
  BY RemoveGroupOK DEF Consistent
<1>3. accounts' = accounts /\ \A a \in accounts : a.gid # id
  BY DEF DeleteGroup
<1>. QED
  BY <1>1, <1>2, <1>3 DEF Consistent

\* What create_user and create_locked_user share (create_user_with_hash).
LEMMA AddUserOK ==
  ASSUME Consistent(accounts, groups), NEW actor, NEW spec,
         spec.name \in UserNames, spec.uid \in Ids \cup {Absent}, spec.gid \in Ids,
         spec.flags \in SUBSET Flags, spec.caps \in SUBSET Capabilities,
         NEW hash \in Passwords \cup {NoPassword},
         AddUser(actor, spec, hash)
  PROVE  Consistent(accounts', groups')
<1>1. PICK uid \in ChosenId(spec.uid, Uids) :
        accounts' = accounts \cup
         {[name |-> spec.name, uid |-> uid, gid |-> spec.gid,
           flags |-> spec.flags, caps |-> spec.caps, hash |-> hash]}
  BY DEF AddUser
<1>. DEFINE a == [name |-> spec.name, uid |-> uid, gid |-> spec.gid,
                  flags |-> spec.flags, caps |-> spec.caps, hash |-> hash]
<1>2. uid \in Ids /\ uid \notin Uids
  BY ChosenIdFresh
<1>3. a \in Account /\ a.name = spec.name /\ a.uid = uid /\ a.gid = spec.gid
  BY <1>2 DEF Account
<1>4. /\ a.name \notin Names(accounts) /\ a.gid \in GidsOf(groups)
      /\ groups' = SetMembership(groups, spec.name, spec.groups)
      /\ accounts' = accounts \cup {a}
      /\ \A b \in accounts : b.uid # a.uid
  BY <1>1, <1>2, <1>3 DEF AddUser, Uids, Gids, GidsOf
<1>. HIDE DEF a
<1>5. /\ AccountsOK(accounts \cup {a})
      /\ Names(accounts \cup {a}) = Names(accounts) \cup {a.name}
  BY <1>3, <1>4, AddAccountOK DEF Consistent
<1>6. /\ GroupsOK(groups')
      /\ GidsOf(groups') = GidsOf(groups)
      /\ OnlyMembers(groups', Names(accounts) \cup {spec.name})
  BY <1>4, SetMembershipOK DEF Consistent
<1>7. \A b \in accounts' : b.gid \in GidsOf(groups)
  BY <1>4 DEF Consistent
<1>. QED
  BY <1>3, <1>4, <1>5, <1>6, <1>7 DEF Consistent

\* create_locked_user keeps the integrity of the database.
LEMMA CreateLockedUserOK ==
  ASSUME Consistent(accounts, groups), NEW actor, NEW spec \in UserSpec,
         CreateLockedUser(actor, spec)
  PROVE  Consistent(accounts', groups')
<1>. DEFINE s == [spec EXCEPT !.flags = @ \cup {"locked"}]
<1>1. /\ s.name \in UserNames /\ s.uid \in Ids \cup {Absent} /\ s.gid \in Ids
      /\ s.flags \in SUBSET Flags /\ s.caps \in SUBSET Capabilities
  BY DatabaseAssumption DEF UserSpec, Flags
<1>2. AddUser(actor, s, NoPassword)
  BY DEF CreateLockedUser
<1>. HIDE DEF s
<1>. QED
  BY <1>1, <1>2, AddUserOK

\* create_user keeps the integrity of the database.
LEMMA CreateUserOK ==
  ASSUME Consistent(accounts, groups), NEW actor, NEW spec \in UserSpec,
         NEW password \in Passwords, CreateUser(actor, spec, password)
  PROVE  Consistent(accounts', groups')
<1>1. /\ spec.name \in UserNames /\ spec.uid \in Ids \cup {Absent} /\ spec.gid \in Ids
      /\ spec.flags \in SUBSET Flags /\ spec.caps \in SUBSET Capabilities
  BY DatabaseAssumption DEF UserSpec
<1>2. AddUser(actor, spec, password)
  BY DEF CreateUser
<1>. QED
  BY <1>1, <1>2, AddUserOK

\* What each form of the groups' update makes of the members.
LEMMA NewGroupsOK ==
  ASSUME NEW gs, GroupsOK(gs), NEW names, OnlyMembers(gs, names),
         NEW old \in UserNames, NEW new \in UserNames,
         old # new => new \notin names, NEW named, gs = groups
  PROVE  /\ GroupsOK(NewGroups(old, new, named))
         /\ GidsOf(NewGroups(old, new, named)) = GidsOf(gs)
         /\ OnlyMembers(NewGroups(old, new, named), (names \ {old}) \cup {new})
<1>1. CASE named # Absent
  <2>. DEFINE cleared == SetMembership(gs, old, {})
  <2>1. /\ GroupsOK(cleared) /\ GidsOf(cleared) = GidsOf(gs)
        /\ OnlyMembers(cleared, names \ {old})
    BY SetMembershipOK, ClearMembershipOK
  <2>2. NewGroups(old, new, named) = SetMembership(cleared, new, named)
    BY <1>1 DEF NewGroups
  <2>. HIDE DEF cleared
  <2>3. /\ GroupsOK(SetMembership(cleared, new, named))
        /\ GidsOf(SetMembership(cleared, new, named)) = GidsOf(cleared)
        /\ OnlyMembers(SetMembership(cleared, new, named), (names \ {old}) \cup {new})
    BY <2>1, SetMembershipOK
  <2>. QED
    BY <2>1, <2>2, <2>3
<1>2. CASE named = Absent /\ old # new
  <2>1. NewGroups(old, new, named) = RenameMember(gs, old, new)
    BY <1>2 DEF NewGroups
  <2>. QED
    BY <1>2, <2>1, RenameMemberOK
<1>3. CASE named = Absent /\ old = new
  <2>1. NewGroups(old, new, named) = gs
    BY <1>3 DEF NewGroups
  <2>2. OnlyMembers(gs, (names \ {old}) \cup {new})
    BY <1>3 DEF OnlyMembers
  <2>. QED
    BY <2>1, <2>2
<1>. QED
  BY <1>1, <1>2, <1>3

\* modify_user keeps the integrity of the database.
LEMMA ModifyUserOK ==
  ASSUME Consistent(accounts, groups), NEW actor, NEW uid \in Ids, NEW up \in UserUpdate,
         ModifyUser(actor, uid, up)
  PROVE  Consistent(accounts', groups')
<1>1. PICK a \in accounts :
        /\ OrElse(up.name, a.name) \notin Names(accounts \ {a})
        /\ up.gid # Absent => up.gid \in Gids
        /\ accounts' = (accounts \ {a}) \cup
            {[a EXCEPT !.name = OrElse(up.name, a.name), !.gid = OrElse(up.gid, @),
                       !.flags = OrElse(up.flags, @), !.caps = OrElse(up.caps, @)]}
        /\ groups' = NewGroups(a.name, OrElse(up.name, a.name), up.groups)
  BY DEF ModifyUser
<1>. DEFINE new == OrElse(up.name, a.name)
            b == [a EXCEPT !.name = new, !.gid = OrElse(up.gid, @),
                       !.flags = OrElse(up.flags, @), !.caps = OrElse(up.caps, @)]
<1>2. a \in Account /\ a.gid \in GidsOf(groups)
  BY DEF Consistent, AccountsOK
<1>3. new \in UserNames /\ OrElse(up.gid, a.gid) \in Ids
      /\ OrElse(up.flags, a.flags) \in SUBSET Flags
      /\ OrElse(up.caps, a.caps) \in SUBSET Capabilities
  BY <1>2, DatabaseAssumption DEF UserUpdate, OrElse, Account
<1>4. /\ b \in Account /\ b.name = new /\ b.uid = a.uid
      /\ b.gid = OrElse(up.gid, a.gid)
  BY <1>2, <1>3 DEF Account
<1>5. b.gid \in GidsOf(groups)
  BY <1>1, <1>2, <1>4 DEF OrElse, Gids, GidsOf
<1>6. accounts' = (accounts \ {a}) \cup {b} /\ new \notin Names(accounts \ {a})
  BY <1>1
<1>7. groups' = NewGroups(a.name, new, up.groups)
  BY <1>1
<1>. HIDE DEF b, new
<1>8. /\ AccountsOK((accounts \ {a}) \cup {b})
      /\ Names((accounts \ {a}) \cup {b}) = (Names(accounts) \ {a.name}) \cup {new}
  BY <1>4, <1>6, ReplaceAccountOK DEF Consistent
<1>9. a.name # new => new \notin Names(accounts)
  BY <1>6 DEF Names
<1>10. /\ GroupsOK(NewGroups(a.name, new, up.groups))
       /\ GidsOf(NewGroups(a.name, new, up.groups)) = GidsOf(groups)
       /\ OnlyMembers(NewGroups(a.name, new, up.groups),
                      (Names(accounts) \ {a.name}) \cup {new})
  <2>1. a.name \in UserNames
    BY <1>2 DEF Account
  <2>. QED
    BY <2>1, <1>3, <1>9, NewGroupsOK DEF Consistent
<1>11. \A c \in (accounts \ {a}) \cup {b} : c.gid \in GidsOf(groups)
  BY <1>5 DEF Consistent
<1>. QED
  BY <1>6, <1>7, <1>8, <1>10, <1>11 DEF Consistent

\* delete_user keeps the integrity of the database.
LEMMA DeleteUserOK ==
  ASSUME Consistent(accounts, groups), NEW actor, NEW uid \in Ids, DeleteUser(actor, uid)
  PROVE  Consistent(accounts', groups')
<1>1. PICK a \in accounts : accounts' = accounts \ {a}
                           /\ groups' = SetMembership(groups, a.name, {})
  BY DEF DeleteUser
<1>2. a.name \in UserNames
  BY DEF Consistent, AccountsOK, Account
<1>3. AccountsOK(accounts \ {a}) /\ Names(accounts \ {a}) = Names(accounts) \ {a.name}
  BY RemoveAccountOK DEF Consistent
<1>4. GroupsOK(groups') /\ GidsOf(groups') = GidsOf(groups)
  BY <1>1, <1>2, SetMembershipOK DEF Consistent
<1>5. OnlyMembers(groups', Names(accounts) \ {a.name})
  BY <1>1, <1>2, ClearMembershipOK DEF Consistent
<1>. QED
  BY <1>1, <1>3, <1>4, <1>5 DEF Consistent

\* An account whose hash or flags change.
LEMMA ChangedAccountOK ==
  ASSUME Consistent(accounts, groups), NEW a \in accounts, NEW b \in Account,
         b.name = a.name, b.uid = a.uid, b.gid = a.gid,
         accounts' = (accounts \ {a}) \cup {b}, groups' = groups
  PROVE  Consistent(accounts', groups')
<1>1. b.name \notin Names(accounts \ {a})
  BY DEF Consistent, AccountsOK, Names
<1>2. AccountsOK((accounts \ {a}) \cup {b})
      /\ Names((accounts \ {a}) \cup {b}) = (Names(accounts) \ {a.name}) \cup {b.name}
  BY <1>1, ReplaceAccountOK DEF Consistent
<1>3. Names((accounts \ {a}) \cup {b}) = Names(accounts)
  BY <1>2 DEF Names
<1>. QED
  BY <1>2, <1>3 DEF Consistent

\* change_password keeps the integrity of the database.
LEMMA ChangePasswordOK ==
  ASSUME Consistent(accounts, groups), NEW actor, NEW uid \in Ids, NEW old,
         NEW new \in Passwords, ChangePassword(actor, uid, old, new)
  PROVE  Consistent(accounts', groups')
<1>1. PICK a \in accounts : accounts' = (accounts \ {a}) \cup {[a EXCEPT !.hash = new]}
  BY DEF ChangePassword
<1>. DEFINE b == [a EXCEPT !.hash = new]
<1>2. b \in Account /\ b.name = a.name /\ b.uid = a.uid /\ b.gid = a.gid
  BY DEF Consistent, AccountsOK, Account
<1>3. accounts' = (accounts \ {a}) \cup {b} /\ groups' = groups
  BY <1>1 DEF ChangePassword
<1>. HIDE DEF b
<1>. QED
  BY <1>2, <1>3, ChangedAccountOK

\* set_locked keeps the integrity of the database.
LEMMA SetLockedOK ==
  ASSUME Consistent(accounts, groups), NEW actor, NEW uid \in Ids, NEW locked \in BOOLEAN,
         SetLocked(actor, uid, locked)
  PROVE  Consistent(accounts', groups')
<1>1. PICK a \in accounts : accounts' = (accounts \ {a}) \cup
            {[a EXCEPT !.flags = IF locked THEN @ \cup {"locked"} ELSE @ \ {"locked"}]}
  BY DEF SetLocked
<1>. DEFINE b == [a EXCEPT !.flags = IF locked THEN @ \cup {"locked"} ELSE @ \ {"locked"}]
<1>2. b \in Account /\ b.name = a.name /\ b.uid = a.uid /\ b.gid = a.gid
  BY DEF Consistent, AccountsOK, Account, Flags
<1>3. accounts' = (accounts \ {a}) \cup {b} /\ groups' = groups
  BY <1>1 DEF SetLocked
<1>. HIDE DEF b
<1>. QED
  BY <1>2, <1>3, ChangedAccountOK

-----------------------------------------------------------------------------
(* The specification *)

\* The database of a first boot has integrity.
LEMMA InitIntegrity == Init => Integrity
<1>. SUFFICES ASSUME Init PROVE Integrity
  OBVIOUS
<1>1. PICK g \in GroupNames, u \in UserNames, h \in Passwords :
        /\ groups = {[name |-> g, gid |-> 0, members |-> [n \in UserNames |-> 0]]}
        /\ accounts = {[name |-> u, uid |-> 0, gid |-> 0, flags |-> {},
                        caps |-> {"account-admin"}, hash |-> h]}
  BY DEF Init
<1>2. 0 \in Ids /\ "account-admin" \in Capabilities
  BY DatabaseAssumption DEF Ids, Capabilities
<1>3. AccountsOK(accounts)
  BY <1>1, <1>2 DEF AccountsOK, Account
<1>4. GroupsOK(groups) /\ OnlyMembers(groups, Names(accounts))
  BY <1>1, <1>2 DEF GroupsOK, OnlyMembers, Group, Members
<1>5. \A a \in accounts : a.gid \in GidsOf(groups)
  BY <1>1 DEF GidsOf
<1>. QED
  BY <1>3, <1>4, <1>5 DEF Integrity, Consistent, Init

\* No call, by whatever actor, loses the integrity of the database.
LEMMA NextIntegrity == Integrity /\ [Next]_vars => Integrity'
<1>. SUFFICES ASSUME Integrity, [Next]_vars PROVE Integrity'
  OBVIOUS
<1>1. CASE UNCHANGED vars
  BY <1>1 DEF vars, Integrity, Consistent, AccountsOK, GroupsOK, OnlyMembers, Names, GidsOf
<1>2. ASSUME NEW actor \in Actors, Call(actor), caller' = actor
      PROVE  Integrity'
  <2>. Consistent(accounts, groups)
    BY DEF Integrity
  <2>. SUFFICES Consistent(accounts', groups')
    BY <1>2 DEF Integrity
  <2>1. ASSUME NEW name \in GroupNames, NEW option \in Ids \cup {Absent},
               NEW members \in MemberLists, CreateGroup(actor, name, option, members)
        PROVE  Consistent(accounts', groups')
    BY <2>1, CreateGroupOK
  <2>2. ASSUME NEW gid \in Ids, NEW name \in GroupNames \cup {Absent},
               NEW members \in MemberLists \cup {Absent},
               ModifyGroup(actor, gid, name, members)
        PROVE  Consistent(accounts', groups')
    BY <2>2, ModifyGroupOK
  <2>3. ASSUME NEW gid \in Ids, DeleteGroup(actor, gid)
        PROVE  Consistent(accounts', groups')
    BY <2>3, DeleteGroupOK
  <2>4. ASSUME NEW spec \in UserSpec, NEW password \in Passwords,
               CreateUser(actor, spec, password)
        PROVE  Consistent(accounts', groups')
    BY <2>4, CreateUserOK
  <2>5. ASSUME NEW spec \in UserSpec, CreateLockedUser(actor, spec)
        PROVE  Consistent(accounts', groups')
    BY <2>5, CreateLockedUserOK
  <2>6. ASSUME NEW uid \in Ids, NEW up \in UserUpdate, ModifyUser(actor, uid, up)
        PROVE  Consistent(accounts', groups')
    BY <2>6, ModifyUserOK
  <2>7. ASSUME NEW uid \in Ids, DeleteUser(actor, uid)
        PROVE  Consistent(accounts', groups')
    BY <2>7, DeleteUserOK
  <2>8. ASSUME NEW uid \in Ids, NEW old \in Passwords \cup {Absent},
               NEW new \in Passwords, ChangePassword(actor, uid, old, new)
        PROVE  Consistent(accounts', groups')
    BY <2>8, ChangePasswordOK
  <2>9. ASSUME NEW uid \in Ids, NEW locked \in BOOLEAN, SetLocked(actor, uid, locked)
        PROVE  Consistent(accounts', groups')
    BY <2>9, SetLockedOK
  <2>10. CASE GroupCall(actor)
    BY <2>10, <2>1, <2>2, <2>3 DEF GroupCall
  <2>11. CASE UserCall(actor)
    BY <2>11, <2>4, <2>5, <2>6, <2>7, <2>8, <2>9 DEF UserCall
  <2>. QED
    BY <1>2, <2>10, <2>11 DEF Call
<1>. QED
  BY <1>1, <1>2 DEF Next

\* The inductive invariant of the in-memory database: types, uniqueness and the
\* references between accounts and groups hold one another up.
THEOREM DatabaseIntegrity == Spec => []Integrity
  BY InitIntegrity, NextIntegrity, PTL DEF Spec

\* Every operation of impl Database leaves well typed accounts and groups.
THEOREM DatabaseTypeOK == Spec => []TypeOK
<1>1. Integrity => TypeOK
  BY DEF Integrity, Consistent, AccountsOK, GroupsOK, TypeOK
<1>. QED
  BY <1>1, DatabaseIntegrity, PTL

\* No operation (create with a chosen or automatic identifier, rename) makes
\* two accounts or two groups share a name or a number.
THEOREM DatabaseUnique == Spec => []Unique
<1>1. Integrity => Unique
  BY DEF Integrity, Consistent, AccountsOK, GroupsOK, Unique
<1>. QED
  BY <1>1, DatabaseIntegrity, PTL

\* delete_group and the checks of the primary group in create_user and
\* modify_user together leave no account without its primary group.
THEOREM DatabasePrimaryGroups == Spec => []PrimaryGroupsExist
<1>1. Integrity => PrimaryGroupsExist
  BY DEF Integrity, Consistent, PrimaryGroupsExist, Gids, GidsOf
<1>. QED
  BY <1>1, DatabaseIntegrity, PTL

\* delete_user and renaming in modify_user leave no group with a member that
\* is not an account.
THEOREM DatabaseNoOrphans == Spec => []NoOrphanMembers
<1>1. Integrity => NoOrphanMembers
  BY DEF Integrity, Consistent, OnlyMembers, NoOrphanMembers
<1>. QED
  BY <1>1, DatabaseIntegrity, PTL

\* set_membership, validate_group_members and renaming never put a name twice
\* in a group.
THEOREM DatabaseMembersDistinct == Spec => []MembersDistinct
<1>1. Integrity => MembersDistinct
  BY DEF Integrity, Consistent, GroupsOK, MembersDistinct
<1>. QED
  BY <1>1, DatabaseIntegrity, PTL

\* What an operation called without account-admin does: only change_password
\* gets past its checks, and only for the caller's own account.
LEMMA PlainCall ==
  ASSUME NEW actor, ~ IsAdmin(actor), Call(actor)
  PROVE  /\ groups' = groups
         /\ \E a \in accounts, h \in Passwords :
              /\ a.uid = actor.uid
              /\ a.flags \cap {"disabled", "locked"} = {}
              /\ accounts' = (accounts \ {a}) \cup {[a EXCEPT !.hash = h]}
<1>1. ~ GroupCall(actor)
  BY DEF GroupCall, CreateGroup, ModifyGroup, DeleteGroup
<1>2. PICK uid \in Ids, old \in Passwords \cup {Absent}, new \in Passwords :
        ChangePassword(actor, uid, old, new)
  BY <1>1 DEF Call, UserCall, CreateUser, CreateLockedUser, AddUser, ModifyUser,
              DeleteUser, SetLocked
<1>. QED
  BY <1>2 DEF ChangePassword

\* A caller without account-admin never does more than change the password of
\* its own account, and not when that is disabled or locked.
THEOREM DatabasePlainUserPowers == Spec => PlainUserPowers
<1>1. [Next]_vars => [~ IsAdmin(caller') =>
       /\ groups' = groups
       /\ \E a \in accounts, h \in Passwords :
            /\ a.uid = caller'.uid
            /\ a.flags \cap {"disabled", "locked"} = {}
            /\ accounts' = (accounts \ {a}) \cup {[a EXCEPT !.hash = h]}]_vars
  <2>. SUFFICES ASSUME NEW actor \in Actors, Call(actor), caller' = actor, ~ IsAdmin(actor)
                PROVE  /\ groups' = groups
                       /\ \E a \in accounts, h \in Passwords :
                            /\ a.uid = actor.uid
                            /\ a.flags \cap {"disabled", "locked"} = {}
                            /\ accounts' = (accounts \ {a}) \cup {[a EXCEPT !.hash = h]}
    BY DEF Next
  <2>. QED
    BY PlainCall
<1>. QED
  BY <1>1, PTL DEF Spec, PlainUserPowers
=============================================================================
