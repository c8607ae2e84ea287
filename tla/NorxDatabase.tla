---------------------------- MODULE NorxDatabase ----------------------------
(***************************************************************************)
(* The in-memory account database of norx/src/lib.rs: every operation of   *)
(* `impl Database` that changes it.  An operation checks everything before *)
(* it assigns, so a call that returns an error is a call that changes      *)
(* nothing and is no step.                                                 *)
(*                                                                         *)
(* The actor of a call is any credential tuple: credentials are copied     *)
(* from an account at login and are not looked up again, so those of an    *)
(* account that has changed or is gone are included.                       *)
(*                                                                         *)
(* Abstractions.  The vectors of accounts and groups are sets of records   *)
(* (no operation depends on their order); the member list of a group is    *)
(* the number of times each name is in it; home and shell, which no        *)
(* operation reads back, are left out; a stored hash is the password it    *)
(* verifies, or NoPassword, which verifies none.                           *)
(***************************************************************************)
EXTENDS Naturals, FiniteSets, Functions

CONSTANTS
  UserNames,       \* names parse_name accepts, for users
  GroupNames,      \* and for groups
  MaxId,           \* u32::MAX
  FirstDynamicId,  \* FIRST_DYNAMIC_ID
  MaxUsers,        \* MAX_USERS
  MaxGroups,       \* MAX_GROUPS
  Passwords,
  NoPassword,      \* LOCKED_PASSWORD_HASH
  FlagChoices,     \* sets of flags given to the operations
  CapChoices,      \* sets of capabilities given to the operations
  Absent           \* None of an Option

Flags == {"disabled", "locked", "expired"}
Capabilities == {"account-admin", "session-admin"}
Ids == 0 .. MaxId

ASSUME DatabaseAssumption ==
  /\ MaxId \in Nat /\ FirstDynamicId \in Nat
  /\ MaxUsers \in Nat /\ MaxGroups \in Nat
  /\ NoPassword \notin Passwords
  /\ FlagChoices \subseteq SUBSET Flags
  /\ CapChoices \subseteq SUBSET Capabilities
  /\ Absent \notin Ids \cup UserNames \cup GroupNames

\* has_capability (CAP_ACCOUNT_ADMIN) is all that is asked of an actor's
\* capabilities.
Actors == [uid : Ids, caps : {{}, {"account-admin"}}]

Members == [UserNames -> Nat]

Account == [name : UserNames, uid : Ids, gid : Ids, flags : SUBSET Flags,
            caps : SUBSET Capabilities, hash : Passwords \cup {NoPassword}]

Group == [name : GroupNames, gid : Ids, members : Members]

VARIABLES
  accounts, groups,
  caller   \* history: the actor of the last call that succeeded

vars == <<accounts, groups, caller>>

TypeOK ==
  /\ accounts \subseteq Account
  /\ groups \subseteq Group
  /\ caller \in Actors \cup {Absent}

\* The database of a first boot: the group and the account of the
\* administrator.
Init ==
  /\ caller = Absent
  /\ \E g \in GroupNames, u \in UserNames, h \in Passwords :
       /\ groups = {[name |-> g, gid |-> 0, members |-> [n \in UserNames |-> 0]]}
       /\ accounts = {[name |-> u, uid |-> 0, gid |-> 0, flags |-> {},
                       caps |-> {"account-admin"}, hash |-> h]}

-----------------------------------------------------------------------------
(* Helpers *)

Names(records) == {r.name : r \in records}
Uids == {a.uid : a \in accounts}
Gids == {g.gid : g \in groups}

OrElse(option, default) == IF option = Absent THEN default ELSE option

\* require_admin; authorize_mutation for what is not a user's own password.
IsAdmin(actor) == "account-admin" \in actor.caps

\* Variant: next_id does not stop at the last identifier.
NextIdUnbounded(used) ==
  {i \in FirstDynamicId .. MaxId + 1 :
     i \notin used /\ \A j \in FirstDynamicId .. MaxId : j < i => j \in used}

\* next_id: the lowest dynamic identifier not in use, if there is one.
NextId(used) ==
  {i \in FirstDynamicId .. MaxId :
     i \notin used /\ \A j \in FirstDynamicId .. MaxId : j < i => j \in used}

\* Variant: no check for duplicates.
ChosenIdUnchecked(option, used) == IF option = Absent THEN NextId(used) ELSE {option}

\* An explicit identifier or the next one, then the check for duplicates.
ChosenId(option, used) == (IF option = Absent THEN NextId(used) ELSE {option}) \ used

MemberCount(members) == FoldFunction(LAMBDA n, sum : n + sum, 0, members)

\* Variant: members are checked one by one only.
ValidMembersDuplicates(members) ==
  \A n \in UserNames : members[n] > 0 => n \in Names(accounts)

\* validate_group_members
ValidMembers(members) ==
  /\ MemberCount(members) <= MaxUsers
  /\ \A n \in UserNames : members[n] > 0 => n \in Names(accounts)
  /\ \A n \in UserNames : members[n] <= 1

\* set_membership: user is a member of the groups named, once, and of no
\* other.  With an empty list of groups it is also what delete_user does.
SetMembership(gs, user, named) ==
  {[g EXCEPT !.members[user] = IF g.name \in named THEN 1 ELSE 0] : g \in gs}

\* The Limit error of set_membership.
MembershipFits(gs, user, named) ==
  \A g \in gs :
    g.name \in named /\ MemberCount(g.members) = MaxUsers => g.members[user] > 0

\* modify_user with a new name and no list of groups: each occurrence of the
\* old name is replaced.
RenameMember(gs, old, new) ==
  {[g EXCEPT !.members = [n \in UserNames |->
      IF n = new THEN g.members[new] + g.members[old]
      ELSE IF n = old THEN 0 ELSE g.members[n]]] : g \in gs}

-----------------------------------------------------------------------------
(* Groups *)

CreateGroup(actor, name, option, members) ==
  /\ IsAdmin(actor)
  /\ name \notin Names(groups)
  /\ ValidMembers(members)
  /\ Cardinality(groups) # MaxGroups
  /\ \E gid \in ChosenId(option, Gids) :
       groups' = groups \cup {[name |-> name, gid |-> gid, members |-> members]}
  /\ UNCHANGED accounts

ModifyGroup(actor, gid, name, members) ==
  /\ IsAdmin(actor)
  /\ \E g \in groups :
       LET newName == OrElse(name, g.name)
           newMembers == OrElse(members, g.members) IN
       /\ g.gid = gid
       /\ newName \notin Names(groups \ {g})
       /\ ValidMembers(newMembers)
       /\ groups' = (groups \ {g})
                      \cup {[name |-> newName, gid |-> gid, members |-> newMembers]}
  /\ UNCHANGED accounts

\* Variant: delete_group does not look at the primary groups.
DeleteGroupUnchecked(actor, gid) ==
  /\ IsAdmin(actor)
  /\ \E g \in groups :
       /\ g.gid = gid
       /\ \A n \in UserNames : g.members[n] = 0
       /\ groups' = groups \ {g}
  /\ UNCHANGED accounts

DeleteGroup(actor, gid) ==
  /\ IsAdmin(actor)
  /\ \A a \in accounts : a.gid # gid
  /\ \E g \in groups :
       /\ g.gid = gid
       /\ \A n \in UserNames : g.members[n] = 0
       /\ groups' = groups \ {g}
  /\ UNCHANGED accounts

-----------------------------------------------------------------------------
(* Users *)

\* What create_user and create_user_with_hash have in common.  A list of
\* supplementary groups has no duplicates (validate_group_names): it is a set.
AddUser(actor, spec, hash) ==
  /\ IsAdmin(actor)
  /\ Cardinality(accounts) # MaxUsers
  /\ spec.name \notin Names(accounts)
  /\ spec.gid \in Gids
  /\ spec.groups \subseteq Names(groups)
  /\ MembershipFits(groups, spec.name, spec.groups)
  /\ \E uid \in ChosenId(spec.uid, Uids) :
       accounts' = accounts \cup
         {[name |-> spec.name, uid |-> uid, gid |-> spec.gid,
           flags |-> spec.flags, caps |-> spec.caps, hash |-> hash]}
  /\ groups' = SetMembership(groups, spec.name, spec.groups)

\* Only this one wants account-admin for uid 0.
CreateUser(actor, spec, password) ==
  /\ AddUser(actor, spec, password)
  /\ \A a \in accounts' : a.name = spec.name /\ a.uid = 0 => "account-admin" \in spec.caps

CreateLockedUser(actor, spec) ==
  AddUser(actor, [spec EXCEPT !.flags = @ \cup {"locked"}], NoPassword)

\* Variant: a rename does not touch the groups.
NewGroupsUnrenamed(old, new, named) ==
  IF named = Absent THEN groups
  ELSE SetMembership(SetMembership(groups, old, {}), new, named)

\* The groups after modify_user: with a list of groups the old name leaves
\* all groups and the new one enters those of the list; without a list the
\* name is replaced.
NewGroups(old, new, named) ==
  IF named # Absent
    THEN SetMembership(SetMembership(groups, old, {}), new, named)
    ELSE IF old # new THEN RenameMember(groups, old, new) ELSE groups

ModifyUser(actor, uid, up) ==
  /\ IsAdmin(actor)
  /\ \E a \in accounts :
       LET new == OrElse(up.name, a.name) IN
       /\ a.uid = uid
       /\ new \notin Names(accounts \ {a})
       /\ up.gid # Absent => up.gid \in Gids
       /\ up.groups # Absent =>
            /\ up.groups \subseteq Names(groups)
            /\ MembershipFits(SetMembership(groups, a.name, {}), new, up.groups)
       /\ accounts' = (accounts \ {a}) \cup
            {[a EXCEPT !.name = new, !.gid = OrElse(up.gid, @),
                       !.flags = OrElse(up.flags, @), !.caps = OrElse(up.caps, @)]}
       /\ groups' = NewGroups(a.name, new, up.groups)

DeleteUser(actor, uid) ==
  /\ IsAdmin(actor)
  /\ uid # actor.uid /\ uid # 0
  /\ \E a \in accounts :
       /\ a.uid = uid
       /\ accounts' = accounts \ {a}
       /\ groups' = SetMembership(groups, a.name, {})

-----------------------------------------------------------------------------
(* Passwords and locks *)

\* Variant: change_password takes any actor's word for the old password.
ChangePasswordUnverified(actor, uid, old, new) ==
  /\ \E a \in accounts :
       /\ a.uid = uid
       /\ new # a.hash
       /\ accounts' = (accounts \ {a}) \cup {[a EXCEPT !.hash = new]}
  /\ UNCHANGED groups

\* change_password with a new password that the policy accepts and the hasher
\* hashes; old is Absent when no old password is given.
ChangePassword(actor, uid, old, new) ==
  /\ IsAdmin(actor) \/ actor.uid = uid
  /\ \E a \in accounts :
       /\ a.uid = uid
       /\ \/ IsAdmin(actor)
          \/ a.flags \cap {"disabled", "locked"} = {} /\ old # Absent /\ old = a.hash
       /\ new # a.hash
       /\ accounts' = (accounts \ {a}) \cup {[a EXCEPT !.hash = new]}
  /\ UNCHANGED groups

SetLocked(actor, uid, locked) ==
  /\ IsAdmin(actor)
  /\ \E a \in accounts :
       /\ a.uid = uid
       /\ accounts' = (accounts \ {a}) \cup
            {[a EXCEPT !.flags = IF locked THEN @ \cup {"locked"} ELSE @ \ {"locked"}]}
  /\ UNCHANGED groups

-----------------------------------------------------------------------------
(* The calls a service can make *)

UserSpec == [name : UserNames, uid : Ids \cup {Absent}, gid : Ids,
             groups : SUBSET GroupNames, flags : FlagChoices, caps : CapChoices]

UserUpdate == [name : UserNames \cup {Absent}, gid : Ids \cup {Absent},
               groups : (SUBSET GroupNames) \cup {Absent},
               flags : FlagChoices \cup {Absent}, caps : CapChoices \cup {Absent}]

\* Lists of at most MaxUsers + 1 names, enough for every check on a list.
MemberLists == [UserNames -> 0 .. 2]

GroupCall(actor) ==
  \/ \E name \in GroupNames, option \in Ids \cup {Absent}, members \in MemberLists :
       CreateGroup(actor, name, option, members)
  \/ \E gid \in Ids, name \in GroupNames \cup {Absent}, members \in MemberLists \cup {Absent} :
       ModifyGroup(actor, gid, name, members)
  \/ \E gid \in Ids : DeleteGroup(actor, gid)

UserCall(actor) ==
  \/ \E spec \in UserSpec, password \in Passwords : CreateUser(actor, spec, password)
  \/ \E spec \in UserSpec : CreateLockedUser(actor, spec)
  \/ \E uid \in Ids, up \in UserUpdate : ModifyUser(actor, uid, up)
  \/ \E uid \in Ids : DeleteUser(actor, uid)
  \/ \E uid \in Ids, old \in Passwords \cup {Absent}, new \in Passwords :
       ChangePassword(actor, uid, old, new)
  \/ \E uid \in Ids, locked \in BOOLEAN : SetLocked(actor, uid, locked)

Call(actor) == GroupCall(actor) \/ UserCall(actor)

Next == \E actor \in Actors : Call(actor) /\ caller' = actor

Spec == Init /\ [][Next]_vars

-----------------------------------------------------------------------------
(* Properties *)

\* Duplicate names and identifiers are rejected: a name or a number stands for
\* one account and one group (create, rename, automatic identifiers).
Unique ==
  /\ \A a, b \in accounts : a.name = b.name \/ a.uid = b.uid => a = b
  /\ \A g, h \in groups : g.name = h.name \/ g.gid = h.gid => g = h

\* The primary group of an account exists, whatever order accounts and groups
\* are created, renumbered and deleted in.
PrimaryGroupsExist == \A a \in accounts : a.gid \in Gids

\* Every member of a group is an account, through renames and deletions: a new
\* account never finds itself in the groups of an old one of the same name.
NoOrphanMembers ==
  \A g \in groups, n \in UserNames : g.members[n] > 0 => n \in Names(accounts)

\* No name is twice in a group, though renaming replaces names in place and
\* set_membership appends them.
MembersDistinct == \A g \in groups, n \in UserNames : g.members[n] <= 1

\* What a caller without account-admin can bring about, whatever account its
\* credentials were copied from: a new password for its own account, unless
\* that is disabled or locked.
PlainUserPowers ==
  [][~ IsAdmin(caller') =>
       /\ groups' = groups
       /\ \E a \in accounts, h \in Passwords :
            /\ a.uid = caller'.uid
            /\ a.flags \cap {"disabled", "locked"} = {}
            /\ accounts' = (accounts \ {a}) \cup {[a EXCEPT !.hash = h]}]_vars
=============================================================================
