----------------------------- MODULE GroupEdits -----------------------------
(***************************************************************************)
(* What the group password tools do to their copies of group and gshadow,  *)
(* as PasswordEdits does for passwd and shadow.  A group entry is a        *)
(* password and members, a gshadow entry a password, administrators and    *)
(* members.                                                                *)
(***************************************************************************)
EXTENDS PasswordEdits

CONSTANT None

PutGroup(mem, g, entry) == [mem EXCEPT !["group"] = Put(@, g, entry)]
PutGshadow(mem, g, entry) ==
  [mem EXCEPT !["gshadow"] = IF @ = Closed THEN @ ELSE Put(@, g, entry)]

(***************************************************************************)
(* gpasswd, which works on the entries as it read them before it had the   *)
(* lock: gr and, with a gshadow file, sg (None when it is not there).      *)
(***************************************************************************)
\* get_group: a group that is not in gshadow gets an entry there.
GetGroup(gr, sg) ==
  IF sg # None THEN [gr |-> gr, sg |-> sg]
  ELSE [gr |-> [gr EXCEPT !.pw = Shadow],
        sg |-> [pw |-> gr.pw, admins |-> {}, members |-> gr.members]]

\* -A, -M and -R are options by themselves; -A comes with -M or without.
GpasswdMembers(job, had) ==
  CASE "a" \in job.flags -> had \cup job.users
    [] "d" \in job.flags -> had \ job.users
    [] "M" \in job.flags -> job.users
    [] OTHER -> had

\* -r, -R and a new password, which goes to gshadow when there is one.
GpasswdPw(job, old) ==
  CASE "r" \in job.flags -> NoPassword
    [] "R" \in job.flags -> Lock(NoPassword)
    [] job.pw # Unset    -> job.pw
    [] OTHER             -> old

ChangesPw(job) == job.flags \cap {"r", "R"} # {} \/ job.pw # Unset

\* The options as main applies them, with and without a gshadow file.
GpasswdGroup(job, gr, shadowed) ==
  [pw |-> IF shadowed /\ ChangesPw(job) THEN Shadow ELSE GpasswdPw(job, gr.pw),
   members |-> GpasswdMembers(job, gr.members)]

GpasswdGshadow(job, sg) ==
  [pw |-> GpasswdPw(job, sg.pw),
   admins |-> IF "A" \in job.flags THEN job.admins ELSE sg.admins,
   members |-> GpasswdMembers(job, sg.members)]

\* update_group, which adds the group again when it has gone.
GpasswdEdit(job, mem, gr, sg) ==
  LET shadowed == mem["gshadow"] # Closed
      got == IF shadowed THEN GetGroup(gr, sg) ELSE [gr |-> gr, sg |-> sg]
      grouped == PutGroup(mem, job.name, GpasswdGroup(job, got.gr, shadowed))
  IN  {IF shadowed THEN PutGshadow(grouped, job.name, GpasswdGshadow(job, got.sg))
       ELSE grouped}

(***************************************************************************)
(* chgpasswd: every group on its input, or none.                           *)
(***************************************************************************)
GroupToGshadow(mem, g) == Has(mem, "gshadow", g)
                            \/ (mem["gshadow"] # Closed /\ mem["group"][g].pw = Shadow)
GroupToGroup(mem, g) == ~GroupToGshadow(mem, g) \/ mem["group"][g].pw # Shadow

ChgpasswdEdit(job, mem) ==
  LET sg(g) == IF Has(mem, "gshadow", g) THEN mem["gshadow"][g]
               ELSE [pw |-> Shadow, admins |-> {}, members |-> mem["group"][g].members]
      lines == {job.name}
  IN  {[mem EXCEPT
          !["group"] = [g \in DOMAIN @ |->
             IF g \in lines /\ GroupToGroup(mem, g) THEN [@[g] EXCEPT !.pw = job.pw]
             ELSE @[g]],
          !["gshadow"] = IF @ = Closed THEN @
             ELSE Over([g \in {h \in lines : GroupToGshadow(mem, h)} |->
                          [sg(g) EXCEPT !.pw = job.pw]], @)] :
         j \in {k \in {job} : lines \subseteq DOMAIN mem["group"]}}

(***************************************************************************)
(* grpconv and grpunconv                                                   *)
(***************************************************************************)
\* Variant: gshadow keeps the members it has.
GrpconvEditKeepsMembers(job, mem) ==
  LET gr(g) == mem["group"][g]
      sg(g) == IF g \in DOMAIN mem["gshadow"]
               THEN [mem["gshadow"][g] EXCEPT !.pw = IF gr(g).pw = Shadow THEN @ ELSE gr(g).pw]
               ELSE [pw |-> gr(g).pw, admins |-> {}, members |-> gr(g).members]
  IN  {[mem EXCEPT !["group"] = [g \in DOMAIN @ |-> [@[g] EXCEPT !.pw = Shadow]],
                   !["gshadow"] = [g \in DOMAIN mem["group"] |-> sg(g)]]}

\* The members are those of group.
GrpconvEdit(job, mem) ==
  LET gr(g) == mem["group"][g]
      sg(g) == IF g \in DOMAIN mem["gshadow"]
               THEN [mem["gshadow"][g] EXCEPT
                       !.pw = IF gr(g).pw = Shadow THEN @ ELSE gr(g).pw,
                       !.members = gr(g).members]
               ELSE [pw |-> gr(g).pw, admins |-> {}, members |-> gr(g).members]
  IN  {[mem EXCEPT !["group"] = [g \in DOMAIN @ |-> [@[g] EXCEPT !.pw = Shadow]],
                   !["gshadow"] = [g \in DOMAIN mem["group"] |-> sg(g)]]}

GrpunconvEdit(job, mem) ==
  {[mem EXCEPT !["group"] = [g \in DOMAIN @ |->
      IF g \in DOMAIN mem["gshadow"] /\ @[g].pw = Shadow
      THEN [@[g] EXCEPT !.pw = mem["gshadow"][g].pw] ELSE @[g]]]}

(***************************************************************************)
(* grpck, when every question is answered with yes.  Lists of members that *)
(* differ are only reported (compare_members_lists).                       *)
(***************************************************************************)
\* check_members: names of no users are taken out of a list.
CheckMembers(members, users) == members \cap users

\* check_grp_file: a group without a gshadow entry gets one.
CheckGrpFile(mem, users) ==
  LET group == [g \in DOMAIN mem["group"] |->
                  [mem["group"][g] EXCEPT !.members = CheckMembers(@, users)]]
      missing == IF mem["gshadow"] = Closed THEN {} ELSE DOMAIN group \ DOMAIN mem["gshadow"]
  IN  [mem EXCEPT
         !["group"] = [g \in DOMAIN group |->
            IF g \in missing THEN [group[g] EXCEPT !.pw = Shadow] ELSE group[g]],
         !["gshadow"] = IF @ = Closed THEN @
            ELSE Over([g \in missing |-> [pw |-> group[g].pw, admins |-> {},
                                          members |-> group[g].members]], @)]

\* check_sgr_file: an entry of no group is deleted.
CheckSgrFile(mem, users) ==
  LET checked(g) == [mem["gshadow"][g] EXCEPT !.admins = CheckMembers(@, users),
                                              !.members = CheckMembers(@, users)]
  IN  [mem EXCEPT !["gshadow"] = IF @ = Closed THEN @
         ELSE [g \in DOMAIN @ \cap DOMAIN mem["group"] |-> checked(g)]]

GrpckEdit(job, mem, users) == {CheckSgrFile(CheckGrpFile(mem, users), users)}
=============================================================================
