--------------------------- MODULE PasswordEdits ---------------------------
(***************************************************************************)
(* What the password tools do to their copies of passwd and shadow.  Each  *)
(* edit is the set of the contents that the tool may end with; none is     *)
(* left when it gives up.  A tool that goes on without the shadow file has *)
(* it Closed.                                                              *)
(*                                                                         *)
(* A passwd entry is a password, the parts of the comment field and a      *)
(* shell; a shadow entry is a password and an age.                         *)
(***************************************************************************)
EXTENDS ToolScripts, Ageing

CONSTANTS Closed, Unset, Root

\* Values that were asked for, over those that there are.
Over(changes, old) ==
  [k \in DOMAIN changes \cup DOMAIN old |-> IF k \in DOMAIN changes THEN changes[k] ELSE old[k]]

Has(mem, f, n) == mem[f] # Closed /\ n \in DOMAIN mem[f]

PutPassword(mem, n, pw) == [mem EXCEPT !["passwd"][n].pw = pw]
PutShadow(mem, n, pw, age) ==
  [mem EXCEPT !["shadow"] = Put(@, n, [pw |-> pw, age |-> age])]

\* The user is still there.
Located(job, mem) == {job.name} \cap DOMAIN mem["passwd"]

(***************************************************************************)
(* passwd                                                                  *)
(***************************************************************************)
\* A new password or none, then unlocked, then locked.
UpdateCryptPw(job, pw) ==
  LET new == CASE "d" \in job.flags -> NoPassword
               [] "d" \notin job.flags /\ job.pw # Unset -> job.pw
               [] OTHER -> pw
      unlocked == IF "u" \in job.flags THEN Unlock(new) ELSE new
  IN  IF "u" \in job.flags /\ UnlocksNothing(new) THEN {}
      ELSE {IF "l" \in job.flags THEN Lock(unlocked) ELSE unlocked}

\* Variant: the entry that is about to be changed is not looked at.
CheckPasswordNever(job, pw, sp) == TRUE

\* -k is for passwords that have to be changed, and a plain user changes
\* neither a locked password nor one that is out of date.
CheckPassword(job, pw, sp) ==
  /\ "k" \in job.flags => IsExpired(pw, sp.age, Today) # 0
  /\ job.by = Root \/ (~sp.pw.locked /\ IsExpired(pw, sp.age, Today) <= 1)

\* new_password: a plain user types the old password first.
NewPasswordGiven(job, pw) == job.by = Root \/ pw = NoPassword \/ pw = job.old

UpdateNoshadow(job, mem, n) ==
  LET pw == mem["passwd"][n].pw
  IN  {PutPassword(mem, n, new) :
         new \in {q \in UpdateCryptPw(job, pw) :
                    CheckPassword(job, pw, [pw |-> pw, age |-> NoAge])}}

UpdateShadow(job, mem, n) ==
  LET sp  == mem["shadow"][n]
      age == [Over(job.age, sp.age) EXCEPT
                !["lstchg"] = CASE "e" \in job.flags -> 0
                                [] "e" \notin job.flags /\ job.pw # Unset -> Today
                                [] OTHER -> @]
  IN  {PutShadow(mem, n, new, age) :
         new \in {q \in UpdateCryptPw(job, sp.pw) :
                    CheckPassword(job, mem["passwd"][n].pw, sp)}}

PasswdEdit(job, mem) ==
  UNION {IF Has(mem, "shadow", n) THEN UpdateShadow(job, mem, n)
         ELSE UpdateNoshadow(job, mem, n) : n \in Located(job, mem)}

(***************************************************************************)
(* chpasswd: every user on its input, or nobody.                           *)
(***************************************************************************)
ToShadow(mem, n)  == Has(mem, "shadow", n)
                       \/ (mem["shadow"] # Closed /\ mem["passwd"][n].pw = Shadow)
ToPasswd(mem, n)  == ~ToShadow(mem, n) \/ mem["passwd"][n].pw # Shadow

ChpasswdEdit(job, mem) ==
  LET age(n) == IF Has(mem, "shadow", n)
                THEN [mem["shadow"][n].age EXCEPT !["lstchg"] = Today] ELSE NewAge
  IN  {[mem EXCEPT
          !["passwd"] = [n \in DOMAIN @ |->
             IF n \in job.users /\ ToPasswd(mem, n) THEN [@[n] EXCEPT !.pw = job.pw]
             ELSE @[n]],
          !["shadow"] = IF @ = Closed THEN @
             ELSE Over([n \in {m \in job.users : ToShadow(mem, m)} |->
                          [pw |-> job.pw, age |-> age(n)]], @)] :
         j \in {k \in {job} : k.users \subseteq DOMAIN mem["passwd"]}}

(***************************************************************************)
(* chage: a user without a shadow entry gets one.                          *)
(***************************************************************************)
\* get_defaults
OldAge(mem, n) == IF Has(mem, "shadow", n) THEN mem["shadow"][n].age ELSE NoAge

ChageEdit(job, mem) ==
  {IF Has(mem, "shadow", n)
   THEN PutShadow(mem, n, mem["shadow"][n].pw, Over(job.age, OldAge(mem, n)))
   ELSE PutPassword(PutShadow(mem, n, mem["passwd"][n].pw, Over(job.age, OldAge(mem, n))),
                    n, Shadow) : n \in Located(job, mem)}

(***************************************************************************)
(* chfn, whose new comment field was put together before the lock was      *)
(* taken, and chsh.                                                        *)
(***************************************************************************)
ChfnEdit(job, mem) == {[mem EXCEPT !["passwd"][n].gecos = job.gecos] : n \in Located(job, mem)}

ChshEdit(job, mem) == {[mem EXCEPT !["passwd"][n].shell = job.shell] : n \in Located(job, mem)}

(***************************************************************************)
(* usermod -p, -L, -U, -e and -f                                           *)
(***************************************************************************)
\* The three options exclude each other.
NewPwPasswd(job, pw) ==
  CASE "L" \in job.flags -> {Lock(pw)}
    [] "U" \in job.flags -> {Unlock(q) : q \in {r \in {pw} : ~UnlocksNothing(r)}}
    [] job.pw # Unset    -> {job.pw}
    [] OTHER             -> {pw}

\* Variant: shadow is not looked at.
NewPwentAlways(job, mem, n) ==
  {PutPassword(mem, n, pw) : pw \in NewPwPasswd(job, mem["passwd"][n].pw)}

NewPwent(job, mem, n) ==
  LET old == mem["passwd"][n].pw
  IN  {PutPassword(mem, n, pw) :
         pw \in IF mem["shadow"] = Closed \/ old # Shadow THEN NewPwPasswd(job, old)
                ELSE {old}}

NewSpent(job, mem, n, pw, age) ==
  {PutShadow(mem, n, new, [Over(job.age, age) EXCEPT
                             !["lstchg"] = IF job.pw # Unset THEN Today ELSE @]) :
     new \in NewPwPasswd(job, pw)}

\* usr_update: the password moves to a new shadow entry when it is needed.
UsermodSpent(job, mem, n) ==
  LET pw == mem["passwd"][n].pw
  IN  IF Has(mem, "shadow", n)
      THEN NewSpent(job, mem, n, mem["shadow"][n].pw, mem["shadow"][n].age)
      ELSE IF mem["shadow"] # Closed
              /\ ((job.pw # Unset /\ pw = Shadow) \/ DOMAIN job.age # {})
      THEN NewSpent(job, PutPassword(mem, n, Shadow), n, pw, NewAge)
      ELSE {mem}

UsermodPasswordEdit(job, mem) ==
  UNION {UNION {UsermodSpent(job, new, n) : new \in NewPwent(job, mem, n)} :
           n \in Located(job, mem)}

(***************************************************************************)
(* pwconv and pwunconv                                                     *)
(***************************************************************************)
PwconvEdit(job, mem) ==
  LET entry(n) ==
        LET pw == mem["passwd"][n].pw
        IN  IF n \notin DOMAIN mem["shadow"] THEN [pw |-> pw, age |-> NewAge]
            ELSE IF pw = Shadow THEN mem["shadow"][n]
            ELSE [pw |-> pw, age |-> [mem["shadow"][n].age EXCEPT !["lstchg"] = Today]]
  IN  {[mem EXCEPT !["passwd"] = [n \in DOMAIN @ |-> [@[n] EXCEPT !.pw = Shadow]],
                   !["shadow"] = [n \in DOMAIN mem["passwd"] |-> entry(n)]]}

PwunconvEdit(job, mem) ==
  {[mem EXCEPT !["passwd"] = [n \in DOMAIN @ |->
      IF n \in DOMAIN mem["shadow"] /\ @[n].pw = Shadow
      THEN [@[n] EXCEPT !.pw = mem["shadow"][n].pw] ELSE @[n]]]}

(***************************************************************************)
(* pwck, when every question is answered with yes.                         *)
(***************************************************************************)
\* check_pw_file: a user without a shadow entry gets one.
CheckPwFile(mem) ==
  IF mem["shadow"] = Closed THEN mem
  ELSE LET missing == DOMAIN mem["passwd"] \ DOMAIN mem["shadow"]
       IN  [mem EXCEPT
              !["passwd"] = [n \in DOMAIN @ |->
                 IF n \in missing THEN [@[n] EXCEPT !.pw = Shadow] ELSE @[n]],
              !["shadow"] = Over([n \in missing |->
                                    [pw |-> mem["passwd"][n].pw, age |-> NewAge]], @)]

\* Variant: entries of nobody stay.
CheckSpwFileKeeps(mem) == mem

\* check_spw_file: an entry of nobody is deleted.
CheckSpwFile(mem) ==
  [mem EXCEPT !["shadow"] =
     IF @ = Closed THEN @ ELSE [n \in DOMAIN @ \cap DOMAIN mem["passwd"] |-> @[n]]]

PwckEdit(job, mem) == {CheckSpwFile(CheckPwFile(mem))}

(***************************************************************************)
(* vipw: the editor changes what it likes; here the shell of the user, or  *)
(* with -s the age.                                                        *)
(***************************************************************************)
VipwEdit(job, mem) ==
  IF "s" \in job.flags
  THEN {PutShadow(mem, n, mem["shadow"][n].pw, Over(job.age, mem["shadow"][n].age)) :
          n \in {job.name} \cap DOMAIN mem["shadow"]}
  ELSE ChshEdit(job, mem)
=============================================================================
