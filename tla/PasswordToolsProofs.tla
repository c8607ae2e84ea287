------------------------ MODULE PasswordToolsProofs ------------------------
(***************************************************************************)
(* Proofs about PasswordTools, for every number of processes, every set of *)
(* command lines and every initial content of the files: no tool leaves a  *)
(* lock behind; the checkers and converters leave files that fit; passwd   *)
(* changes no password that is barred.                                     *)
(*                                                                         *)
(* LocksInv says of a process that each lock it has is unlocked later in   *)
(* its script, before any call after which it may end without clean-up,    *)
(* and is among those that its fail_exit unlocks; and the same of the      *)
(* locks it is still to take.  It must also hold of the script that is     *)
(* left when a tool finds that a shadow file is not there.                 *)
(*                                                                         *)
(* WorkInv adds, of each process, the order in which its calls come        *)
(* (Ordered), what it has or will open, lock, test and read before it      *)
(* edits (PlanOf), and how what it has of the files stands to what is in   *)
(* them (StateOf): the same until it edits (Fresh); after it, tables that  *)
(* fit each other (Mends) and barred passwords as they are (Bars).  A step *)
(* of another process keeps this because a file is written only under its  *)
(* lock, and because who writes shadow without the lock of passwd, vipw,   *)
(* adds nobody to it (GoodOther, ShadowKept).                              *)
(***************************************************************************)
EXTENDS PasswordTools, ToolScriptsProofs

\* The record of a process, whatever is in its fields.
IsWork(w) ==
  w \in [job : {w.job}, script : {w.script}, written : {w.written}, mem : {w.mem},
         seen : {w.seen}]

Shape ==
  /\ owner \in [Files -> Procs \cup {None}]
  /\ work = [p \in Procs |-> work[p]]
  /\ \A p \in Procs : IsWork(work[p])

Calls == [do : {"test", "read", "check", "lock", "open", "edit", "close", "unlink", "unlock"},
          file : Files \cup {None}]

\* The calls after which a tool may end as it is: a check, the reading of a
\* file without a lock, and for some the test whether the file is there.
Quits(job) == {"check", "read"} \cup (IF job.tool \in Needs THEN {"test"} ELSE {})

LocksOf(script) == {f \in Files : Call("lock", f) \in Range(script)}

Known(job) == "tool" \in DOMAIN job /\ job.tool \in Tools

\* The process w, which holds these locks, will give all of them back, even
\* if it fails.
GivesBack(held, w) ==
  /\ w.script \in Seq(Calls)
  /\ Balanced(w.script, Quits(w.job))
  /\ \A f \in held : Covers(w.script, 1, f, Quits(w.job))
  /\ held \cup LocksOf(w.script) \subseteq Range(UnlockOrder(w.job))
  /\ w.script # <<>> => Known(w.job)

Held(p) == {f \in Files : owner[f] = p}

LocksInv == Shape /\ \A p \in Procs : GivesBack(Held(p), work[p])

(***************************************************************************)
(* What the scripts do.                                                    *)
(***************************************************************************)
\* The lists of files.
LEMMA FileLists ==
  /\ Users \in Seq(Files) /\ Range(Users) = {"passwd", "shadow"}
  /\ Groups \in Seq(Files) /\ Range(Groups) = {"group", "gshadow"}
  /\ Reverse(Users) \in Seq(Files) /\ Range(Reverse(Users)) = {"passwd", "shadow"}
  /\ Reverse(Groups) \in Seq(Files) /\ Range(Reverse(Groups)) = {"group", "gshadow"}
<1>1. "passwd" \in Files /\ "shadow" \in Files /\ "group" \in Files /\ "gshadow" \in Files
  BY DEF Files
<1>2. /\ Users \in Seq(Files) /\ Range(Users) = {"passwd", "shadow"}
      /\ Groups \in Seq(Files) /\ Range(Groups) = {"group", "gshadow"}
  BY <1>1, Pair DEF Users, Groups
<1> QED BY <1>2, ReverseCalls

\* A list of one file.
LEMMA OneFile == ASSUME NEW f \in Files PROVE <<f>> \in Seq(Files) /\ Range(<<f>>) = {f}
BY Single

\* The files that each tool unlocks in fail_exit.
LEMMA UnlockOrders ==
  ASSUME NEW job, job.tool \in Tools
  PROVE  /\ UnlockOrder(job) \in Seq(Files)
         /\ Range(UnlockOrder(job)) =
              IF job.tool \in {"gpasswd", "chgpasswd", "grpck", "grpconv", "grpunconv"}
              THEN {"group", "gshadow"} ELSE {"passwd", "shadow"}
<1>1. CASE job.tool \in {"chpasswd", "pwconv"}
  <2>1. UnlockOrder(job) = Users
    BY <1>1 DEF UnlockOrder
  <2> QED BY <1>1, <2>1, FileLists
<1>2. CASE job.tool \in {"passwd", "chage", "chfn", "chsh", "usermod", "vipw", "pwck", "pwunconv"}
  <2>1. UnlockOrder(job) = Reverse(Users)
    BY <1>2 DEF UnlockOrder
  <2> QED BY <1>2, <2>1, FileLists
<1>3. CASE job.tool = "gpasswd"
  <2>1. UnlockOrder(job) = Reverse(Groups)
    BY <1>3 DEF UnlockOrder
  <2> QED BY <1>3, <2>1, FileLists
<1>4. CASE job.tool \in {"chgpasswd", "grpck", "grpconv", "grpunconv"}
  <2>1. UnlockOrder(job) = Groups
    BY <1>4 DEF UnlockOrder
  <2> QED BY <1>4, <2>1, FileLists
<1> QED BY <1>1, <1>2, <1>3, <1>4 DEF Tools

\* The script does no other calls than these, and locks no other files.
Does(script, calls, files) ==
  /\ script \in Seq(Calls)
  /\ \A c \in Range(script) : c.do \in calls /\ (c.do = "lock" => c.file \in files)

Looking   == {"test", "read", "check"}
Working   == {"lock", "open", "edit", "close", "unlink", "unlock"}
Finishing == {"close", "unlock"}

LEMMA DoesThen ==
  ASSUME NEW s, NEW t, NEW calls, NEW files, Does(s, calls, files), Does(t, calls, files)
  PROVE  Does(s \o t, calls, files)
<1>1. s \in Seq(Calls) /\ t \in Seq(Calls)
  BY DEF Does
<1>2. s \o t \in Seq(Calls) /\ Range(s \o t) = Range(s) \cup Range(t)
  BY <1>1, ConcatProperties, RangeConcatenation
<1> QED BY <1>2 DEF Does

\* One call.
LEMMA DoesOne ==
  ASSUME NEW do \in {"test", "read", "check", "edit"}, NEW f \in Files \cup {None},
         NEW calls, do \in calls, NEW files
  PROVE  Does(<<Call(do, f)>>, calls, files)
<1> DEFINE c == Call(do, f)
<1>1. c \in Calls /\ c.do = do /\ c.do # "lock"
  BY DEF Call, Calls
<1> HIDE DEF c
<1>2. <<c>> \in Seq(Calls) /\ Range(<<c>>) = {c}
  BY <1>1, Single
<1>3. Does(<<c>>, calls, files)
  BY <1>1, <1>2 DEF Does
<1> QED BY <1>3 DEF c

\* The same call on each of some files.
LEMMA DoesEach ==
  ASSUME NEW do \in {"lock", "open", "close", "unlink", "unlock"}, NEW calls, do \in calls,
         NEW files, NEW list \in Seq(Files), do = "lock" => Range(list) \subseteq files
  PROVE  /\ Does(Each(do, list), calls, files)
         /\ \A f \in Range(list) : Call(do, f) \in Range(Each(do, list))
<1>1. \A f \in Files : Call(do, f) \in Calls
  BY DEF Call, Calls
<1>2. /\ Each(do, list) \in Seq(Calls)
      /\ Range(Each(do, list)) = {Call(do, f) : f \in Range(list)}
  BY <1>1, EachCalls
<1> QED BY <1>2 DEF Does, Call

LEMMA DoesLockAndOpen ==
  ASSUME NEW calls, {"lock", "open"} \subseteq calls, NEW files,
         NEW list \in Seq(Files), Range(list) \subseteq files
  PROVE  Does(LockAndOpen(list), calls, files)
<1>1. \A f \in Files : Call("lock", f) \in Calls /\ Call("open", f) \in Calls
  BY DEF Call, Calls
<1> DEFINE t == EachTwo("lock", "open", list)
<1>2. t \in Seq(Calls)
  BY <1>1, EachTwoCalls
<1>3. \A c : c \in Range(t) <=>
             \E f \in Range(list) : c = Call("lock", f) \/ c = Call("open", f)
  BY <1>1, EachTwoCalls
<1>4. t = LockAndOpen(list)
  BY DEF LockAndOpen
<1> HIDE DEF t
<1> QED BY <1>2, <1>3, <1>4 DEF Does, Call

LEMMA DoesLockThenOpen ==
  ASSUME NEW calls, {"lock", "open"} \subseteq calls, NEW files,
         NEW list \in Seq(Files), Range(list) \subseteq files
  PROVE  Does(LockThenOpen(list), calls, files)
<1>1. Does(Each("lock", list), calls, files) /\ Does(Each("open", list), calls, files)
  BY DoesEach
<1> QED BY <1>1, DoesThen DEF LockThenOpen

LEMMA DoesCloseAndUnlock ==
  ASSUME NEW calls, {"close", "unlock"} \subseteq calls, NEW files, NEW list \in Seq(Files)
  PROVE  /\ Does(CloseAndUnlock(list), calls, files)
         /\ \A f \in Range(list) : Call("unlock", f) \in Range(CloseAndUnlock(list))
<1>1. \A f \in Files : Call("close", f) \in Calls /\ Call("unlock", f) \in Calls
  BY DEF Call, Calls
<1> DEFINE t == EachTwo("close", "unlock", list)
<1>2. t \in Seq(Calls)
  BY <1>1, EachTwoCalls
<1>3. \A c : c \in Range(t) <=>
             \E f \in Range(list) : c = Call("close", f) \/ c = Call("unlock", f)
  BY <1>1, EachTwoCalls
<1>4. t = CloseAndUnlock(list)
  BY DEF CloseAndUnlock
<1> HIDE DEF t
<1> QED BY <1>2, <1>3, <1>4 DEF Does, Call

\* A part of a script that takes locks on these files, and a script that also
\* gives them back.
Takes(script, quits, files) ==
  /\ Does(script, Looking \cup Working, files)
  /\ Clear(script, quits)

GivesAll(script, quits, files) ==
  /\ Does(script, Looking \cup Working, files)
  /\ Balanced(script, quits)

MayQuit == {"check", "read", "test"}

\* What is only looked at is not locked.
LEMMA LookTakes ==
  ASSUME NEW s, Does(s, Looking, {}), NEW quits, NEW files
  PROVE  Takes(s, quits, files)
<1>1. s \in Seq(Calls) /\ \A c \in Range(s) : c.do \in Looking /\ c.do # "lock"
  BY DEF Does
<1>2. Clear(s, quits)
  BY <1>1, ClearAll
<1> QED BY <1>1, <1>2 DEF Takes, Does

\* Nothing that is done with the locks ends the tool without clean-up.
LEMMA WorkTakes ==
  ASSUME NEW s, NEW quits \in SUBSET MayQuit, NEW files, Does(s, Working, files)
  PROVE  Takes(s, quits, files)
<1>1. s \in Seq(Calls) /\ \A d \in Range(s) : d.do \notin quits /\ \A f : d # Call("test", f)
  BY DEF Does, Working, MayQuit, Call
<1>2. Clear(s, quits)
  BY <1>1, ClearAll
<1> QED BY <1>1, <1>2 DEF Takes, Does

LEMMA TakesThenWorks ==
  ASSUME NEW s, NEW t, NEW quits \in SUBSET MayQuit, NEW files,
         Takes(s, quits, files), Does(t, Working, files)
  PROVE  Takes(s \o t, quits, files)
<1>1. Takes(t, quits, files)
  BY WorkTakes
<1>2. s \in Seq(Calls) /\ t \in Seq(Calls)
  BY DEF Does, Takes
<1>3. \A d \in Range(t) : d.do \notin quits /\ \A f : d # Call("test", f)
  BY DEF Does, Working, MayQuit, Call
<1>4. Clear(s \o t, quits)
  BY <1>1, <1>2, <1>3, ClearThen DEF Takes
<1>5. Does(s \o t, Looking \cup Working, files)
  BY <1>1, DoesThen DEF Takes
<1> QED BY <1>4, <1>5 DEF Takes

\* The unlocks at the end give all of it back.
LEMMA TakesThenUnlocks ==
  ASSUME NEW s, NEW t, NEW quits \in SUBSET MayQuit, NEW files, Takes(s, quits, files),
         Does(t, Finishing, {}), \A f \in files : Call("unlock", f) \in Range(t)
  PROVE  GivesAll(s \o t, quits, files)
<1>1. s \in Seq(Calls) /\ t \in Seq(Calls)
  BY DEF Does, Takes
<1>2. \A c \in Range(t) : /\ c.do \notin quits /\ c.do # "lock"
                          /\ \A f : c # Call("test", f)
  BY DEF Does, Finishing, MayQuit, Call
<1>3. \A f \in files : Covers(t, 1, f, quits)
  BY <1>1, <1>2, CoversAll
<1>4. Balanced(t, quits)
  BY <1>1, <1>2, NoLocksBalanced
<1>5. \A c \in Range(s) : c.do = "lock" => Covers(t, 1, c.file, quits)
  BY <1>3 DEF Takes, Does
<1>6. Balanced(s \o t, quits)
  BY <1>1, <1>4, <1>5, ClearBalanced DEF Takes
<1>7. Does(t, Looking \cup Working, files)
  BY DEF Does, Finishing, Working
<1>8. Does(s \o t, Looking \cup Working, files)
  BY <1>7, DoesThen DEF Takes
<1> QED BY <1>6, <1>8 DEF GivesAll

LEMMA EditDoes == ASSUME NEW files PROVE Does(Edit, Working, files)
BY DoesOne DEF Edit, Working

\* Look, lock, edit, and close and unlock.
LEMMA LookLockEdit ==
  ASSUME NEW look, NEW lock, NEW free, NEW quits \in SUBSET MayQuit, NEW files,
         Does(look, Looking, {}), Does(lock, Working, files),
         Does(free, Finishing, {}), \A f \in files : Call("unlock", f) \in Range(free)
  PROVE  GivesAll(look \o lock \o Edit \o free, quits, files)
<1>1. Takes(look, quits, files)
  BY LookTakes
<1>2. Takes(look \o lock, quits, files)
  BY <1>1, TakesThenWorks
<1>3. Takes((look \o lock) \o Edit, quits, files)
  BY <1>2, EditDoes, TakesThenWorks
<1> QED BY <1>3, TakesThenUnlocks

\* The same with the files closed before the first is unlocked.
LEMMA LookLockEditClose ==
  ASSUME NEW look, NEW lock, NEW close, NEW free, NEW quits \in SUBSET MayQuit, NEW files,
         Does(look, Looking, {}), Does(lock, Working, files), Does(close, Working, files),
         Does(free, Finishing, {}), \A f \in files : Call("unlock", f) \in Range(free)
  PROVE  GivesAll(look \o lock \o Edit \o close \o free, quits, files)
<1>1. Takes(look, quits, files)
  BY LookTakes
<1>2. Takes(look \o lock, quits, files)
  BY <1>1, TakesThenWorks
<1>3. Takes((look \o lock) \o Edit, quits, files)
  BY <1>2, EditDoes, TakesThenWorks
<1>4. Takes(((look \o lock) \o Edit) \o close, quits, files)
  BY <1>3, TakesThenWorks
<1> QED BY <1>4, TakesThenUnlocks

\* And with a file removed.
LEMMA LookLockEditUnlink ==
  ASSUME NEW look, NEW lock, NEW close, NEW unlink, NEW free,
         NEW quits \in SUBSET MayQuit, NEW files,
         Does(look, Looking, {}), Does(lock, Working, files), Does(close, Working, files),
         Does(unlink, Working, files),
         Does(free, Finishing, {}), \A f \in files : Call("unlock", f) \in Range(free)
  PROVE  GivesAll(look \o lock \o Edit \o close \o unlink \o free, quits, files)
<1>1. Takes(look, quits, files)
  BY LookTakes
<1>2. Takes(look \o lock, quits, files)
  BY <1>1, TakesThenWorks
<1>3. Takes((look \o lock) \o Edit, quits, files)
  BY <1>2, EditDoes, TakesThenWorks
<1>4. Takes(((look \o lock) \o Edit) \o close, quits, files)
  BY <1>3, TakesThenWorks
<1>5. Takes((((look \o lock) \o Edit) \o close) \o unlink, quits, files)
  BY <1>4, TakesThenWorks
<1> QED BY <1>5, TakesThenUnlocks

\* pwconv and grpconv, which do not look.
LEMMA LockEditClose ==
  ASSUME NEW lock, NEW close, NEW free, NEW quits \in SUBSET MayQuit, NEW files,
         Does(lock, Working, files), Does(close, Working, files),
         Does(free, Finishing, {}), \A f \in files : Call("unlock", f) \in Range(free)
  PROVE  GivesAll(lock \o Edit \o close \o free, quits, files)
<1>1. Does(lock \o Edit, Working, files)
  BY EditDoes, DoesThen
<1>2. Does((lock \o Edit) \o close, Working, files)
  BY <1>1, DoesThen
<1>3. Takes((lock \o Edit) \o close, quits, files)
  BY <1>2, WorkTakes
<1> QED BY <1>3, TakesThenUnlocks

\* The parts that the scripts are made of.
LEMMA LooksDo ==
  /\ Does(Check, Looking, {})
  /\ \A f \in Files : Does(Test(f), Looking, {}) /\ Does(Read(f), Looking, {})
BY DoesOne DEF Check, Test, Read, Looking

LEMMA PartsDo ==
  ASSUME NEW list \in Seq(Files), NEW files, Range(list) = files
  PROVE  /\ Does(LockAndOpen(list), Working, files)
         /\ Does(LockThenOpen(list), Working, files)
         /\ Does(Each("close", list), Working, files)
         /\ Does(Each("close", Reverse(list)), Working, files)
         /\ Does(Each("unlock", list), Finishing, {})
         /\ \A f \in files : Call("unlock", f) \in Range(Each("unlock", list))
         /\ Does(Each("unlock", Reverse(list)), Finishing, {})
         /\ \A f \in files : Call("unlock", f) \in Range(Each("unlock", Reverse(list)))
         /\ Does(CloseAndUnlock(list), Finishing, {})
         /\ \A f \in files : Call("unlock", f) \in Range(CloseAndUnlock(list))
         /\ Does(CloseAndUnlock(Reverse(list)), Finishing, {})
         /\ \A f \in files : Call("unlock", f) \in Range(CloseAndUnlock(Reverse(list)))
<1> DEFINE back == Reverse(list)
<1>1. back \in Seq(Files) /\ Range(back) = files
  BY ReverseCalls
<1> HIDE DEF back
<1>2. Does(LockAndOpen(list), Working, files) /\ Does(LockThenOpen(list), Working, files)
  BY DoesLockAndOpen, DoesLockThenOpen DEF Working
<1>3. Does(Each("close", list), Working, files) /\ Does(Each("close", back), Working, files)
  BY <1>1, DoesEach DEF Working
<1>4. Does(Each("unlock", list), Finishing, {}) /\ Does(Each("unlock", back), Finishing, {})
  BY <1>1, DoesEach DEF Finishing
<1>5. /\ \A f \in files : Call("unlock", f) \in Range(Each("unlock", list))
      /\ \A f \in files : Call("unlock", f) \in Range(Each("unlock", back))
  BY <1>1, DoesEach DEF Finishing
<1>6. Does(CloseAndUnlock(list), Finishing, {}) /\ Does(CloseAndUnlock(back), Finishing, {})
  BY <1>1, DoesCloseAndUnlock DEF Finishing
<1>7. /\ \A f \in files : Call("unlock", f) \in Range(CloseAndUnlock(list))
      /\ \A f \in files : Call("unlock", f) \in Range(CloseAndUnlock(back))
  BY <1>1, DoesCloseAndUnlock DEF Finishing
<1> QED BY <1>2, <1>3, <1>4, <1>5, <1>6, <1>7 DEF back

\* The tools of passwd and shadow, but passwd itself.
LEMMA UsersPay ==
  ASSUME NEW job, NEW quits \in SUBSET MayQuit,
         job.tool \in {"chpasswd", "chage", "usermod", "pwck", "pwconv", "pwunconv"}
  PROVE  GivesAll(Script(job), quits, {"passwd", "shadow"})
<1> DEFINE files == {"passwd", "shadow"}
<1>1. Users \in Seq(Files) /\ Range(Users) = files
  BY FileLists
<1>2. Does(Test("shadow"), Looking, {}) /\ Does(Check, Looking, {})
  BY LooksDo DEF Files
<1> HIDE DEF files
<1>3. CASE job.tool = "chpasswd"
  <2>1. Script(job) = Test("shadow") \o LockAndOpen(Users) \o Edit \o CloseAndUnlock(Reverse(Users))
    BY <1>3 DEF Script, ChpasswdScript
  <2>2. GivesAll(Script(job), quits, files)
    BY <1>1, <1>2, <2>1, PartsDo, LookLockEdit
  <2> QED BY <2>2 DEF files
<1>4. CASE job.tool = "chage"
  <2>1. Script(job) = Test("shadow") \o LockAndOpen(Users) \o Edit
                        \o Each("close", Reverse(Users)) \o Each("unlock", Reverse(Users))
    BY <1>4 DEF Script, ChageScript
  <2>2. GivesAll(Script(job), quits, files)
    BY <1>1, <1>2, <2>1, PartsDo, LookLockEditClose
  <2> QED BY <2>2 DEF files
<1>5. CASE job.tool = "usermod"
  <2>1. Script(job) = Test("shadow") \o Check \o LockAndOpen(Users) \o Edit
                        \o CloseAndUnlock(Reverse(Users))
    BY <1>5 DEF Script, UsermodScript
  <2>2. Does(Test("shadow") \o Check, Looking, {})
    BY <1>2, DoesThen
  <2>3. GivesAll(Script(job), quits, files)
    BY <1>1, <2>1, <2>2, PartsDo, LookLockEdit
  <2> QED BY <2>3 DEF files
<1>6. CASE job.tool = "pwck"
  <2>1. Script(job) = Test("shadow") \o LockThenOpen(Users) \o Edit
                        \o Each("close", Users) \o Each("unlock", Reverse(Users))
    BY <1>6 DEF Script, PwckScript
  <2>2. GivesAll(Script(job), quits, files)
    BY <1>1, <1>2, <2>1, PartsDo, LookLockEditClose
  <2> QED BY <2>2 DEF files
<1>7. CASE job.tool = "pwconv"
  <2>1. Script(job) = LockAndOpen(Users) \o Edit \o Each("close", Reverse(Users))
                        \o Each("unlock", Users)
    BY <1>7 DEF Script, PwconvScript
  <2>2. GivesAll(Script(job), quits, files)
    BY <1>1, <2>1, PartsDo, LockEditClose
  <2> QED BY <2>2 DEF files
<1>8. CASE job.tool = "pwunconv"
  <2> DEFINE close  == Each("close", <<"passwd">>)
             unlink == Each("unlink", <<"shadow">>)
  <2>1. Script(job) = Test("shadow") \o LockAndOpen(Users) \o Edit \o close \o unlink
                        \o Each("unlock", Reverse(Users))
    BY <1>8 DEF Script, PwunconvScript
  <2>2. Does(close, Working, files) /\ Does(unlink, Working, files)
    <3> DEFINE a == <<"passwd">>
               b == <<"shadow">>
    <3>1. a \in Seq(Files) /\ b \in Seq(Files)
      BY OneFile DEF Files
    <3> HIDE DEF a, b
    <3>2. Does(Each("close", a), Working, files) /\ Does(Each("unlink", b), Working, files)
      BY <3>1, DoesEach DEF Working
    <3> QED BY <3>2 DEF a, b
  <2> HIDE DEF close, unlink
  <2>3. GivesAll(Script(job), quits, files)
    BY <1>1, <1>2, <2>1, <2>2, PartsDo, LookLockEditUnlink
  <2> QED BY <2>3 DEF files
<1> QED BY <1>3, <1>4, <1>5, <1>6, <1>7, <1>8

\* The tools of group and gshadow.
LEMMA GroupsPay ==
  ASSUME NEW job, NEW quits \in SUBSET MayQuit,
         job.tool \in {"gpasswd", "chgpasswd", "grpck", "grpconv", "grpunconv"}
  PROVE  GivesAll(Script(job), quits, {"group", "gshadow"})
<1> DEFINE files == {"group", "gshadow"}
<1>1. Groups \in Seq(Files) /\ Range(Groups) = files
  BY FileLists
<1>2. /\ Does(Test("gshadow"), Looking, {}) /\ Does(Check, Looking, {})
      /\ Does(Read("group"), Looking, {}) /\ Does(Read("gshadow"), Looking, {})
  BY LooksDo DEF Files
<1> HIDE DEF files
<1>3. CASE job.tool = "gpasswd"
  <2> DEFINE look == Test("gshadow") \o Read("group") \o Read("gshadow") \o Check
  <2>1. Script(job) = look \o LockThenOpen(Groups) \o Edit \o CloseAndUnlock(Groups)
    BY <1>3 DEF Script, GpasswdScript
  <2>2. Does(look, Looking, {})
    BY <1>2, DoesThen
  <2> HIDE DEF look
  <2>3. GivesAll(Script(job), quits, files)
    BY <1>1, <2>1, <2>2, PartsDo, LookLockEdit
  <2> QED BY <2>3 DEF files
<1>4. CASE job.tool = "chgpasswd"
  <2>1. Script(job) = Test("gshadow") \o LockAndOpen(Groups) \o Edit
                        \o CloseAndUnlock(Reverse(Groups))
    BY <1>4 DEF Script, ChgpasswdScript
  <2>2. GivesAll(Script(job), quits, files)
    BY <1>1, <1>2, <2>1, PartsDo, LookLockEdit
  <2> QED BY <2>2 DEF files
<1>5. CASE job.tool = "grpck"
  <2>1. Script(job) = Test("gshadow") \o LockThenOpen(Groups) \o Edit
                        \o Each("close", Groups) \o Each("unlock", Reverse(Groups))
    BY <1>5 DEF Script, GrpckScript
  <2>2. GivesAll(Script(job), quits, files)
    BY <1>1, <1>2, <2>1, PartsDo, LookLockEditClose
  <2> QED BY <2>2 DEF files
<1>6. CASE job.tool = "grpconv"
  <2>1. Script(job) = LockAndOpen(Groups) \o Edit \o Each("close", Reverse(Groups))
                        \o Each("unlock", Reverse(Groups))
    BY <1>6 DEF Script, GrpconvScript
  <2>2. GivesAll(Script(job), quits, files)
    BY <1>1, <2>1, PartsDo, LockEditClose
  <2> QED BY <2>2 DEF files
<1>7. CASE job.tool = "grpunconv"
  <2> DEFINE close  == Each("close", <<"group">>)
             unlink == Each("unlink", <<"gshadow">>)
  <2>1. Script(job) = Test("gshadow") \o LockAndOpen(Groups) \o Edit \o close \o unlink
                        \o Each("unlock", Groups)
    BY <1>7 DEF Script, GrpunconvScript
  <2>2. Does(close, Working, files) /\ Does(unlink, Working, files)
    <3> DEFINE a == <<"group">>
               b == <<"gshadow">>
    <3>1. a \in Seq(Files) /\ b \in Seq(Files)
      BY OneFile DEF Files
    <3> HIDE DEF a, b
    <3>2. Does(Each("close", a), Working, files) /\ Does(Each("unlink", b), Working, files)
      BY <3>1, DoesEach DEF Working
    <3> QED BY <3>2 DEF a, b
  <2> HIDE DEF close, unlink
  <2>3. GivesAll(Script(job), quits, files)
    BY <1>1, <1>2, <2>1, <2>2, PartsDo, LookLockEditUnlink
  <2> QED BY <2>3 DEF files
<1> QED BY <1>3, <1>4, <1>5, <1>6, <1>7
\* A look at files that are not locked yet.
LEMMA TakesThenLooks ==
  ASSUME NEW s, NEW t, NEW quits, NEW files, Takes(s, quits, files), Does(t, Looking, {}),
         \A d \in Range(t) : d.do \notin quits /\ \A f \in files : d # Call("test", f)
  PROVE  Takes(s \o t, quits, files)
<1>1. Takes(t, quits, files)
  BY LookTakes
<1>2. s \in Seq(Calls) /\ t \in Seq(Calls)
  BY DEF Does, Takes
<1>3. \A c \in Range(s), d \in Range(t) : c.do = "lock" =>
        d.do \notin quits /\ d # Call("test", c.file)
  BY DEF Takes, Does
<1>4. Clear(s \o t, quits)
  BY <1>1, <1>2, <1>3, ClearThen DEF Takes
<1>5. Does(s \o t, Looking \cup Working, files)
  BY <1>1, DoesThen DEF Takes
<1> QED BY <1>4, <1>5 DEF Takes

LEMMA TakesMore ==
  ASSUME NEW s, NEW quits, NEW files, NEW more, files \subseteq more, Takes(s, quits, files)
  PROVE  Takes(s, quits, more)
BY DEF Takes, Does

\* passwd looks for shadow with passwd locked, and goes on whether it is there
\* or not.
LEMMA PasswdPays ==
  ASSUME NEW job, job.tool = "passwd"
  PROVE  GivesAll(Script(job), {"check", "read"}, {"passwd", "shadow"})
<1> DEFINE quits == {"check", "read"}
           one == <<"passwd">>
           other == <<"shadow">>
           files == {"passwd", "shadow"}
           test == Test("shadow")
           script == Check \o LockAndOpen(one) \o test \o LockAndOpen(other)
                       \o Edit \o CloseAndUnlock(Reverse(Users))
<1>1. one \in Seq(Files) /\ Range(one) = {"passwd"} /\ other \in Seq(Files) /\ Range(other) = {"shadow"}
  BY OneFile DEF Files
<1>2. Does(Check, Looking, {}) /\ Does(test, Looking, {})
  BY LooksDo DEF Files
<1>3. \A d \in Range(test) : d.do \notin quits /\ \A f \in {"passwd"} : d # Call("test", f)
  <2> DEFINE c == Call("test", "shadow")
  <2>1. c.do = "test" /\ c # Call("test", "passwd")
    BY DEF Call
  <2> HIDE DEF c
  <2>2. Range(<<c>>) = {c}
    BY Single
  <2>3. test = <<c>>
    BY DEF Test, c
  <2> HIDE DEF test
  <2> QED BY <2>1, <2>2, <2>3
<1>4. quits \in SUBSET MayQuit
  BY DEF MayQuit
<1>5. /\ Does(CloseAndUnlock(Reverse(Users)), Finishing, {})
      /\ \A f \in files : Call("unlock", f) \in Range(CloseAndUnlock(Reverse(Users)))
  BY FileLists, PartsDo
<1>6. {"passwd"} \subseteq files /\ {"shadow"} \subseteq files
  OBVIOUS
<1>7. Script(job) = script
  BY DEF Script, PasswdScript
<1> HIDE DEF quits, one, other, files, test
<1>8. Does(LockAndOpen(one), Working, {"passwd"}) /\ Does(LockAndOpen(other), Working, files)
  BY <1>1, <1>6, DoesLockAndOpen DEF Working
<1>9. Takes(Check \o LockAndOpen(one), quits, {"passwd"})
  BY <1>2, <1>4, <1>8, LookTakes, TakesThenWorks
<1>10. Takes((Check \o LockAndOpen(one)) \o test, quits, files)
  BY <1>2, <1>3, <1>6, <1>9, TakesThenLooks, TakesMore
<1>11. Takes(((Check \o LockAndOpen(one)) \o test) \o LockAndOpen(other), quits, files)
  BY <1>4, <1>8, <1>10, TakesThenWorks
<1>12. Takes((((Check \o LockAndOpen(one)) \o test) \o LockAndOpen(other)) \o Edit, quits, files)
  BY <1>4, <1>11, EditDoes, TakesThenWorks
<1>13. GivesAll(script, quits, files)
  BY <1>4, <1>5, <1>12, TakesThenUnlocks
<1> QED BY <1>7, <1>13 DEF quits, files

\* chfn, chsh and vipw, which lock one file.
LEMMA OnePays ==
  ASSUME NEW job, NEW quits \in SUBSET MayQuit, job.tool \in {"chfn", "chsh", "vipw"}
  PROVE  GivesAll(Script(job), quits, {"passwd", "shadow"})
<1> DEFINE files == {"passwd", "shadow"}
<1>1. CASE job.tool \in {"chfn", "chsh"}
  <2> DEFINE one == <<"passwd">>
  <2>1. Script(job) = Check \o LockAndOpen(one) \o Edit \o CloseAndUnlock(one)
    BY <1>1 DEF Script, ChfnScript
  <2>2. one \in Seq(Files) /\ Range(one) = {"passwd"} /\ {"passwd"} \subseteq files
    BY OneFile DEF Files
  <2> HIDE DEF one, files
  <2>3. GivesAll(Script(job), quits, {"passwd"})
    <3>1. Does(Check, Looking, {})
      BY LooksDo
    <3>2. /\ Does(LockAndOpen(one), Working, {"passwd"})
          /\ Does(CloseAndUnlock(one), Finishing, {})
          /\ \A f \in {"passwd"} : Call("unlock", f) \in Range(CloseAndUnlock(one))
      BY <2>2, PartsDo
    <3> QED BY <2>1, <3>1, <3>2, LookLockEdit
  <2>4. GivesAll(Script(job), quits, files)
    BY <2>2, <2>3 DEF GivesAll, Does
  <2> QED BY <2>4 DEF files
<1>2. CASE job.tool = "vipw"
  <2>1. PICK f : f = IF "s" \in job.flags THEN "shadow" ELSE "passwd"
    OBVIOUS
  <2> DEFINE one == <<f>>
  <2>2. f \in Files /\ {f} \subseteq files
    BY <2>1 DEF Files
  <2>3. Script(job) = Test(f) \o LockAndOpen(one) \o Edit \o CloseAndUnlock(one)
    BY <1>2, <2>1 DEF Script, VipwScript
  <2>4. one \in Seq(Files) /\ Range(one) = {f}
    BY <2>2, OneFile
  <2> HIDE DEF one, files
  <2>5. GivesAll(Script(job), quits, {f})
    BY <2>2, <2>3, <2>4, LooksDo, PartsDo, LookLockEdit
  <2>6. GivesAll(Script(job), quits, files)
    BY <2>2, <2>5 DEF GivesAll, Does
  <2> QED BY <2>6 DEF files
<1> QED BY <1>1, <1>2

\* Every script gives back what it takes, and fail_exit knows of it.
LEMMA ScriptPays ==
  ASSUME NEW job, job.tool \in Tools
  PROVE  GivesAll(Script(job), Quits(job), Range(UnlockOrder(job)))
<1>1. Quits(job) \in SUBSET MayQuit
  BY DEF Quits, MayQuit
<1>2. CASE job.tool = "passwd"
  <2>1. Quits(job) = {"check", "read"}
    BY <1>2 DEF Quits, Needs
  <2> QED BY <1>2, <2>1, PasswdPays, UnlockOrders
<1>3. CASE job.tool \in {"chfn", "chsh", "vipw"}
  BY <1>1, <1>3, OnePays, UnlockOrders
<1>4. CASE job.tool \in {"chpasswd", "chage", "usermod", "pwck", "pwconv", "pwunconv"}
  BY <1>1, <1>4, UsersPay, UnlockOrders
<1>5. CASE job.tool \in {"gpasswd", "chgpasswd", "grpck", "grpconv", "grpunconv"}
  BY <1>1, <1>5, GroupsPay, UnlockOrders
<1> QED BY <1>2, <1>3, <1>4, <1>5 DEF Tools
(***************************************************************************)
(* What a step makes of a process.                                         *)
(***************************************************************************)
LEMMA IdleIsWork == IsWork(Idle)
BY DEF IsWork, Idle

\* A process with another script.
LEMMA NewScript ==
  ASSUME NEW w, NEW script, IsWork(w)
  PROVE  LET v == [w EXCEPT !.script = script]
         IN  IsWork(v) /\ v.script = script /\ v.job = w.job
BY DEF IsWork

\* A process that has passed the checks: it has looked at passwd, and keeps
\* of the ageing what it changes.
LEMMA CheckedWork ==
  ASSUME NEW w, NEW c, NEW age, IsWork(w), Known(w.job)
  PROVE  LET v == [w EXCEPT !.seen["passwd"] = c, !.job.age = age]
         IN  IsWork(v) /\ v.script = w.script /\ v.job.tool = w.job.tool /\ Known(v.job)
BY DEF IsWork, Known

LEMMA NobodyIsNone == None \notin Procs /\ None \notin Files
BY PasswordToolsAssumption DEF PasswordToolsAssumption

\* Only the owner of a lock gives it back.
LEMMA UnlockOwner ==
  ASSUME owner \in [Files -> Procs \cup {None}], NEW p \in Procs,
         NEW f, owner' = [owner EXCEPT ![f] = IF @ = p THEN None ELSE @]
  PROVE  /\ owner' \in [Files -> Procs \cup {None}]
         /\ \A q \in Procs \ {p}, g \in Files : owner'[g] = q <=> owner[g] = q
<1>1. None \notin Procs
  BY NobodyIsNone
<1>2. owner' \in [Files -> Procs \cup {None}]
  BY <1>1
<1>3. ASSUME NEW q \in Procs \ {p}, NEW g \in Files PROVE owner'[g] = q <=> owner[g] = q
  <2>1. owner'[g] = IF g = f /\ owner[g] = p THEN None ELSE owner[g]
    OBVIOUS
  <2> QED BY <1>1, <2>1
<1> QED BY <1>2, <1>3

\* A process that has ended has given back everything.
LEMMA EndedGivesBack ==
  ASSUME NEW held, NEW w, GivesBack(held, w), w.script = <<>>
  PROVE  held = {}
BY DEF GivesBack, Covers

LEMMA IdleGivesBack == GivesBack({}, Idle)
<1>1. Idle.script = <<>>
  BY DEF Idle
<1>2. \A quits : <<>> \in Seq(Calls) /\ Range(<<>>) = {} /\ Balanced(<<>>, quits)
  BY EmptySeq DEF Range, Balanced
<1> QED BY <1>1, <1>2 DEF GivesBack, LocksOf

\* A tool starts with nothing locked.
LEMMA ScriptGivesBack ==
  ASSUME NEW v, v.script = Script(v.job), Known(v.job)
  PROVE  GivesBack({}, v)
<1>1. GivesAll(v.script, Quits(v.job), Range(UnlockOrder(v.job)))
  BY ScriptPays DEF Known
<1>2. LocksOf(v.script) \subseteq Range(UnlockOrder(v.job))
  BY <1>1 DEF GivesAll, Does, LocksOf, Call
<1> QED BY <1>1, <1>2 DEF GivesBack, GivesAll, Does

LEMMA SameTool ==
  ASSUME NEW a, NEW b, a.tool = b.tool
  PROVE  Quits(a) = Quits(b) /\ UnlockOrder(a) = UnlockOrder(b)
BY DEF Quits, UnlockOrder

\* The next call is made: it may add its file to those locked, and an unlock
\* takes it away.
LEMMA ProceedGivesBack ==
  ASSUME NEW held, NEW w, GivesBack(held, w), w.script # <<>>,
         NEW new, NEW v, v.script = Tail(w.script), v.job.tool = w.job.tool, Known(v.job),
         \A f \in new : f \in held \/ (f \in Files /\ Head(w.script) = Call("lock", f)),
         \A f \in new : Head(w.script) # Call("unlock", f)
  PROVE  GivesBack(new, v)
<1> DEFINE s == w.script
           quits == Quits(w.job)
<1>1. s \in Seq(Calls) /\ s # <<>> /\ Balanced(s, quits)
  BY DEF GivesBack
<1>2. /\ held \cup LocksOf(s) \subseteq Range(UnlockOrder(w.job))
      /\ \A f \in held : Covers(s, 1, f, quits)
  BY DEF GivesBack
<1>3. Quits(v.job) = quits /\ UnlockOrder(v.job) = UnlockOrder(w.job) /\ v.script = Tail(s)
  BY SameTool
<1> HIDE DEF s, quits
<1>4. Head(s) \in Calls /\ Tail(s) \in Seq(Calls) /\ Len(Tail(s)) = Len(s) - 1
  BY <1>1, HeadTailProperties
<1>5. Head(s) \in Range(s) /\ Range(Tail(s)) \subseteq Range(s)
  BY <1>1, <1>4, HeadTailProperties, LenProperties DEF Range
<1>6. /\ Balanced(Tail(s), quits)
      /\ Head(s).do = "lock" => Covers(Tail(s), 1, Head(s).file, quits)
  BY <1>1, BalancedTail
<1>7. ASSUME NEW f \in new PROVE Covers(Tail(s), 1, f, quits)
  <2>1. Head(s) # Call("unlock", f)
    BY <1>7 DEF s
  <2>2. CASE f \in held
    BY <1>1, <1>2, <2>1, <2>2, CoversTail
  <2>3. CASE Head(s) = Call("lock", f)
    BY <1>6, <2>3 DEF Call
  <2> QED BY <1>7, <2>2, <2>3 DEF s
<1>8. new \cup LocksOf(Tail(s)) \subseteq held \cup LocksOf(s)
  BY <1>5 DEF LocksOf, s
<1> QED BY <1>2, <1>3, <1>4, <1>6, <1>7, <1>8 DEF GivesBack

\* The calls on a file that is not there are left out: none of its locks is
\* held then, for a tool looks before it locks.
LEMMA WithoutGivesBack ==
  ASSUME NEW held, NEW w, GivesBack(held, w), NEW f, f \notin held,
         NEW v, v.script = Without(w.script, f), v.job = w.job, Known(v.job)
  PROVE  GivesBack(held, v)
<1> DEFINE s == w.script
           quits == Quits(w.job)
<1>1. s \in Seq(Calls) /\ Balanced(s, quits) /\ \A g \in held : Covers(s, 1, g, quits)
  BY DEF GivesBack
<1>2. held \cup LocksOf(s) \subseteq Range(UnlockOrder(w.job))
  BY DEF GivesBack
<1>3. Quits(v.job) = quits /\ UnlockOrder(v.job) = UnlockOrder(w.job) /\ v.script = Without(s, f)
  BY SameTool
<1> HIDE DEF s, quits
<1>4. Without(s, f) \in Seq(Calls) /\ Range(Without(s, f)) \subseteq Range(s)
  BY <1>1, WithoutCalls
<1>5. Balanced(Without(s, f), quits)
  BY <1>1, BalancedWithout
<1>6. \A g \in held : Covers(Without(s, f), 1, g, quits)
  BY <1>1, CoversWithout
<1>7. LocksOf(Without(s, f)) \subseteq LocksOf(s)
  BY <1>4 DEF LocksOf
<1> QED BY <1>2, <1>3, <1>4, <1>5, <1>6, <1>7 DEF GivesBack

\* A tool that looks whether f is there goes on with all its calls, or with
\* those on the other files.
LEMMA TestGivesBack ==
  ASSUME NEW held, NEW w, GivesBack(held, w), w.script # <<>>,
         NEW f, Head(w.script) = Call("test", f), Known(w.job),
         NEW v, v.job = w.job, v.script \in {Tail(w.script), Without(Tail(w.script), f)}
  PROVE  GivesBack(held, v)
<1> DEFINE u == [job |-> w.job, script |-> Tail(w.script)]
<1>1. u.job = w.job /\ u.script = Tail(w.script)
  OBVIOUS
<1> HIDE DEF u
<1>2. \A g \in held : Head(w.script) # Call("unlock", g)
  BY DEF Call
<1>3. GivesBack(held, u)
  BY <1>1, <1>2, ProceedGivesBack
<1>4. f \notin held
  <2>1. w.script \in Seq(Calls) /\ \A g \in held : Covers(w.script, 1, g, Quits(w.job))
    BY DEF GivesBack
  <2> QED BY <2>1, CoversTail
<1>5. CASE v.script = Tail(w.script)
  BY <1>1, <1>3, <1>5 DEF GivesBack
<1>6. CASE v.script = Without(Tail(w.script), f)
  BY <1>1, <1>3, <1>4, <1>6, WithoutGivesBack
<1> QED BY <1>5, <1>6

\* fail_exit gives back all that is held.
LEMMA FailGivesBack ==
  ASSUME NEW p, GivesBack(Held(p), work[p]), work[p].script # <<>>,
         NEW v, v.job = work[p].job,
         v.script = UnlockHeld(UnlockOrder(work[p].job), owner, p)
  PROVE  GivesBack(Held(p), v)
<1> DEFINE order == UnlockOrder(work[p].job)
           s == UnlockHeld(order, owner, p)
           quits == Quits(work[p].job)
<1>1. Known(v.job)
  BY DEF GivesBack
<1>2. order \in Seq(Files)
  BY <1>1, UnlockOrders DEF Known
<1>3. \A f \in Files : Call("unlock", f) \in Calls
  BY DEF Call, Calls
<1>4. "unlock" \notin quits
  BY DEF Quits
<1>5. Held(p) \subseteq Range(order)
  BY DEF GivesBack
<1>6. Quits(v.job) = quits /\ UnlockOrder(v.job) = order /\ v.script = s
  OBVIOUS
<1> HIDE DEF order, quits
<1>7. /\ s \in Seq(Calls)
      /\ \A c \in Range(s) : c.do = "unlock"
      /\ Balanced(s, quits)
      /\ \A f \in Range(order) : owner[f] = p => Covers(s, 1, f, quits)
  BY <1>2, <1>3, <1>4, UnlockHeldCalls
<1> HIDE DEF s
<1>8. \A f \in Held(p) : Covers(s, 1, f, quits)
  BY <1>5, <1>7 DEF Held
<1>9. LocksOf(s) = {}
  BY <1>7 DEF LocksOf, Call
<1> QED BY <1>1, <1>5, <1>6, <1>7, <1>8, <1>9 DEF GivesBack

\* The record of every process.
LEMMA ProcWork == ASSUME LocksInv, NEW p \in Procs PROVE IsWork(work[p])
BY DEF LocksInv, Shape

\* A step of p that leaves the locks of the others alone.
LEMMA StepLocks ==
  ASSUME LocksInv, NEW p \in Procs, NEW v, IsWork(v), Becomes(p, v),
         owner' \in [Files -> Procs \cup {None}],
         \A q \in Procs \ {p}, f \in Files : owner'[f] = q <=> owner[f] = q,
         GivesBack(Held(p)', v)
  PROVE  LocksInv'
<1>1. /\ work'[p] = IF v.script = <<>> THEN Idle ELSE v
      /\ \A q \in Procs \ {p} : work'[q] = work[q]
      /\ work' = [q \in Procs |-> work'[q]]
  BY DEF Becomes, LocksInv, Shape
<1>2. ASSUME NEW q \in Procs, q # p PROVE GivesBack(Held(q)', work'[q]) /\ IsWork(work'[q])
  <2>1. Held(q)' = Held(q)
    BY <1>2 DEF Held
  <2> QED BY <1>1, <1>2, <2>1, ProcWork DEF LocksInv
<1>3. GivesBack(Held(p)', work'[p]) /\ IsWork(work'[p])
  <2>1. CASE v.script = <<>>
    BY <1>1, <2>1, EndedGivesBack, IdleGivesBack, IdleIsWork
  <2>2. CASE v.script # <<>>
    BY <1>1, <2>2
  <2> QED BY <2>1, <2>2
<1> QED BY <1>1, <1>2, <1>3 DEF LocksInv, Shape

\* One that locks and unlocks nothing.
LEMMA StepKeepsLocks ==
  ASSUME LocksInv, NEW p \in Procs, NEW v, IsWork(v), Becomes(p, v), owner' = owner,
         GivesBack(Held(p), v)
  PROVE  LocksInv'
<1>1. Held(p)' = Held(p) /\ owner' \in [Files -> Procs \cup {None}]
  BY DEF Held, LocksInv, Shape
<1> QED BY <1>1, StepLocks

\* The next call.
LEMMA ProceedLocks ==
  ASSUME LocksInv, NEW p \in Procs, work[p].script # <<>>,
         NEW v, IsWork(v), Proceed(p, v), v.script = work[p].script,
         v.job.tool = work[p].job.tool, Known(v.job),
         owner' \in [Files -> Procs \cup {None}],
         \A q \in Procs \ {p}, f \in Files : owner'[f] = q <=> owner[f] = q,
         \A f \in Files : owner'[f] = p =>
           /\ owner[f] = p \/ Head(work[p].script) = Call("lock", f)
           /\ Head(work[p].script) # Call("unlock", f)
  PROVE  LocksInv'
<1> DEFINE u == [v EXCEPT !.script = Tail(@)]
<1>1. Becomes(p, u)
  BY DEF Proceed
<1>2. IsWork(u) /\ u.script = Tail(v.script) /\ u.job = v.job
  BY NewScript
<1> HIDE DEF u
<1>3. GivesBack(Held(p), work[p])
  BY DEF LocksInv
<1>4. \A f \in Held(p)' : /\ f \in Held(p) \/ (f \in Files /\ Head(work[p].script) = Call("lock", f))
                          /\ Head(work[p].script) # Call("unlock", f)
  BY DEF Held
<1>5. GivesBack(Held(p)', u)
  BY <1>2, <1>3, <1>4, ProceedGivesBack
<1> QED BY <1>1, <1>2, <1>5, StepLocks

\* fail_exit.
LEMMA FailLocks ==
  ASSUME LocksInv, NEW p \in Procs, work[p].script # <<>>, FailExit(p), owner' = owner
  PROVE  LocksInv'
<1>1. PICK s : s = UnlockHeld(UnlockOrder(work[p].job), owner, p)
  OBVIOUS
<1> DEFINE v == [work[p] EXCEPT !.script = s]
<1>2. Becomes(p, v)
  BY <1>1 DEF FailExit
<1>3. IsWork(v) /\ v.script = s /\ v.job = work[p].job
  BY ProcWork, NewScript
<1> HIDE DEF v
<1>4. GivesBack(Held(p), v)
  BY <1>1, <1>3, FailGivesBack DEF LocksInv
<1> QED BY <1>2, <1>3, <1>4, StepKeepsLocks

\* The call that a process makes.
LEMMA CallNow ==
  ASSUME LocksInv, NEW p \in Procs, NEW do, Doing(p, do)
  PROVE  /\ work[p].script # <<>> /\ Known(work[p].job)
         /\ Head(work[p].script) = Call(do, Now(p))
<1>1. work[p].script # <<>> /\ Head(work[p].script).do = do
  BY DEF Doing
<1>2. work[p].script \in Seq(Calls) /\ Known(work[p].job)
  BY <1>1 DEF LocksInv, GivesBack
<1>3. Head(work[p].script) \in Calls
  BY <1>1, <1>2, HeadTailProperties
<1> QED BY <1>1, <1>2, <1>3 DEF Calls, Call, Now

\* A call that neither locks nor unlocks.
LEMMA ProceedUnlocked ==
  ASSUME LocksInv, NEW p \in Procs, NEW do, Doing(p, do), do # "unlock",
         NEW v, IsWork(v), Proceed(p, v), v.script = work[p].script,
         v.job.tool = work[p].job.tool, Known(v.job), owner' = owner
  PROVE  LocksInv'
<1>1. work[p].script # <<>> /\ Head(work[p].script) = Call(do, Now(p))
  BY CallNow
<1>2. \A f : Call(do, Now(p)) # Call("unlock", f)
  BY DEF Call
<1>3. owner' \in [Files -> Procs \cup {None}]
  BY DEF LocksInv, Shape
<1> QED BY <1>1, <1>2, <1>3, ProceedLocks

\* Nothing is locked where a tool may end at once.
LEMMA NoneAtQuit ==
  ASSUME LocksInv, NEW p \in Procs, NEW do \in Quits(work[p].job), Doing(p, do)
  PROVE  Held(p) = {}
<1>1. /\ work[p].script \in Seq(Calls)
      /\ \A f \in Held(p) : Covers(work[p].script, 1, f, Quits(work[p].job))
  BY DEF LocksInv, GivesBack
<1>2. \A f \in Held(p) : Head(work[p].script).do \notin Quits(work[p].job)
  BY <1>1, CoversTail
<1> QED BY <1>2 DEF Doing

\* No step of a tool, nor its death, leaves a lock that nobody gives back.
LEMMA LocksStep ==
  ASSUME LocksInv, [Next]_vars PROVE LocksInv'
<1>1. CASE UNCHANGED vars
  BY <1>1 DEF vars, LocksInv, Shape, Held
<1>2. CASE Next
  <2>1. PICK p \in Procs : Start(p) \/ Step(p) \/ Killed(p)
    BY <1>2 DEF Next
  <2> DEFINE w == work[p]
             n == Now(p)
  <2>2. IsWork(w) /\ GivesBack(Held(p), w)
    BY ProcWork DEF LocksInv
  <2>3. CASE Start(p)
    <3>1. PICK job \in Jobs : Becomes(p, [Idle EXCEPT !.job = job, !.script = Script(job)])
      BY <2>3 DEF Start
    <3>2. PICK script : script = Script(job)
      OBVIOUS
    <3> DEFINE v == [Idle EXCEPT !.job = job, !.script = script]
    <3>3. IsWork(v) /\ v.job = job /\ v.script = script
      BY DEF Idle, IsWork
    <3>4. Becomes(p, v)
      BY <3>1, <3>2
    <3> HIDE DEF v
    <3>5. Known(job)
      BY PasswordToolsAssumption DEF PasswordToolsAssumption, WellFormed, Known
    <3>6. GivesBack({}, v)
      BY <3>2, <3>3, <3>5, ScriptGivesBack
    <3>7. Held(p) = {} /\ owner' = owner
      <4>1. w = Idle /\ owner' = owner
        BY <2>3 DEF Start
      <4> QED BY <2>2, <4>1, EndedGivesBack DEF Idle
    <3> QED BY <3>3, <3>4, <3>6, <3>7, StepKeepsLocks
  <2>4. CASE TestFile(p)
    <3>1. Doing(p, "test") /\ owner' = owner
      BY <2>4 DEF TestFile
    <3>2. w.script # <<>> /\ Known(w.job) /\ Head(w.script) = Call("test", n)
      BY <3>1, CallNow
    <3>3. CASE Becomes(p, Idle) /\ w.job.tool \in Needs
      <4>1. "test" \in Quits(w.job)
        BY <3>3 DEF Quits
      <4>2. Held(p) = {}
        BY <3>1, <4>1, NoneAtQuit
      <4> QED BY <3>1, <3>3, <4>2, IdleIsWork, IdleGivesBack, StepKeepsLocks
    <3>4. CASE ~ (Becomes(p, Idle) /\ w.job.tool \in Needs)
      <4>1. PICK there, script :
                 /\ script \in {Tail(w.script), Without(Tail(w.script), n)}
                 /\ Becomes(p, [w EXCEPT !.seen[n] = there, !.script = script])
        BY <2>4, <3>4 DEF TestFile
      <4> DEFINE v == [w EXCEPT !.seen[n] = there, !.script = script]
      <4>2. IsWork(v) /\ v.script = script /\ v.job = w.job
        BY <2>2 DEF IsWork
      <4>3. Becomes(p, v)
        BY <4>1
      <4> HIDE DEF v, n
      <4>4. GivesBack(Held(p), v)
        BY <2>2, <3>2, <4>1, <4>2, TestGivesBack
      <4> QED BY <3>1, <4>2, <4>3, <4>4, StepKeepsLocks
    <3> QED BY <3>3, <3>4
  <2>5. CASE ReadFile(p)
    <3>1. Doing(p, "read") /\ owner' = owner
      BY <2>5 DEF ReadFile
    <3>2. CASE Becomes(p, Idle)
      <4>1. "read" \in Quits(w.job)
        BY DEF Quits
      <4>2. Held(p) = {}
        BY <3>1, <4>1, NoneAtQuit
      <4> QED BY <3>1, <3>2, <4>2, IdleIsWork, IdleGivesBack, StepKeepsLocks
    <3>3. CASE ~ Becomes(p, Idle)
      <4>1. PICK c : Proceed(p, [w EXCEPT !.seen[n] = c])
        BY <2>5, <3>3 DEF ReadFile
      <4> DEFINE v == [w EXCEPT !.seen[n] = c]
      <4>2. IsWork(v) /\ v.script = w.script /\ v.job = w.job
        BY <2>2 DEF IsWork
      <4>3. Proceed(p, v)
        BY <4>1
      <4> HIDE DEF v
      <4> QED BY <3>1, <4>2, <4>3, CallNow, ProceedUnlocked
    <3> QED BY <3>2, <3>3
  <2>6. CASE CheckJob(p)
    <3>1. Doing(p, "check") /\ owner' = owner
      BY <2>6 DEF CheckJob
    <3>2. CASE Becomes(p, Idle)
      <4>1. "check" \in Quits(w.job)
        BY DEF Quits
      <4>2. Held(p) = {}
        BY <3>1, <4>1, NoneAtQuit
      <4> QED BY <3>1, <3>2, <4>2, IdleIsWork, IdleGivesBack, StepKeepsLocks
    <3>3. CASE ~ Becomes(p, Idle)
      <4>1. PICK c, age : Proceed(p, [w EXCEPT !.seen["passwd"] = c, !.job.age = age])
        BY <2>6, <3>3 DEF CheckJob
      <4> DEFINE v == [w EXCEPT !.seen["passwd"] = c, !.job.age = age]
      <4>2. IsWork(v) /\ v.script = w.script /\ v.job.tool = w.job.tool /\ Known(v.job)
        BY <2>2, <3>1, CallNow, CheckedWork
      <4>3. Proceed(p, v)
        BY <4>1
      <4> HIDE DEF v
      <4> QED BY <3>1, <4>2, <4>3, ProceedUnlocked
    <3> QED BY <3>2, <3>3
  <2>7. CASE LockFile(p)
    <3>1. /\ Doing(p, "lock") /\ owner[n] = None /\ Proceed(p, w)
          /\ owner' = [owner EXCEPT ![n] = p]
      BY <2>7 DEF LockFile
    <3>2. w.script # <<>> /\ Known(w.job) /\ Head(w.script) = Call("lock", n)
      BY <3>1, CallNow
    <3>3. /\ owner' \in [Files -> Procs \cup {None}]
          /\ \A q \in Procs \ {p}, f \in Files : owner'[f] = q <=> owner[f] = q
      BY <3>1, NobodyIsNone DEF LocksInv, Shape
    <3>4. ASSUME NEW f \in Files, owner'[f] = p
          PROVE  /\ owner[f] = p \/ Head(w.script) = Call("lock", f)
                 /\ Head(w.script) # Call("unlock", f)
      <4>1. f = n \/ owner[f] = p
        BY <3>1, <3>4 DEF LocksInv, Shape
      <4>2. Head(w.script) # Call("unlock", f)
        <5>1. Call("lock", n).do = "lock" /\ Call("unlock", f).do = "unlock"
          BY DEF Call
        <5> QED BY <3>2, <5>1
      <4> QED BY <3>2, <4>1, <4>2
    <3> QED BY <2>2, <3>1, <3>2, <3>3, <3>4, ProceedLocks
  <2>8. CASE OpenFile(p)
    <3>1. PICK c : Proceed(p, [w EXCEPT !.mem[n] = c])
      BY <2>8 DEF OpenFile
    <3> DEFINE v == [w EXCEPT !.mem[n] = c]
    <3>2. Doing(p, "open") /\ owner' = owner /\ Proceed(p, v)
      BY <2>8, <3>1 DEF OpenFile
    <3>3. IsWork(v) /\ v.script = w.script /\ v.job = w.job
      BY <2>2 DEF IsWork
    <3> HIDE DEF v
    <3> QED BY <3>2, <3>3, CallNow, ProceedUnlocked
  <2>9. CASE EditFiles(p)
    <3>1. Doing(p, "edit") /\ owner' = owner
      BY <2>9 DEF EditFiles
    <3>2. w.script # <<>> /\ Known(w.job)
      BY <3>1, CallNow
    <3>3. CASE FailExit(p)
      BY <3>1, <3>2, <3>3, FailLocks
    <3>4. CASE ~ FailExit(p)
      <4>1. PICK mem : Proceed(p, [w EXCEPT !.mem = mem])
        BY <2>9, <3>4 DEF EditFiles
      <4> DEFINE v == [w EXCEPT !.mem = mem]
      <4>2. IsWork(v) /\ v.script = w.script /\ v.job = w.job
        BY <2>2 DEF IsWork
      <4>3. Proceed(p, v)
        BY <4>1
      <4> HIDE DEF v
      <4> QED BY <3>1, <3>2, <4>2, <4>3, ProceedUnlocked
    <3> QED BY <3>3, <3>4
  <2>10. CASE CloseFile(p)
    <3> DEFINE v == [w EXCEPT !.mem[n] = Closed, !.written = @ \cup {n}]
    <3>1. Doing(p, "close") /\ owner' = owner /\ Proceed(p, v)
      BY <2>10 DEF CloseFile
    <3>2. IsWork(v) /\ v.script = w.script /\ v.job = w.job
      BY <2>2 DEF IsWork
    <3> HIDE DEF v
    <3> QED BY <3>1, <3>2, CallNow, ProceedUnlocked
  <2>11. CASE UnlinkFile(p)
    <3> DEFINE v == [w EXCEPT !.mem[n] = Closed]
    <3>1. Doing(p, "unlink") /\ owner' = owner /\ Proceed(p, v)
      BY <2>11 DEF UnlinkFile
    <3>2. IsWork(v) /\ v.script = w.script /\ v.job = w.job
      BY <2>2 DEF IsWork
    <3> HIDE DEF v
    <3> QED BY <3>1, <3>2, CallNow, ProceedUnlocked
  <2>12. CASE UnlockFile(p)
    <3> DEFINE v == [w EXCEPT !.mem[n] = Closed]
    <3>1. /\ Doing(p, "unlock") /\ Proceed(p, v)
          /\ owner' = [owner EXCEPT ![n] = IF @ = p THEN None ELSE @]
      BY <2>12 DEF UnlockFile
    <3>2. IsWork(v) /\ v.script = w.script /\ v.job = w.job
      BY <2>2 DEF IsWork
    <3> HIDE DEF v
    <3>3. w.script # <<>> /\ Known(w.job) /\ Head(w.script) = Call("unlock", n)
      BY <3>1, CallNow
    <3>4. /\ owner' \in [Files -> Procs \cup {None}]
          /\ \A q \in Procs \ {p}, f \in Files : owner'[f] = q <=> owner[f] = q
      <4>1. owner \in [Files -> Procs \cup {None}]
        BY DEF LocksInv, Shape
      <4> QED BY <3>1, <4>1, UnlockOwner
    <3>5. ASSUME NEW f \in Files, owner'[f] = p
          PROVE  /\ owner[f] = p \/ Head(w.script) = Call("lock", f)
                 /\ Head(w.script) # Call("unlock", f)
      <4>1. owner'[f] = IF f = n /\ owner[f] = p THEN None ELSE owner[f]
        BY <3>1 DEF LocksInv, Shape
      <4>2. p # None
        BY NobodyIsNone
      <4>3. f # n /\ owner[f] = p
        BY <3>5, <4>1, <4>2
      <4>4. Call("unlock", f).file = f /\ Call("unlock", n).file = n
        BY DEF Call
      <4> QED BY <3>3, <4>3, <4>4
    <3> QED BY <3>1, <3>2, <3>3, <3>4, <3>5, ProceedLocks
  <2>13. CASE CallFails(p)
    <3>1. owner' = owner /\ FailExit(p) /\ w.script # <<>>
      BY <2>13 DEF CallFails, Doing
    <3> QED BY <3>1, FailLocks
  <2>14. CASE Killed(p)
    <3>1. /\ work' = [work EXCEPT ![p] = Idle]
          /\ owner' = [f \in Files |-> IF owner[f] = p THEN None ELSE owner[f]]
      BY <2>14 DEF Killed
    <3>2. Held(p)' = {}
      BY <3>1, NobodyIsNone DEF Held
    <3>3. /\ owner' \in [Files -> Procs \cup {None}]
          /\ \A q \in Procs \ {p}, f \in Files : owner'[f] = q <=> owner[f] = q
      <4>1. None \notin Procs
        BY NobodyIsNone
      <4>2. owner \in [Files -> Procs \cup {None}]
        BY DEF LocksInv, Shape
      <4> QED BY <3>1, <4>1, <4>2
    <3>4. Becomes(p, Idle)
      BY <3>1 DEF Becomes, Idle
    <3> QED BY <3>2, <3>3, <3>4, IdleIsWork, IdleGivesBack, StepLocks
  <2> QED
    BY <2>1, <2>3, <2>4, <2>5, <2>6, <2>7, <2>8, <2>9, <2>10, <2>11, <2>12, <2>13, <2>14
    DEF Step
<1> QED BY <1>1, <1>2

\* Main is entered without a lock.
LEMMA LocksInit == ASSUME Init PROVE LocksInv
<1>1. \A p \in Procs : work[p] = Idle /\ Held(p) = {}
  BY NobodyIsNone DEF Init, Held
<1>2. Shape
  BY <1>1, IdleIsWork DEF Init, Shape
<1> QED BY <1>1, <1>2, IdleGivesBack DEF LocksInv

\* A tool that has ended, well or not, has no lock: every path out of the
\* password and ageing tools, the checkers and the converters unlocks what it
\* has locked, also when the shadow file was not there and its calls were left
\* out (fail_exit of each tool, and the clean-up functions that gpasswd adds
\* in open_files and takes away in close_files).
THEOREM PasswordToolsLeaveNoLock ==
  ASSUME PasswordToolsAssumption PROVE Spec => []NothingHeldAtExit
<1>1. Init => LocksInv
  BY LocksInit
<1>2. LocksInv /\ [Next]_vars => LocksInv'
  BY LocksStep
<1>3. LocksInv => NothingHeldAtExit
  <2> SUFFICES ASSUME LocksInv, NEW p \in Procs, work[p] = Idle, NEW f \in Files
               PROVE  owner[f] # p
    BY DEF NothingHeldAtExit
  <2>1. Held(p) = {}
    BY EndedGivesBack DEF LocksInv, Idle
  <2> QED BY <2>1 DEF Held
<1> QED BY <1>1, <1>2, <1>3, PTL DEF Spec

(***************************************************************************)
(* The order of the calls.                                                 *)
(***************************************************************************)
CallsOf(dos) == {c \in Calls : c.do \in dos}

Before == CallsOf({"test", "read", "check", "lock", "open"})
After  == CallsOf({"close", "unlink", "unlock"})
Editing == Call("edit", None)

Writes(f) == {Call("close", f), Call("unlink", f)}
Leaves(f) == Writes(f) \cup {Call("unlock", f)}

UserTools == {"passwd", "chpasswd", "chage", "chfn", "chsh", "usermod", "vipw", "pwck",
              "pwconv", "pwunconv"}
Checkers  == {"pwck", "pwconv", "grpck", "grpconv"}

\* A tool edits once, between what it opens and what it writes; it writes a
\* file once, and as long as it has it.
EditsOnce(s) ==
  /\ Never(s, {Editing} \cup After, Before \cup {Editing})
  /\ \A f \in Files : Never(s, Leaves(f), Writes(f))

\* All but vipw write shadow before they give passwd back, and the checkers
\* write both files before they give back one.
ShadowFirst(s) == Never(s, {Call("unlock", "passwd")}, Writes("shadow"))
WritesFirst(s) == \A f, g \in Files : Never(s, {Call("unlock", f)}, Writes(g))

\* What passwd and gpasswd open they have looked for.
TestedFirst(s) == \A f \in Files : Never(s, {Call("open", f)}, {Call("test", f)})

Ordered(s, tool) ==
  /\ s \in Seq(Calls)
  /\ EditsOnce(s)
  /\ tool # "vipw" => ShadowFirst(s)
  /\ tool \in Checkers => WritesFirst(s)
  /\ tool = "passwd" => Never(s, {Call("test", "shadow")}, {Call("lock", "passwd")})
  /\ tool = "gpasswd" => Never(s, {Call("check", None)}, {Call("read", "group")})
  /\ tool \in {"passwd", "gpasswd"} => TestedFirst(s)

\* Two calls are the same when they do the same with the same file.
LEMMA SameCall ==
  /\ \A do, f : Call(do, f).do = do /\ Call(do, f).file = f
  /\ \A do, f, d, g : Call(do, f) = Call(d, g) => do = d /\ f = g
BY DEF Call

\* The calls of which Never speaks are calls.
LEMMA KnownCalls ==
  /\ \A f \in Files : /\ Call("close", f) \in After /\ Call("unlink", f) \in After
                      /\ Call("unlock", f) \in After
                      /\ Call("lock", f) \in Before /\ Call("open", f) \in Before
                      /\ Call("test", f) \in Before /\ Call("read", f) \in Before
  /\ Call("check", None) \in Before
  /\ Editing \in Calls /\ Before \subseteq Calls /\ After \subseteq Calls
  /\ Editing \notin Before /\ Editing \notin After
  /\ \A c : c \in Before => c \notin After
  /\ \A f : Call("unlock", f) \notin Writes(f) /\ Editing \notin Leaves(f)
  /\ \A f, g : Call("unlock", f) \notin Writes(g)
BY DEF Call, Calls, CallsOf, Before, After, Editing, Writes, Leaves

\* What comes after the edit.
GoodBack(s) ==
  /\ s \in Seq(Calls) /\ Range(s) \subseteq After
  /\ \A f \in Files : Never(s, Leaves(f), Writes(f))
GoodFront(s) == s \in Seq(Calls) /\ Range(s) \subseteq Before

LEMMA EditCall == Edit \in Seq(Calls) /\ Range(Edit) = {Editing} /\ \A A, B : Never(Edit, A, B)
<1>1. Edit = <<Editing>> /\ Editing \in Calls
  BY KnownCalls DEF Edit, Editing
<1> HIDE DEF Editing
<1>2. <<Editing>> \in Seq(Calls) /\ Range(<<Editing>>) = {Editing}
  BY <1>1, Single
<1> QED BY <1>1, <1>2, NeverOne

\* The calls of a script are those of its parts.
LEMMA ScriptRange ==
  ASSUME NEW front, GoodFront(front), NEW back, GoodBack(back)
  PROVE  /\ front \o Edit \o back \in Seq(Calls)
         /\ Range(front \o Edit \o back) = Range(front) \cup {Editing} \cup Range(back)
<1>1. front \in Seq(Calls) /\ back \in Seq(Calls) /\ Edit \in Seq(Calls) /\ Range(Edit) = {Editing}
  BY EditCall DEF GoodFront, GoodBack
<1>2. front \o Edit \in Seq(Calls) /\ Range(front \o Edit) = Range(front) \cup {Editing}
  BY <1>1, ConcatProperties, RangeConcatenation
<1> DEFINE a == front \o Edit
<1> HIDE DEF a
<1>3. a \in Seq(Calls) /\ Range(a) = Range(front) \cup {Editing}
  BY <1>2 DEF a
<1>4. a \o back \in Seq(Calls)
  BY <1>1, <1>3, ConcatProperties
<1>5. Range(a \o back) = Range(a) \cup Range(back)
  BY <1>1, <1>3, RangeConcatenation
<1> QED BY <1>3, <1>4, <1>5 DEF a

\* What never comes after what, before the edit or after it, and from one
\* side of it to the other.
LEMMA ScriptNever ==
  ASSUME NEW front, GoodFront(front), NEW back, GoodBack(back), NEW A, NEW B,
         Never(front, A, B), Never(back, A, B),
         \/ A \cap (Before \cup {Editing}) = {}
         \/ B \cap (After \cup {Editing}) = {}
  PROVE  Never(front \o Edit \o back, A, B)
<1>1. /\ front \in Seq(Calls) /\ back \in Seq(Calls) /\ Edit \in Seq(Calls)
      /\ Range(Edit) = {Editing} /\ Never(Edit, A, B)
      /\ Range(front) \subseteq Before /\ Range(back) \subseteq After
  BY EditCall DEF GoodFront, GoodBack
<1>2. Never(front \o Edit, A, B)
  BY <1>1, NeverThen
<1>3. front \o Edit \in Seq(Calls) /\ Range(front \o Edit) \subseteq Before \cup {Editing}
  BY <1>1, ConcatProperties, RangeConcatenation
<1> QED BY <1>1, <1>2, <1>3, NeverThen

LEMMA ScriptEditsOnce ==
  ASSUME NEW front, GoodFront(front), NEW back, GoodBack(back)
  PROVE  EditsOnce(front \o Edit \o back)
<1> DEFINE A == {Editing} \cup After
           B == Before \cup {Editing}
<1>1. /\ front \in Seq(Calls) /\ back \in Seq(Calls) /\ Edit \in Seq(Calls)
      /\ Range(Edit) = {Editing} /\ Never(Edit, A, B)
      /\ Range(front) \subseteq Before /\ Range(back) \subseteq After
  BY EditCall DEF GoodFront, GoodBack
<1>2. \A c \in Range(front) : c \notin A
  BY <1>1, KnownCalls
<1>3. \A c \in Range(back) : c \notin B
  BY <1>1, KnownCalls
<1> HIDE DEF A, B
<1>4. Never(front, A, B) /\ Never(back, A, B)
  BY <1>2, <1>3, NeverNone
<1>5. Never(front \o Edit, A, B)
  BY <1>1, <1>2, <1>4, NeverThen
<1>6. front \o Edit \in Seq(Calls)
  BY <1>1, ConcatProperties
<1>7. Never((front \o Edit) \o back, A, B)
  BY <1>1, <1>3, <1>4, <1>5, <1>6, NeverThen
<1>8. ASSUME NEW f \in Files PROVE Never(front \o Edit \o back, Leaves(f), Writes(f))
  <2>1. Leaves(f) \cap (Before \cup {Editing}) = {}
    BY KnownCalls DEF Leaves, Writes
  <2>2. Never(front, Leaves(f), Writes(f))
    <3>1. \A c \in Range(front) : c \notin Leaves(f)
      BY <1>1, <2>1
    <3> QED BY <3>1, NeverNone
  <2>3. Never(back, Leaves(f), Writes(f))
    BY DEF GoodBack
  <2> QED BY <2>1, <2>2, <2>3, ScriptNever
<1> QED BY <1>7, <1>8 DEF EditsOnce, A, B

LEMMA ScriptShadowFirst ==
  ASSUME NEW front, GoodFront(front), NEW back, GoodBack(back), ShadowFirst(back)
  PROVE  ShadowFirst(front \o Edit \o back)
<1> DEFINE A == {Call("unlock", "passwd")}
           B == Writes("shadow")
<1>1. A \cap (Before \cup {Editing}) = {}
  BY KnownCalls DEF Files
<1>2. Never(back, A, B) /\ \A c \in Range(front) : c \notin A
  BY <1>1 DEF ShadowFirst, GoodFront
<1> HIDE DEF A, B
<1>3. Never(front, A, B)
  BY <1>2, NeverNone
<1>4. Never(front \o Edit \o back, A, B)
  BY <1>1, <1>2, <1>3, ScriptNever
<1> QED BY <1>4 DEF A, B, ShadowFirst

LEMMA ScriptWritesFirst ==
  ASSUME NEW front, GoodFront(front), NEW back, GoodBack(back), WritesFirst(back)
  PROVE  WritesFirst(front \o Edit \o back)
<1> SUFFICES ASSUME NEW f \in Files, NEW g \in Files
             PROVE  Never(front \o Edit \o back, {Call("unlock", f)}, Writes(g))
  BY DEF WritesFirst
<1> DEFINE A == {Call("unlock", f)}
           B == Writes(g)
<1>1. A \cap (Before \cup {Editing}) = {}
  BY KnownCalls
<1>2. Never(back, A, B) /\ \A c \in Range(front) : c \notin A
  BY <1>1 DEF WritesFirst, GoodFront
<1> HIDE DEF A, B
<1>3. Never(front, A, B)
  BY <1>2, NeverNone
<1>4. Never(front \o Edit \o back, A, B)
  BY <1>1, <1>2, <1>3, ScriptNever
<1> QED BY <1>4 DEF A, B

\* What never comes after what before the edit.
LEMMA ScriptNeverBefore ==
  ASSUME NEW front, GoodFront(front), NEW back, GoodBack(back),
         NEW c \in Before, NEW d \in Before, Never(front, {c}, {d})
  PROVE  Never(front \o Edit \o back, {c}, {d})
<1>1. {d} \cap (After \cup {Editing}) = {}
  BY KnownCalls
<1>2. \A e \in Range(back) : e \notin {d}
  BY <1>1 DEF GoodBack
<1>3. Never(back, {c}, {d})
  BY <1>2, NeverNone
<1> QED BY <1>1, <1>3, ScriptNever

\* What comes after the edit, in the forms that the tools have it.
LEMMA CloseUnlockCalls ==
  ASSUME NEW list \in Seq(Files) PROVE CloseAndUnlock(list) \in Seq(Calls)
<1>1. \A h \in Files : Call("close", h) \in Calls /\ Call("unlock", h) \in Calls
  BY KnownCalls
<1>2. EachTwo("close", "unlock", list) \in Seq(Calls)
  BY <1>1, EachTwoCalls
<1> QED BY <1>2 DEF CloseAndUnlock

LEMMA CloseUnlockOne ==
  ASSUME NEW f \in Files
  PROVE  LET s == CloseAndUnlock(<<f>>)
         IN  /\ GoodBack(s) /\ ShadowFirst(s)
             /\ Range(s) = {Call("close", f), Call("unlock", f)}
<1> DEFINE files == <<f>>
           s == CloseAndUnlock(files)
<1>1. files \in Seq(Files) /\ Len(files) = 1 /\ files[1] = f
  OBVIOUS
<1> HIDE DEF files
<1>2. DOMAIN s = 1 .. 2 /\ s[1] = Call("close", f) /\ s[2] = Call("unlock", f)
  BY <1>1, ShortEachTwo DEF CloseAndUnlock
<1>3. s \in Seq(Calls)
  BY <1>1, CloseUnlockCalls
<1> HIDE DEF s
<1>4. s[1] \in After /\ s[2] \in After
  BY <1>2, KnownCalls
<1>5. \A g \in Files : s[1] \notin {Call("unlock", "passwd")} /\ s[2] \notin Writes(g)
  BY <1>2, SameCall DEF Writes
<1>6. Range(s) = {s[1], s[2]}
  BY <1>2 DEF Range
<1>7. \A g \in Files : Never(s, Leaves(g), Writes(g))
  BY <1>2, <1>5 DEF Never
<1>8. ShadowFirst(s)
  BY <1>2, <1>5 DEF Never, ShadowFirst
<1> QED BY <1>2, <1>3, <1>4, <1>6, <1>7, <1>8 DEF GoodBack, s, files

LEMMA CloseUnlockTwo ==
  ASSUME NEW f \in Files, NEW g \in Files, f # g, f # "passwd"
  PROVE  LET s == CloseAndUnlock(<<f, g>>)
         IN  /\ GoodBack(s) /\ ShadowFirst(s)
             /\ Range(s) = {Call("close", f), Call("unlock", f), Call("close", g), Call("unlock", g)}
<1> DEFINE files == <<f, g>>
           s == CloseAndUnlock(files)
<1>1. files \in Seq(Files) /\ Len(files) = 2 /\ files[1] = f /\ files[2] = g
  OBVIOUS
<1> HIDE DEF files
<1>2. /\ DOMAIN s = 1 .. 4
      /\ s[1] = Call("close", f) /\ s[2] = Call("unlock", f)
      /\ s[3] = Call("close", g) /\ s[4] = Call("unlock", g)
  BY <1>1, ShortEachTwo DEF CloseAndUnlock
<1>3. s \in Seq(Calls)
  BY <1>1, CloseUnlockCalls
<1> HIDE DEF s
<1>4. \A i \in 1 .. 4 : s[i] \in After
  BY <1>2, KnownCalls
<1>5. \A h \in Files : /\ s[2] \notin Writes(h) /\ s[4] \notin Writes(h)
                       /\ s[1] \in Leaves(h) \/ s[2] \in Leaves(h) => s[3] \notin Writes(h)
  BY <1>2, SameCall DEF Writes, Leaves
<1>6. /\ s[1] # Call("unlock", "passwd") /\ s[2] # Call("unlock", "passwd")
      /\ s[3] # Call("unlock", "passwd")
  BY <1>2, SameCall
<1>7. Range(s) = {s[1], s[2], s[3], s[4]}
  BY <1>2 DEF Range
<1>8. \A h \in Files : Never(s, Leaves(h), Writes(h))
  BY <1>2, <1>5 DEF Never
<1>9. ShadowFirst(s)
  BY <1>2, <1>6 DEF Never, ShadowFirst
<1> QED BY <1>2, <1>3, <1>4, <1>7, <1>8, <1>9 DEF GoodBack, s, files

\* Unlocks, at the end.
LEMMA UnlocksLast ==
  ASSUME NEW s, GoodBack(s), \A f : Call("unlock", f) \notin Range(s), NEW list \in Seq(Files)
  PROVE  LET t == s \o Each("unlock", list)
         IN  /\ GoodBack(t) /\ ShadowFirst(t) /\ WritesFirst(t)
             /\ Range(t) = Range(s) \cup {Call("unlock", f) : f \in Range(list)}
<1> DEFINE u == Each("unlock", list)
<1>1. /\ u \in Seq(Calls) /\ Range(u) = {Call("unlock", f) : f \in Range(list)}
      /\ \A f \in Range(list) : f \in Files
  <2>1. \A f \in Files : Call("unlock", f) \in Calls
    BY KnownCalls
  <2>2. \A f \in Range(list) : f \in Files
    BY LenProperties DEF Range
  <2> QED BY <2>1, <2>2, EachCalls
<1> HIDE DEF u
<1>2. s \in Seq(Calls) /\ Range(s) \subseteq After /\ \A f \in Files : Never(s, Leaves(f), Writes(f))
  BY DEF GoodBack
<1>3. s \o u \in Seq(Calls) /\ Range(s \o u) = Range(s) \cup Range(u)
  BY <1>1, <1>2, ConcatProperties, RangeConcatenation
<1>4. Range(u) \subseteq After
  BY <1>1, KnownCalls
<1>5. \A c \in Range(u) : \A g : c \notin Writes(g)
  BY <1>1, KnownCalls
<1>6. \A f \in Files : Never(s \o u, Leaves(f), Writes(f))
  <2> TAKE f \in Files
  <2>1. Never(u, Leaves(f), Writes(f))
    BY <1>5, NeverNone
  <2> QED BY <1>1, <1>2, <1>5, <2>1, NeverThen
<1>7. \A f, g : Never(s \o u, {Call("unlock", f)}, Writes(g))
  <2> TAKE f, g
  <2>1. \A c \in Range(s) : c \notin {Call("unlock", f)}
    OBVIOUS
  <2>2. Never(s, {Call("unlock", f)}, Writes(g)) /\ Never(u, {Call("unlock", f)}, Writes(g))
    BY <1>5, <2>1, NeverNone
  <2> QED BY <1>1, <1>2, <2>1, <2>2, NeverThen
<1> QED BY <1>1, <1>2, <1>3, <1>4, <1>6, <1>7 DEF u, GoodBack, ShadowFirst, WritesFirst

\* A call on one file and a call on another.
LEMMA TwoWrites ==
  ASSUME NEW f \in Files, NEW g \in Files, f # g, NEW s, DOMAIN s = 1 .. 2, s \in Seq(Calls),
         s[1] \in Writes(f), s[2] \in Writes(g)
  PROVE  /\ GoodBack(s) /\ Range(s) = {s[1], s[2]}
         /\ \A h : Call("unlock", h) \notin Range(s)
<1>1. s[1] \in After /\ s[2] \in After /\ \A h : Call("unlock", h) \notin {s[1], s[2]}
  BY KnownCalls, SameCall DEF Writes
<1>2. \A h \in Files : s[1] \in Leaves(h) => s[2] \notin Writes(h)
  BY SameCall DEF Writes, Leaves
<1>3. Range(s) = {s[1], s[2]}
  BY DEF Range
<1>4. \A h \in Files : Never(s, Leaves(h), Writes(h))
  BY <1>2 DEF Never
<1> QED BY <1>1, <1>3, <1>4 DEF GoodBack

\* Both files closed, before the unlocks.
LEMMA ClosesThenUnlocks ==
  ASSUME NEW f \in Files, NEW g \in Files, f # g, NEW list \in Seq(Files), Range(list) = {f, g}
  PROVE  LET t == Each("close", <<f, g>>) \o Each("unlock", list)
         IN  /\ GoodBack(t) /\ ShadowFirst(t) /\ WritesFirst(t)
             /\ Range(t) = {Call("close", f), Call("close", g), Call("unlock", f), Call("unlock", g)}
<1> DEFINE a == Call("close", f)
           b == Call("close", g)
           s == <<a, b>>
<1>1. s = Each("close", <<f, g>>)
  BY ShortEach
<1>2. a \in Writes(f) /\ b \in Writes(g) /\ a \in Calls /\ b \in Calls
  BY KnownCalls DEF Writes
<1> HIDE DEF a, b
<1>3. DOMAIN s = 1 .. 2 /\ s \in Seq(Calls) /\ s[1] = a /\ s[2] = b
  BY <1>2
<1> HIDE DEF s
<1>4. GoodBack(s) /\ Range(s) = {a, b} /\ \A h : Call("unlock", h) \notin Range(s)
  BY <1>2, <1>3, TwoWrites
<1>5. LET t == s \o Each("unlock", list)
      IN  /\ GoodBack(t) /\ ShadowFirst(t) /\ WritesFirst(t)
          /\ Range(t) = {a, b} \cup {Call("unlock", h) : h \in Range(list)}
  BY <1>4, UnlocksLast
<1>6. {Call("unlock", h) : h \in Range(list)} = {Call("unlock", f), Call("unlock", g)}
  OBVIOUS
<1> QED BY <1>1, <1>5, <1>6 DEF a, b

\* One closed and the other removed.
LEMMA UnlinkThenUnlocks ==
  ASSUME NEW f \in Files, NEW g \in Files, f # g, NEW list \in Seq(Files), Range(list) = {f, g}
  PROVE  LET t == (Each("close", <<f>>) \o Each("unlink", <<g>>)) \o Each("unlock", list)
         IN  /\ GoodBack(t) /\ ShadowFirst(t) /\ WritesFirst(t)
             /\ Range(t) = {Call("close", f), Call("unlink", g), Call("unlock", f), Call("unlock", g)}
<1> DEFINE a == Call("close", f)
           b == Call("unlink", g)
           x == <<a>>
           y == <<b>>
           s == x \o y
<1>1. x = Each("close", <<f>>) /\ y = Each("unlink", <<g>>)
  BY ShortEach
<1>2. a \in Writes(f) /\ b \in Writes(g) /\ a \in Calls /\ b \in Calls
  BY KnownCalls DEF Writes
<1> HIDE DEF a, b
<1>3. /\ x \in Seq(Calls) /\ y \in Seq(Calls) /\ Len(x) = 1 /\ Len(y) = 1 /\ x[1] = a /\ y[1] = b
      /\ DOMAIN x = 1 .. 1 /\ DOMAIN y = 1 .. 1
  BY <1>2
<1> HIDE DEF x, y
<1>4. DOMAIN s = 1 .. 2 /\ s \in Seq(Calls) /\ s[1] = a /\ s[2] = b
  <2>1. /\ s \in Seq(Calls) /\ Len(s) = 1 + 1
        /\ \A i \in 1 .. 1 + 1 : s[i] = IF i <= 1 THEN x[i] ELSE y[i - 1]
    BY <1>3, ConcatProperties
  <2> HIDE DEF s
  <2>2. DOMAIN s = 1 .. 2
    BY <2>1, LenProperties
  <2> QED BY <1>3, <2>1, <2>2
<1> HIDE DEF s
<1>5. GoodBack(s) /\ Range(s) = {a, b} /\ \A h : Call("unlock", h) \notin Range(s)
  BY <1>2, <1>4, TwoWrites
<1>6. LET t == s \o Each("unlock", list)
      IN  /\ GoodBack(t) /\ ShadowFirst(t) /\ WritesFirst(t)
          /\ Range(t) = {a, b} \cup {Call("unlock", h) : h \in Range(list)}
  BY <1>5, UnlocksLast
<1>7. {Call("unlock", h) : h \in Range(list)} = {Call("unlock", f), Call("unlock", g)}
  OBVIOUS
<1> QED BY <1>1, <1>6, <1>7 DEF a, b, s

\* The files of a tool: the one with the accounts or groups, its shadow, those
\* that it locks and the one that it removes, and what it looks at first.
TableOf(tool)  == IF tool \in UserTools THEN "passwd" ELSE "group"
ShadowOf(tool) == IF tool \in UserTools THEN "shadow" ELSE "gshadow"
VipwFile(job)  == IF "s" \in job.flags THEN "shadow" ELSE "passwd"

FilesOf(job) ==
  CASE job.tool \in {"chfn", "chsh"} -> {"passwd"}
    [] job.tool = "vipw" -> {VipwFile(job)}
    [] OTHER -> {TableOf(job.tool), ShadowOf(job.tool)}

Gone(job) == IF job.tool \in {"pwunconv", "grpunconv"} THEN {ShadowOf(job.tool)} ELSE {}

Looks(job) ==
  (IF job.tool \in {"passwd", "chfn", "chsh", "usermod", "gpasswd"} THEN {Call("check", None)} ELSE {})
  \cup (IF job.tool \in {"chfn", "chsh", "pwconv", "grpconv"} THEN {}
        ELSE IF job.tool = "vipw" THEN {Call("test", VipwFile(job))}
        ELSE {Call("test", ShadowOf(job.tool))})
  \cup (IF job.tool = "gpasswd" THEN {Call("read", "group"), Call("read", "gshadow")} ELSE {})

\* All the calls of a script.
Locks(c, files) == \E f \in files : c = Call("lock", f) \/ c = Call("open", f)
Frees(c, files, gone) ==
  \/ \E f \in files : c = Call("unlock", f)
  \/ \E f \in files \ gone : c = Call("close", f)
  \/ \E f \in gone : c = Call("unlink", f)

Makes(s, looks, files, gone) ==
  \A c : c \in Range(s) <=>
           c \in looks \/ Locks(c, files) \/ c = Editing \/ Frees(c, files, gone)

LEMMA LockRange ==
  ASSUME NEW list \in Seq(Files)
  PROVE  /\ LockAndOpen(list) \in Seq(Calls) /\ \A c : c \in Range(LockAndOpen(list)) <=> Locks(c, Range(list))
         /\ LockThenOpen(list) \in Seq(Calls) /\ \A c : c \in Range(LockThenOpen(list)) <=> Locks(c, Range(list))
<1>1. \A f \in Files : Call("lock", f) \in Calls /\ Call("open", f) \in Calls
  BY KnownCalls
<1> DEFINE one == "lock"
           other == "open"
           t == EachTwo(one, other, list)
<1>2. t = LockAndOpen(list) /\ one = "lock" /\ other = "open"
  BY DEF LockAndOpen
<1> HIDE DEF one, other
<1>3. /\ t \in Seq(Calls)
      /\ \A c : c \in Range(t) <=> \E f \in Range(list) : c = Call(one, f) \/ c = Call(other, f)
  BY <1>1, <1>2, EachTwoCalls
<1> HIDE DEF t
<1> DEFINE a == Each("lock", list)
           b == Each("open", list)
<1>4. /\ a \in Seq(Calls) /\ Range(a) = {Call("lock", f) : f \in Range(list)}
      /\ b \in Seq(Calls) /\ Range(b) = {Call("open", f) : f \in Range(list)}
  BY <1>1, EachCalls
<1> HIDE DEF a, b
<1>5. a \o b \in Seq(Calls) /\ Range(a \o b) = Range(a) \cup Range(b)
  BY <1>4, ConcatProperties, RangeConcatenation
<1>6. \A c : c \in Range(a \o b) <=> \E f \in Range(list) : c = Call("lock", f) \/ c = Call("open", f)
  BY <1>4, <1>5
<1> QED BY <1>2, <1>5, <1>6, <1>3 DEF LockThenOpen, Locks, a, b

\* What is looked at, and then what is locked and opened.
LEMMA FrontFact ==
  ASSUME NEW look, GoodFront(look), NEW lock \in Seq(Calls), NEW files \in SUBSET Files,
         \A c : c \in Range(lock) <=> Locks(c, files)
  PROVE  /\ GoodFront(look \o lock)
         /\ \A c : c \in Range(look \o lock) <=> c \in Range(look) \/ Locks(c, files)
<1>1. look \in Seq(Calls) /\ Range(look) \subseteq Before
  BY DEF GoodFront
<1>2. look \o lock \in Seq(Calls) /\ Range(look \o lock) = Range(look) \cup Range(lock)
  BY <1>1, ConcatProperties, RangeConcatenation
<1>3. Range(lock) \subseteq Before
  BY KnownCalls DEF Locks
<1> QED BY <1>1, <1>2, <1>3 DEF GoodFront

\* A script of the usual form.
LEMMA UsualScript ==
  ASSUME NEW front, GoodFront(front), NEW back, GoodBack(back), NEW looks, NEW files, NEW gone,
         \A c : c \in Range(front) <=> c \in looks \/ Locks(c, files),
         \A c : c \in Range(back) <=> Frees(c, files, gone),
         NEW tool, ShadowFirst(back), tool \in Checkers => WritesFirst(back),
         tool = "passwd" => Never(front, {Call("test", "shadow")}, {Call("lock", "passwd")}),
         tool = "gpasswd" => Never(front, {Call("check", None)}, {Call("read", "group")}),
         tool \in {"passwd", "gpasswd"} => TestedFirst(front)
  PROVE  /\ Ordered(front \o Edit \o back, tool)
         /\ Makes(front \o Edit \o back, looks, files, gone)
<1> DEFINE s == front \o Edit \o back
<1>1. s \in Seq(Calls) /\ Range(s) = Range(front) \cup {Editing} \cup Range(back)
  BY ScriptRange
<1>2. EditsOnce(s) /\ ShadowFirst(s) /\ (tool \in Checkers => WritesFirst(s))
  BY ScriptEditsOnce, ScriptShadowFirst, ScriptWritesFirst
<1>3. /\ Call("test", "shadow") \in Before /\ Call("lock", "passwd") \in Before
      /\ Call("check", None) \in Before /\ Call("read", "group") \in Before
  BY KnownCalls DEF Files
<1>4. tool = "passwd" => Never(s, {Call("test", "shadow")}, {Call("lock", "passwd")})
  BY <1>3, ScriptNeverBefore
<1>5. tool = "gpasswd" => Never(s, {Call("check", None)}, {Call("read", "group")})
  BY <1>3, ScriptNeverBefore
<1>6. ASSUME TestedFirst(front) PROVE TestedFirst(s)
  <2> SUFFICES ASSUME NEW f \in Files PROVE Never(s, {Call("open", f)}, {Call("test", f)})
    BY DEF TestedFirst
  <2>1. Call("open", f) \in Before /\ Call("test", f) \in Before
    BY KnownCalls
  <2>2. Never(front, {Call("open", f)}, {Call("test", f)})
    BY <1>6 DEF TestedFirst
  <2> DEFINE open == Call("open", f)
             test == Call("test", f)
  <2> HIDE DEF open, test, s
  <2>3. Never(s, {open}, {test})
    BY <2>1, <2>2, ScriptNeverBefore DEF open, test, s
  <2> QED BY <2>3 DEF open, test
<1> HIDE DEF s
<1>7. Makes(s, looks, files, gone)
  BY <1>1 DEF Makes
<1>8. Ordered(s, tool)
  BY <1>1, <1>2, <1>4, <1>5, <1>6 DEF Ordered
<1> QED BY <1>7, <1>8 DEF s

\* Looks at files.
LEMMA GoodLooks ==
  /\ Check \in Seq(Calls) /\ GoodFront(Check) /\ Range(Check) = {Call("check", None)}
  /\ \A f \in Files : /\ Test(f) \in Seq(Calls) /\ GoodFront(Test(f)) /\ Range(Test(f)) = {Call("test", f)}
                      /\ Read(f) \in Seq(Calls) /\ GoodFront(Read(f)) /\ Range(Read(f)) = {Call("read", f)}
<1>1. ASSUME NEW c \in Before
      PROVE  <<c>> \in Seq(Calls) /\ GoodFront(<<c>>) /\ Range(<<c>>) = {c}
  <2>1. <<c>> \in Seq(Calls) /\ Range(<<c>>) = {c}
    BY KnownCalls, Single
  <2> QED BY <2>1 DEF GoodFront
<1> DEFINE check == Call("check", None)
<1>2. <<check>> \in Seq(Calls) /\ GoodFront(<<check>>) /\ Range(<<check>>) = {check}
  BY <1>1, KnownCalls
<1>3. ASSUME NEW f \in Files
      PROVE  /\ Test(f) \in Seq(Calls) /\ GoodFront(Test(f)) /\ Range(Test(f)) = {Call("test", f)}
             /\ Read(f) \in Seq(Calls) /\ GoodFront(Read(f)) /\ Range(Read(f)) = {Call("read", f)}
  <2> DEFINE test == Call("test", f)
             read == Call("read", f)
  <2>1. <<test>> \in Seq(Calls) /\ GoodFront(<<test>>) /\ Range(<<test>>) = {test}
    BY <1>1, KnownCalls
  <2>2. <<read>> \in Seq(Calls) /\ GoodFront(<<read>>) /\ Range(<<read>>) = {read}
    BY <1>1, KnownCalls
  <2> QED BY <2>1, <2>2 DEF Test, Read
<1> QED BY <1>2, <1>3 DEF Check

LEMMA FrontThen ==
  ASSUME NEW s, NEW t, GoodFront(s), GoodFront(t)
  PROVE  GoodFront(s \o t) /\ Range(s \o t) = Range(s) \cup Range(t)
<1>1. s \in Seq(Calls) /\ t \in Seq(Calls) /\ Range(s) \subseteq Before /\ Range(t) \subseteq Before
  BY DEF GoodFront
<1>2. s \o t \in Seq(Calls) /\ Range(s \o t) = Range(s) \cup Range(t)
  BY <1>1, ConcatProperties, RangeConcatenation
<1> QED BY <1>1, <1>2 DEF GoodFront

\* The files of the tools, as lists.
LEMMA ToolLists ==
  /\ Users \in Seq(Files) /\ Range(Users) = {"passwd", "shadow"} /\ Users = <<"passwd", "shadow">>
  /\ Groups \in Seq(Files) /\ Range(Groups) = {"group", "gshadow"} /\ Groups = <<"group", "gshadow">>
  /\ Reverse(Users) = <<"shadow", "passwd">> /\ Range(Reverse(Users)) = {"passwd", "shadow"}
  /\ Reverse(Groups) = <<"gshadow", "group">> /\ Range(Reverse(Groups)) = {"group", "gshadow"}
  /\ Reverse(Users) \in Seq(Files) /\ Reverse(Groups) \in Seq(Files)
<1>1. \A x, y : Reverse(<<x, y>>) = <<y, x>>
  BY DEF Reverse
<1> QED BY <1>1, FileLists DEF Users, Groups

\* What comes after the edit, of two files.
LEMMA TwoBacks ==
  ASSUME NEW f \in Files, NEW g \in Files, f # g, NEW both, both = <<f, g>>,
         NEW list \in Seq(Files), Range(list) = {f, g},
         NEW one, one = <<f>>, NEW other, other = <<g>>
  PROVE  /\ f # "passwd" =>
              LET t == CloseAndUnlock(both)
              IN  GoodBack(t) /\ ShadowFirst(t) /\ \A c : c \in Range(t) <=> Frees(c, {f, g}, {})
         /\ LET t == Each("close", both) \o Each("unlock", list)
            IN  /\ GoodBack(t) /\ ShadowFirst(t) /\ WritesFirst(t)
                /\ \A c : c \in Range(t) <=> Frees(c, {f, g}, {})
         /\ LET t == (Each("close", one) \o Each("unlink", other)) \o Each("unlock", list)
            IN  /\ GoodBack(t) /\ ShadowFirst(t) /\ WritesFirst(t)
                /\ \A c : c \in Range(t) <=> Frees(c, {f, g}, {g})
<1>1. f # "passwd" =>
        LET t == CloseAndUnlock(both)
        IN  GoodBack(t) /\ ShadowFirst(t) /\ \A c : c \in Range(t) <=> Frees(c, {f, g}, {})
  BY CloseUnlockTwo DEF Frees
<1>2. LET t == Each("close", both) \o Each("unlock", list)
      IN  /\ GoodBack(t) /\ ShadowFirst(t) /\ WritesFirst(t)
          /\ \A c : c \in Range(t) <=> Frees(c, {f, g}, {})
  BY ClosesThenUnlocks DEF Frees
<1>3. LET t == (Each("close", one) \o Each("unlink", other)) \o Each("unlock", list)
      IN  /\ GoodBack(t) /\ ShadowFirst(t) /\ WritesFirst(t)
          /\ \A c : c \in Range(t) <=> Frees(c, {f, g}, {g})
  <2> DEFINE t == (Each("close", one) \o Each("unlink", other)) \o Each("unlock", list)
  <2>1. /\ GoodBack(t) /\ ShadowFirst(t) /\ WritesFirst(t)
        /\ Range(t) = {Call("close", f), Call("unlink", g), Call("unlock", f), Call("unlock", g)}
    BY UnlinkThenUnlocks
  <2> HIDE DEF t
  <2>2. \A c : Frees(c, {f, g}, {g}) <=>
               c \in {Call("close", f), Call("unlink", g), Call("unlock", f), Call("unlock", g)}
    BY DEF Frees
  <2> QED BY <2>1, <2>2 DEF t
<1> QED BY <1>1, <1>2, <1>3

\* The parts of a script after the edit, one after the other.
LEMMA AfterEdit ==
  ASSUME NEW front, GoodFront(front), NEW x \in Seq(Calls), NEW y \in Seq(Calls)
  PROVE  front \o Edit \o x \o y = front \o Edit \o (x \o y)
<1> DEFINE a == front \o Edit
<1>1. a \in Seq(Calls)
  BY EditCall, ConcatProperties DEF GoodFront
<1> HIDE DEF a
<1>2. (a \o x) \o y = a \o (x \o y)
  BY <1>1, ConcatAssociative
<1> QED BY <1>2 DEF a

\* The calls of a script, and their order.
Usual(s, tool, looks, files, gone) == Ordered(s, tool) /\ Makes(s, looks, files, gone)

LEMMA UsualFront ==
  ASSUME NEW f \in Files, NEW g \in Files, NEW list \in Seq(Files), Range(list) = {f, g}
  PROVE  /\ GoodFront(LockAndOpen(list))
         /\ \A c : c \in Range(LockAndOpen(list)) <=> c \in {} \/ Locks(c, {f, g})
         /\ GoodFront(Test(g) \o LockAndOpen(list))
         /\ \A c : c \in Range(Test(g) \o LockAndOpen(list)) <=>
                     c \in {Call("test", g)} \/ Locks(c, {f, g})
         /\ GoodFront(Test(g) \o LockThenOpen(list))
         /\ \A c : c \in Range(Test(g) \o LockThenOpen(list)) <=>
                     c \in {Call("test", g)} \/ Locks(c, {f, g})
<1> DEFINE files == {f, g}
           lock == LockAndOpen(list)
           then == LockThenOpen(list)
           test == Test(g)
<1>1. files \in SUBSET Files /\ Range(list) = files
  OBVIOUS
<1>2. GoodFront(test) /\ Range(test) = {Call("test", g)}
  BY GoodLooks
<1> HIDE DEF files, test
<1>3. /\ lock \in Seq(Calls) /\ \A c : c \in Range(lock) <=> Locks(c, files)
      /\ then \in Seq(Calls) /\ \A c : c \in Range(then) <=> Locks(c, files)
  BY <1>1, LockRange
<1> HIDE DEF lock, then
<1>4. GoodFront(lock)
  BY <1>1, <1>3, KnownCalls DEF GoodFront, Locks
<1>5. /\ GoodFront(test \o lock) /\ \A c : c \in Range(test \o lock) <=> c \in Range(test) \/ Locks(c, files)
      /\ GoodFront(test \o then) /\ \A c : c \in Range(test \o then) <=> c \in Range(test) \/ Locks(c, files)
  BY <1>1, <1>2, <1>3, FrontFact
<1> QED BY <1>2, <1>3, <1>4, <1>5 DEF files, lock, then, test

LEMMA TwoFileScripts ==
  ASSUME NEW f \in Files, NEW g \in Files, f # g, g # "passwd",
         NEW list \in Seq(Files), list = <<f, g>>, NEW back \in Seq(Files), back = <<g, f>>,
         NEW order \in Seq(Files), Range(order) = {f, g},
         NEW one \in Seq(Files), one = <<f>>, NEW other \in Seq(Files), other = <<g>>,
         NEW tool, tool \notin {"passwd", "gpasswd"}
  PROVE  /\ tool \notin Checkers =>
              Usual(Test(g) \o LockAndOpen(list) \o Edit \o CloseAndUnlock(back),
                    tool, {Call("test", g)}, {f, g}, {})
         /\ Usual(Test(g) \o LockAndOpen(list) \o Edit \o Each("close", back) \o Each("unlock", order),
                  tool, {Call("test", g)}, {f, g}, {})
         /\ Usual(Test(g) \o LockThenOpen(list) \o Edit \o Each("close", list) \o Each("unlock", order),
                  tool, {Call("test", g)}, {f, g}, {})
         /\ Usual(LockAndOpen(list) \o Edit \o Each("close", back) \o Each("unlock", order),
                  tool, {}, {f, g}, {})
         /\ Usual(Test(g) \o LockAndOpen(list) \o Edit \o Each("close", one) \o Each("unlink", other)
                    \o Each("unlock", order),
                  tool, {Call("test", g)}, {f, g}, {g})
<1> DEFINE files == {f, g}
           looks == {Call("test", g)}
           lock == LockAndOpen(list)
           front == Test(g) \o lock
           frontThen == Test(g) \o LockThenOpen(list)
           unlocks == Each("unlock", order)
           closes == Each("close", list)
           closesBack == Each("close", back)
           close == Each("close", one)
           unlink == Each("unlink", other)
           frees == CloseAndUnlock(back)
<1>1. Range(list) = {f, g} /\ Range(back) = {f, g} /\ {g, f} = files
  BY Pair
<1>2. /\ GoodFront(lock) /\ \A c : c \in Range(lock) <=> c \in {} \/ Locks(c, files)
      /\ GoodFront(front) /\ \A c : c \in Range(front) <=> c \in looks \/ Locks(c, files)
      /\ GoodFront(frontThen) /\ \A c : c \in Range(frontThen) <=> c \in looks \/ Locks(c, files)
  BY <1>1, UsualFront
<1>3. /\ unlocks \in Seq(Calls) /\ closes \in Seq(Calls) /\ closesBack \in Seq(Calls)
      /\ close \in Seq(Calls) /\ unlink \in Seq(Calls)
  <2>1. \A h \in Files : Call("unlock", h) \in Calls /\ Call("close", h) \in Calls /\ Call("unlink", h) \in Calls
    BY KnownCalls
  <2> QED BY <2>1, EachCalls
<1>4. GoodBack(frees) /\ ShadowFirst(frees) /\ \A c : c \in Range(frees) <=> Frees(c, {g, f}, {})
  BY TwoBacks, <1>1
<1>5. LET t == closesBack \o unlocks
      IN  /\ GoodBack(t) /\ ShadowFirst(t) /\ WritesFirst(t)
          /\ \A c : c \in Range(t) <=> Frees(c, {g, f}, {})
  BY TwoBacks, <1>1
<1>6. LET t == closes \o unlocks
      IN  /\ GoodBack(t) /\ ShadowFirst(t) /\ WritesFirst(t)
          /\ \A c : c \in Range(t) <=> Frees(c, {f, g}, {})
  BY TwoBacks, <1>1
<1>7. LET t == (close \o unlink) \o unlocks
      IN  /\ GoodBack(t) /\ ShadowFirst(t) /\ WritesFirst(t)
          /\ \A c : c \in Range(t) <=> Frees(c, {f, g}, {g})
  BY TwoBacks, <1>1
<1>8. {g, f} = files
  BY <1>1
<1> HIDE DEF files, looks, lock, front, frontThen, unlocks, closes, closesBack, close, unlink, frees
<1>9. ASSUME tool \notin Checkers PROVE Usual(front \o Edit \o frees, tool, looks, files, {})
  BY <1>2, <1>4, <1>8, <1>9, UsualScript DEF Usual
<1>10. /\ Usual(front \o Edit \o (closesBack \o unlocks), tool, looks, files, {})
       /\ Usual(lock \o Edit \o (closesBack \o unlocks), tool, {}, files, {})
       /\ Usual(frontThen \o Edit \o (closes \o unlocks), tool, looks, files, {})
       /\ Usual(front \o Edit \o ((close \o unlink) \o unlocks), tool, looks, files, {g})
  <2> DEFINE x == closesBack \o unlocks
             y == closes \o unlocks
             z == (close \o unlink) \o unlocks
  <2>1. /\ GoodBack(x) /\ ShadowFirst(x) /\ WritesFirst(x) /\ \A c : c \in Range(x) <=> Frees(c, files, {})
        /\ GoodBack(y) /\ ShadowFirst(y) /\ WritesFirst(y) /\ \A c : c \in Range(y) <=> Frees(c, files, {})
        /\ GoodBack(z) /\ ShadowFirst(z) /\ WritesFirst(z) /\ \A c : c \in Range(z) <=> Frees(c, files, {g})
    BY <1>5, <1>6, <1>7, <1>8 DEF files
  <2> HIDE DEF x, y, z
  <2>2. Usual(front \o Edit \o x, tool, looks, files, {})
    BY <1>2, <2>1, UsualScript DEF Usual
  <2>3. Usual(lock \o Edit \o x, tool, {}, files, {})
    BY <1>2, <2>1, UsualScript DEF Usual
  <2>4. Usual(frontThen \o Edit \o y, tool, looks, files, {})
    BY <1>2, <2>1, UsualScript DEF Usual
  <2>5. Usual(front \o Edit \o z, tool, looks, files, {g})
    BY <1>2, <2>1, UsualScript DEF Usual
  <2> QED BY <2>2, <2>3, <2>4, <2>5 DEF x, y, z
<1>11. front \o Edit \o closesBack \o unlocks = front \o Edit \o (closesBack \o unlocks)
  <2>1. GoodFront(front) /\ closesBack \in Seq(Calls) /\ unlocks \in Seq(Calls)
    BY <1>2, <1>3
  <2> QED BY <2>1, AfterEdit
<1>12. lock \o Edit \o closesBack \o unlocks = lock \o Edit \o (closesBack \o unlocks)
  <2>1. GoodFront(lock) /\ closesBack \in Seq(Calls) /\ unlocks \in Seq(Calls)
    BY <1>2, <1>3
  <2> QED BY <2>1, AfterEdit
<1>13. frontThen \o Edit \o closes \o unlocks = frontThen \o Edit \o (closes \o unlocks)
  <2>1. GoodFront(frontThen) /\ closes \in Seq(Calls) /\ unlocks \in Seq(Calls)
    BY <1>2, <1>3
  <2> QED BY <2>1, AfterEdit
<1>14. front \o Edit \o close \o unlink \o unlocks = front \o Edit \o ((close \o unlink) \o unlocks)
  <2>1. GoodFront(front)
    BY <1>2
  <2>2. close \in Seq(Calls) /\ unlink \in Seq(Calls) /\ unlocks \in Seq(Calls)
    BY <1>3
  <2> DEFINE b == close \o unlink
  <2>3. b \in Seq(Calls)
    BY <2>2, ConcatProperties
  <2>4. front \o Edit \o close \o unlink = front \o Edit \o b
    BY <2>1, <2>2, AfterEdit
  <2> HIDE DEF b
  <2>5. front \o Edit \o b \o unlocks = front \o Edit \o (b \o unlocks)
    <3>1. unlocks \in Seq(Calls)
      BY <1>3
    <3> QED BY <2>1, <2>3, <3>1, AfterEdit
  <2> QED BY <2>4, <2>5 DEF b
<1> QED BY <1>9, <1>10, <1>11, <1>12, <1>13, <1>14
        DEF files, looks, lock, front, frontThen, unlocks, closes, closesBack, close, unlink, frees

\* The calls of each tool, and their order.
Form(job) == Usual(Script(job), job.tool, Looks(job), FilesOf(job), Gone(job))

LEMMA UserForms ==
  ASSUME NEW job, job.tool \in {"chpasswd", "chage", "pwck", "pwconv", "pwunconv"}
  PROVE  Form(job)
<1> DEFINE users == Users
           back == Reverse(Users)
           one == <<"passwd">>
           other == <<"shadow">>
<1>1. /\ users \in Seq(Files) /\ back \in Seq(Files) /\ one \in Seq(Files) /\ other \in Seq(Files)
      /\ Range(users) = {"passwd", "shadow"} /\ Range(back) = {"passwd", "shadow"}
      /\ users = <<"passwd", "shadow">> /\ back = <<"shadow", "passwd">>
  BY ToolLists, OneFile DEF Files
<1> HIDE DEF users, back
<1>2. PICK f, g : f = "passwd" /\ g = "shadow"
  OBVIOUS
<1>3. /\ f \in Files /\ g \in Files /\ f # g /\ g # "passwd" /\ users = <<f, g>> /\ back = <<g, f>>
      /\ Range(users) = {f, g} /\ Range(back) = {f, g} /\ one = <<f>> /\ other = <<g>>
  BY <1>1, <1>2 DEF Files
<1> HIDE DEF one, other
<1> DEFINE tool == job.tool
<1>4. tool \notin {"passwd", "gpasswd"}
  OBVIOUS
<1> HIDE DEF tool
<1>5. /\ tool \notin Checkers =>
           Usual(Test(g) \o LockAndOpen(users) \o Edit \o CloseAndUnlock(back),
                 tool, {Call("test", g)}, {f, g}, {})
      /\ Usual(Test(g) \o LockAndOpen(users) \o Edit \o Each("close", back) \o Each("unlock", back),
               tool, {Call("test", g)}, {f, g}, {})
      /\ Usual(Test(g) \o LockThenOpen(users) \o Edit \o Each("close", users) \o Each("unlock", back),
               tool, {Call("test", g)}, {f, g}, {})
      /\ Usual(Test(g) \o LockAndOpen(users) \o Edit \o Each("close", one) \o Each("unlink", other)
                 \o Each("unlock", back),
               tool, {Call("test", g)}, {f, g}, {g})
  BY <1>1, <1>3, <1>4, TwoFileScripts
<1>6. Usual(LockAndOpen(users) \o Edit \o Each("close", back) \o Each("unlock", users),
            tool, {}, {f, g}, {})
  BY <1>1, <1>3, <1>4, TwoFileScripts
<1>7. /\ FilesOf(job) = {f, g} /\ ShadowOf(tool) = g
      /\ Looks(job) = IF tool = "pwconv" THEN {} ELSE {Call("test", g)}
      /\ Gone(job) = IF tool = "pwunconv" THEN {g} ELSE {}
  BY <1>2 DEF FilesOf, UserTools, ShadowOf, TableOf, Looks, Gone, tool
<1>8. tool \in {"chpasswd", "chage", "pwck", "pwconv", "pwunconv"}
  BY DEF tool
<1>9. Script(job) =
        CASE tool = "chpasswd" -> Test(g) \o LockAndOpen(users) \o Edit \o CloseAndUnlock(back)
          [] tool = "chage" ->
               Test(g) \o LockAndOpen(users) \o Edit \o Each("close", back) \o Each("unlock", back)
          [] tool = "pwck" ->
               Test(g) \o LockThenOpen(users) \o Edit \o Each("close", users) \o Each("unlock", back)
          [] tool = "pwconv" ->
               LockAndOpen(users) \o Edit \o Each("close", back) \o Each("unlock", users)
          [] tool = "pwunconv" ->
               Test(g) \o LockAndOpen(users) \o Edit \o Each("close", one) \o Each("unlink", other)
                 \o Each("unlock", back)
  BY <1>2, <1>8 DEF Script, tool, users, back, one, other, ChpasswdScript, ChageScript, PwckScript,
     PwconvScript, PwunconvScript
<1>10. Usual(Script(job), tool, Looks(job), FilesOf(job), Gone(job))
  BY <1>5, <1>6, <1>7, <1>8, <1>9 DEF Checkers
<1> QED BY <1>10 DEF Form, tool

LEMMA GroupForms ==
  ASSUME NEW job, job.tool \in {"chgpasswd", "grpck", "grpconv", "grpunconv"}
  PROVE  Form(job)
<1> DEFINE groups == Groups
           back == Reverse(Groups)
           one == <<"group">>
           other == <<"gshadow">>
<1>1. /\ groups \in Seq(Files) /\ back \in Seq(Files) /\ one \in Seq(Files) /\ other \in Seq(Files)
      /\ Range(groups) = {"group", "gshadow"} /\ Range(back) = {"group", "gshadow"}
      /\ groups = <<"group", "gshadow">> /\ back = <<"gshadow", "group">>
  BY ToolLists, OneFile DEF Files
<1> HIDE DEF groups, back
<1>2. PICK f, g : f = "group" /\ g = "gshadow"
  OBVIOUS
<1>3. /\ f \in Files /\ g \in Files /\ f # g /\ g # "passwd" /\ groups = <<f, g>> /\ back = <<g, f>>
      /\ Range(groups) = {f, g} /\ Range(back) = {f, g} /\ one = <<f>> /\ other = <<g>>
  BY <1>1, <1>2 DEF Files
<1> HIDE DEF one, other
<1> DEFINE tool == job.tool
<1>4. tool \notin {"passwd", "gpasswd"}
  OBVIOUS
<1> HIDE DEF tool
<1>5. /\ tool \notin Checkers =>
           Usual(Test(g) \o LockAndOpen(groups) \o Edit \o CloseAndUnlock(back),
                 tool, {Call("test", g)}, {f, g}, {})
      /\ Usual(Test(g) \o LockThenOpen(groups) \o Edit \o Each("close", groups) \o Each("unlock", back),
               tool, {Call("test", g)}, {f, g}, {})
      /\ Usual(LockAndOpen(groups) \o Edit \o Each("close", back) \o Each("unlock", back),
               tool, {}, {f, g}, {})
  BY <1>1, <1>3, <1>4, TwoFileScripts
<1>6. Usual(Test(g) \o LockAndOpen(groups) \o Edit \o Each("close", one) \o Each("unlink", other)
              \o Each("unlock", groups),
            tool, {Call("test", g)}, {f, g}, {g})
  BY <1>1, <1>3, <1>4, TwoFileScripts
<1>7. /\ FilesOf(job) = {f, g} /\ ShadowOf(tool) = g
      /\ Looks(job) = IF tool = "grpconv" THEN {} ELSE {Call("test", g)}
      /\ Gone(job) = IF tool = "grpunconv" THEN {g} ELSE {}
  BY <1>2 DEF FilesOf, UserTools, ShadowOf, TableOf, Looks, Gone, tool
<1>8. tool \in {"chgpasswd", "grpck", "grpconv", "grpunconv"}
  BY DEF tool
<1>9. Script(job) =
        CASE tool = "chgpasswd" -> Test(g) \o LockAndOpen(groups) \o Edit \o CloseAndUnlock(back)
          [] tool = "grpck" ->
               Test(g) \o LockThenOpen(groups) \o Edit \o Each("close", groups) \o Each("unlock", back)
          [] tool = "grpconv" ->
               LockAndOpen(groups) \o Edit \o Each("close", back) \o Each("unlock", back)
          [] tool = "grpunconv" ->
               Test(g) \o LockAndOpen(groups) \o Edit \o Each("close", one) \o Each("unlink", other)
                 \o Each("unlock", groups)
  BY <1>2, <1>8 DEF Script, tool, groups, back, one, other, ChgpasswdScript, GrpckScript,
     GrpconvScript, GrpunconvScript
<1>10. Usual(Script(job), tool, Looks(job), FilesOf(job), Gone(job))
  BY <1>5, <1>6, <1>7, <1>8, <1>9 DEF Checkers
<1> QED BY <1>10 DEF Form, tool

\* chfn, chsh and vipw.
LEMMA OneFileScripts ==
  ASSUME NEW f \in Files, NEW look, GoodFront(look), NEW list \in Seq(Files), list = <<f>>,
         NEW tool, tool \notin {"passwd", "gpasswd"} \cup Checkers
  PROVE  Usual(look \o LockAndOpen(list) \o Edit \o CloseAndUnlock(list), tool, Range(look), {f}, {})
<1> DEFINE files == {f}
           looks == Range(look)
           lock == LockAndOpen(list)
           front == look \o lock
           frees == CloseAndUnlock(list)
<1>1. files \in SUBSET Files /\ Range(list) = files
  BY Single
<1>2. GoodBack(frees) /\ ShadowFirst(frees) /\ \A c : c \in Range(frees) <=> Frees(c, files, {})
  BY CloseUnlockOne DEF Frees
<1> HIDE DEF files, frees
<1>3. lock \in Seq(Calls) /\ \A c : c \in Range(lock) <=> Locks(c, files)
  BY <1>1, LockRange
<1> HIDE DEF lock
<1>4. GoodFront(front) /\ \A c : c \in Range(front) <=> c \in looks \/ Locks(c, files)
  BY <1>1, <1>3, FrontFact
<1> HIDE DEF looks, front
<1>5. Usual(front \o Edit \o frees, tool, looks, files, {})
  BY <1>2, <1>4, UsualScript DEF Usual
<1> QED BY <1>5 DEF files, looks, lock, front, frees

LEMMA OneForms ==
  ASSUME NEW job, job.tool \in {"chfn", "chsh", "vipw"}
  PROVE  Form(job)
<1>1. CASE job.tool \in {"chfn", "chsh"}
  <2> DEFINE list == <<"passwd">>
             tool == job.tool
             f == "passwd"
  <2>1. list \in Seq(Files) /\ list = <<f>> /\ f \in Files
    BY OneFile DEF Files
  <2>2. Script(job) = Check \o LockAndOpen(list) \o Edit \o CloseAndUnlock(list)
    BY <1>1 DEF Script, ChfnScript
  <2>3. tool \notin {"passwd", "gpasswd"} \cup Checkers /\ GoodFront(Check)
    BY <1>1, GoodLooks DEF Checkers
  <2>4. Range(Check) = Looks(job) /\ FilesOf(job) = {f} /\ Gone(job) = {}
    BY <1>1, GoodLooks DEF Looks, FilesOf, Gone
  <2> HIDE DEF list, tool, f
  <2>5. Usual(Check \o LockAndOpen(list) \o Edit \o CloseAndUnlock(list), tool, Range(Check), {f}, {})
    BY <2>1, <2>3, OneFileScripts
  <2> QED BY <2>2, <2>4, <2>5 DEF Form, tool
<1>2. CASE job.tool = "vipw"
  <2> DEFINE f == VipwFile(job)
             list == <<f>>
             tool == job.tool
  <2>1. list \in Seq(Files) /\ f \in Files
    BY OneFile DEF Files, VipwFile
  <2>2. Script(job) = Test(f) \o LockAndOpen(list) \o Edit \o CloseAndUnlock(list)
    <3>1. VipwScript(job) = Test(list[1]) \o LockAndOpen(list) \o Edit \o CloseAndUnlock(list)
      BY DEF VipwScript, VipwFile
    <3> QED BY <1>2, <3>1 DEF Script
  <2>3. tool \notin {"passwd", "gpasswd"} \cup Checkers /\ GoodFront(Test(f))
    BY <1>2, <2>1, GoodLooks DEF Checkers
  <2>4. Range(Test(f)) = Looks(job) /\ FilesOf(job) = {f} /\ Gone(job) = {}
    BY <1>2, <2>1, GoodLooks DEF Looks, FilesOf, Gone
  <2>5. list = <<f>>
    OBVIOUS
  <2> HIDE DEF list, tool, f
  <2>6. Usual(Test(f) \o LockAndOpen(list) \o Edit \o CloseAndUnlock(list), tool, Range(Test(f)), {f}, {})
    BY <2>1, <2>3, <2>5, OneFileScripts
  <2> QED BY <2>2, <2>4, <2>6 DEF Form, tool
<1> QED BY <1>1, <1>2

\* usermod looks for shadow and checks, gpasswd also reads the group, and
\* passwd looks for shadow between the locks.
LEMMA UsermodForm == ASSUME NEW job, job.tool = "usermod" PROVE Form(job)
<1> DEFINE users == Users
           back == Reverse(Users)
           look == Test("shadow") \o Check
           lock == LockAndOpen(users)
           front == look \o lock
           frees == CloseAndUnlock(back)
           files == {"passwd", "shadow"}
           looks == {Call("check", None), Call("test", "shadow")}
           tool == job.tool
<1>1. /\ users \in Seq(Files) /\ back \in Seq(Files) /\ users = <<"passwd", "shadow">>
      /\ Range(users) = files /\ Range(back) = files /\ back = <<"shadow", "passwd">>
      /\ files \in SUBSET Files
  BY ToolLists DEF Files
<1>2. GoodFront(look) /\ Range(look) = looks
  <2> DEFINE test == Test("shadow")
  <2>1. /\ GoodFront(test) /\ Range(test) = {Call("test", "shadow")}
        /\ GoodFront(Check) /\ Range(Check) = {Call("check", None)}
    BY GoodLooks DEF Files
  <2> HIDE DEF test
  <2>2. GoodFront(test \o Check) /\ Range(test \o Check) = Range(test) \cup Range(Check)
    BY <2>1, FrontThen
  <2> QED BY <2>1, <2>2 DEF test
<1>3. Looks(job) = looks /\ FilesOf(job) = files /\ Gone(job) = {}
  BY DEF Looks, FilesOf, Gone, ShadowOf, TableOf, UserTools
<1>4. Script(job) = front \o Edit \o frees
  BY DEF Script, UsermodScript
<1>5. GoodBack(frees) /\ ShadowFirst(frees) /\ \A c : c \in Range(frees) <=> Frees(c, files, {})
  <2>1. PICK f, g : f = "passwd" /\ g = "shadow"
    OBVIOUS
  <2>2. f \in Files /\ g \in Files /\ g # f /\ g # "passwd" /\ back = <<g, f>> /\ files = {g, f}
    BY <1>1, <2>1
  <2> HIDE DEF back, files
  <2>3. LET t == CloseAndUnlock(<<g, f>>)
        IN  /\ GoodBack(t) /\ ShadowFirst(t)
            /\ Range(t) = {Call("close", g), Call("unlock", g), Call("close", f), Call("unlock", f)}
    BY <2>2, CloseUnlockTwo
  <2> QED BY <2>2, <2>3 DEF Frees
<1> HIDE DEF users, back, frees, files, looks, look
<1>6. lock \in Seq(Calls) /\ \A c : c \in Range(lock) <=> Locks(c, files)
  BY <1>1, LockRange
<1> HIDE DEF lock
<1>7. GoodFront(front) /\ \A c : c \in Range(front) <=> c \in looks \/ Locks(c, files)
  BY <1>1, <1>2, <1>6, FrontFact
<1>8. tool \notin {"passwd", "gpasswd"} \cup Checkers
  BY DEF Checkers
<1> HIDE DEF front, tool
<1>9. Usual(front \o Edit \o frees, tool, looks, files, {})
  BY <1>5, <1>7, <1>8, UsualScript DEF Usual
<1> QED BY <1>3, <1>4, <1>9 DEF Form, tool


LEMMA GpasswdForm == ASSUME NEW job, job.tool = "gpasswd" PROVE Form(job)
<1> DEFINE groups == Groups
           test == Test("gshadow")
           readGroup == Read("group")
           readGshadow == Read("gshadow")
           look == test \o readGroup \o readGshadow \o Check
           lock == LockThenOpen(groups)
           front == look \o lock
           frees == CloseAndUnlock(groups)
           files == {"group", "gshadow"}
           looks == {Call("check", None), Call("test", "gshadow"), Call("read", "group"),
                     Call("read", "gshadow")}
           tool == job.tool
           A == {Call("check", None)}
           B == {Call("read", "group")}
<1>1. /\ groups \in Seq(Files) /\ groups = <<"group", "gshadow">>
      /\ Range(groups) = files /\ files \in SUBSET Files
  BY ToolLists DEF Files
<1>2. /\ GoodFront(test) /\ Range(test) = {Call("test", "gshadow")}
      /\ GoodFront(readGroup) /\ Range(readGroup) = {Call("read", "group")}
      /\ GoodFront(readGshadow) /\ Range(readGshadow) = {Call("read", "gshadow")}
      /\ GoodFront(Check) /\ Range(Check) = {Call("check", None)}
  BY GoodLooks DEF Files
<1>3. Looks(job) = looks /\ FilesOf(job) = files /\ Gone(job) = {}
  BY DEF Looks, FilesOf, Gone, ShadowOf, TableOf, UserTools
<1>4. Script(job) = front \o Edit \o frees
  BY DEF Script, GpasswdScript
<1>5. GoodBack(frees) /\ ShadowFirst(frees) /\ \A c : c \in Range(frees) <=> Frees(c, files, {})
  <2>1. PICK f, g : f = "group" /\ g = "gshadow"
    OBVIOUS
  <2>2. f \in Files /\ g \in Files /\ g # f /\ f # "passwd" /\ groups = <<f, g>> /\ files = {f, g}
    BY <1>1, <2>1
  <2> HIDE DEF groups, files
  <2>3. LET t == CloseAndUnlock(<<f, g>>)
        IN  /\ GoodBack(t) /\ ShadowFirst(t)
            /\ Range(t) = {Call("close", f), Call("unlock", f), Call("close", g), Call("unlock", g)}
    BY <2>2, CloseUnlockTwo
  <2> QED BY <2>2, <2>3 DEF Frees
<1>6. Call("check", None) \notin Range(test) \cup Range(readGroup) \cup Range(readGshadow)
      /\ Call("read", "group") \notin Range(Check)
  BY <1>2, SameCall
<1> HIDE DEF groups, frees, files, test, readGroup, readGshadow
<1>7. lock \in Seq(Calls) /\ \A c : c \in Range(lock) <=> Locks(c, files)
  BY <1>1, LockRange
<1> HIDE DEF lock
<1> DEFINE two == test \o readGroup
           three == two \o readGshadow
<1>8. GoodFront(two) /\ Range(two) = Range(test) \cup Range(readGroup)
  BY <1>2, FrontThen
<1> HIDE DEF two
<1>9. GoodFront(three) /\ Range(three) = Range(two) \cup Range(readGshadow)
  BY <1>2, <1>8, FrontThen
<1> HIDE DEF three
<1>10. GoodFront(three \o Check) /\ Range(three \o Check) = Range(three) \cup Range(Check)
  BY <1>2, <1>9, FrontThen
<1>11. look = three \o Check
  BY DEF two, three
<1>12. GoodFront(look) /\ Range(look) = looks
  BY <1>2, <1>8, <1>9, <1>10, <1>11
<1>13. Never(look, A, B)
  <2>1. \A c \in Range(three) : c \notin A
    BY <1>6, <1>8, <1>9
  <2>2. \A c \in Range(Check) : c \notin B
    BY <1>6
  <2>3. Never(three, A, B) /\ Never(Check, A, B)
    BY <2>1, <2>2, NeverNone
  <2>4. three \in Seq(Calls) /\ Check \in Seq(Calls)
    BY <1>2, <1>9 DEF GoodFront
  <2> QED BY <1>11, <2>1, <2>3, <2>4, NeverThen
<1>14. GoodFront(front) /\ \A c : c \in Range(front) <=> c \in Range(look) \/ Locks(c, files)
  BY <1>1, <1>7, <1>12, FrontFact
<1>15. Never(front, A, B)
  <2>1. \A c \in Range(lock) : c \notin B
    BY <1>7, SameCall DEF Locks
  <2>2. Never(lock, A, B)
    BY <2>1, NeverNone
  <2>3. look \in Seq(Calls)
    BY <1>12 DEF GoodFront
  <2> QED BY <1>7, <1>13, <2>1, <2>2, <2>3, NeverThen
<1>16. TestedFirst(front)
  <2> SUFFICES ASSUME NEW f \in Files PROVE Never(front, {Call("open", f)}, {Call("test", f)})
    BY DEF TestedFirst
  <2>1. \A c \in Range(look) : c \notin {Call("open", f)}
    BY <1>12, SameCall
  <2>2. \A c \in Range(lock) : c \notin {Call("test", f)}
    BY <1>7, SameCall DEF Locks
  <2>3. Never(look, {Call("open", f)}, {Call("test", f)}) /\ Never(lock, {Call("open", f)}, {Call("test", f)})
    BY <2>1, <2>2, NeverNone
  <2>4. look \in Seq(Calls)
    BY <1>12 DEF GoodFront
  <2> QED BY <1>7, <2>1, <2>3, <2>4, NeverThen
<1>17. tool \notin Checkers /\ tool # "passwd"
  BY DEF Checkers
<1> HIDE DEF front, look, looks, tool
<1>18. Usual(front \o Edit \o frees, tool, looks, files, {})
  BY <1>5, <1>12, <1>14, <1>15, <1>16, <1>17, UsualScript DEF Usual
<1> QED BY <1>3, <1>4, <1>18 DEF Form, tool

LEMMA PasswdForm == ASSUME NEW job, job.tool = "passwd" PROVE Form(job)
<1> DEFINE back == Reverse(Users)
           test == Test("shadow")
           first == <<"passwd">>
           second == <<"shadow">>
           lock == LockAndOpen(first)
           lockShadow == LockAndOpen(second)
           front == Check \o lock \o test \o lockShadow
           frees == CloseAndUnlock(back)
           files == {"passwd", "shadow"}
           looks == {Call("check", None), Call("test", "shadow")}
           tool == job.tool
           A == {Call("test", "shadow")}
           B == {Call("lock", "passwd")}
<1>1. /\ back = <<"shadow", "passwd">>
      /\ first \in Seq(Files) /\ Range(first) = {"passwd"}
      /\ second \in Seq(Files) /\ Range(second) = {"shadow"}
  BY ToolLists, OneFile DEF Files
<1>2. /\ GoodFront(test) /\ Range(test) = {Call("test", "shadow")}
      /\ GoodFront(Check) /\ Range(Check) = {Call("check", None)}
  BY GoodLooks DEF Files
<1>3. Looks(job) = looks /\ FilesOf(job) = files /\ Gone(job) = {}
  BY DEF Looks, FilesOf, Gone, ShadowOf, TableOf, UserTools
<1>4. Script(job) = front \o Edit \o frees
  BY DEF Script, PasswdScript
<1>5. GoodBack(frees) /\ ShadowFirst(frees) /\ \A c : c \in Range(frees) <=> Frees(c, files, {})
  <2>1. PICK f, g : f = "passwd" /\ g = "shadow"
    OBVIOUS
  <2>2. f \in Files /\ g \in Files /\ g # f /\ g # "passwd" /\ back = <<g, f>> /\ files = {g, f}
    BY <1>1, <2>1 DEF Files
  <2> HIDE DEF back, files
  <2>3. LET t == CloseAndUnlock(<<g, f>>)
        IN  /\ GoodBack(t) /\ ShadowFirst(t)
            /\ Range(t) = {Call("close", g), Call("unlock", g), Call("close", f), Call("unlock", f)}
    BY <2>2, CloseUnlockTwo
  <2> QED BY <2>2, <2>3 DEF Frees
<1>6. /\ \A c \in Range(Check) : c \notin A
      /\ \A c : Locks(c, {"passwd"}) => c \notin A
      /\ \A c : Locks(c, {"shadow"}) => c \notin B
      /\ \A c \in Range(test) : c \notin B
  BY <1>2, SameCall DEF Locks
<1>7. {"passwd"} \in SUBSET Files /\ {"shadow"} \in SUBSET Files
  BY DEF Files
<1> HIDE DEF back, frees, test, first, second
<1>8. /\ lock \in Seq(Calls) /\ \A c : c \in Range(lock) <=> Locks(c, {"passwd"})
      /\ lockShadow \in Seq(Calls) /\ \A c : c \in Range(lockShadow) <=> Locks(c, {"shadow"})
  <2>1. lock \in Seq(Calls) /\ \A c : c \in Range(lock) <=> Locks(c, Range(first))
    BY <1>1, LockRange
  <2>2. lockShadow \in Seq(Calls) /\ \A c : c \in Range(lockShadow) <=> Locks(c, Range(second))
    BY <1>1, LockRange
  <2> QED BY <1>1, <2>1, <2>2
<1> HIDE DEF lock, lockShadow, A, B
<1> DEFINE two == Check \o lock
           three == two \o test
<1>9. GoodFront(two) /\ \A c : c \in Range(two) <=> c \in Range(Check) \/ Locks(c, {"passwd"})
  BY <1>2, <1>7, <1>8, FrontFact
<1> HIDE DEF two
<1>10. GoodFront(three) /\ Range(three) = Range(two) \cup Range(test)
  BY <1>2, <1>9, FrontThen
<1> HIDE DEF three
<1>11. /\ GoodFront(three \o lockShadow)
       /\ \A c : c \in Range(three \o lockShadow) <=> c \in Range(three) \/ Locks(c, {"shadow"})
  BY <1>7, <1>8, <1>10, FrontFact
<1>12. front = three \o lockShadow
  BY DEF two, three
<1>13. GoodFront(front) /\ \A c : c \in Range(front) <=> c \in looks \/ Locks(c, files)
  <2>1. \A c : Locks(c, files) <=> Locks(c, {"passwd"}) \/ Locks(c, {"shadow"})
    BY DEF Locks
  <2> HIDE DEF files
  <2> QED BY <1>2, <1>9, <1>10, <1>11, <1>12, <2>1
<1>14. Never(front, A, B)
  <2>1. \A c \in Range(two) : c \notin A
    BY <1>6, <1>9
  <2>2. \A c \in Range(lockShadow) : c \notin B
    BY <1>6, <1>8
  <2>3. Never(two, A, B) /\ Never(test, A, B) /\ Never(lockShadow, A, B)
    BY <1>6, <2>1, <2>2, NeverNone
  <2>4. /\ two \in Seq(Calls) /\ test \in Seq(Calls) /\ three \in Seq(Calls)
    BY <1>2, <1>9, <1>10 DEF GoodFront
  <2>5. Never(three, A, B)
    BY <2>1, <2>3, <2>4, NeverThen DEF three
  <2> QED BY <1>8, <1>12, <2>2, <2>3, <2>4, <2>5, NeverThen
<1>15. TestedFirst(front)
  <2> SUFFICES ASSUME NEW f \in Files PROVE Never(front, {Call("open", f)}, {Call("test", f)})
    BY DEF TestedFirst
  <2> DEFINE C == {Call("open", f)}
             D == {Call("test", f)}
  <2>1. /\ \A c \in Range(Check) : c \notin D
        /\ \A c, h : Locks(c, h) => c \notin D
        /\ \A c \in Range(test) : c \notin C
        /\ f # "passwd" => \A c : Locks(c, {"passwd"}) => c \notin C
        /\ f = "passwd" => \A c \in Range(test) : c \notin D
        /\ \A c \in Range(Check) : c \notin C
    BY <1>2, SameCall DEF Locks, test
  <2> HIDE DEF C, D
  <2>2. \A c \in Range(two) \cup Range(lockShadow) : c \notin D
    BY <1>8, <1>9, <2>1
  <2>3. Never(two, C, D) /\ Never(test, C, D) /\ Never(lockShadow, C, D)
    BY <2>1, <2>2, NeverNone
  <2>4. two \in Seq(Calls) /\ test \in Seq(Calls) /\ three \in Seq(Calls)
    BY <1>2, <1>9, <1>10 DEF GoodFront
  <2>5. (\A c \in Range(two) : c \notin C) \/ (\A c \in Range(test) : c \notin D)
    BY <1>9, <2>1
  <2>6. Never(three, C, D)
    BY <2>3, <2>4, <2>5, NeverThen DEF three
  <2>7. Never(front, C, D)
    BY <1>8, <1>12, <2>2, <2>3, <2>4, <2>6, NeverThen
  <2> QED BY <2>7 DEF C, D
<1>16. tool \notin Checkers /\ tool # "gpasswd"
  BY DEF Checkers
<1> HIDE DEF front, looks, tool, files
<1>17. Usual(front \o Edit \o frees, tool, looks, files, {})
  BY <1>5, <1>13, <1>14, <1>15, <1>16, UsualScript DEF Usual, A, B
<1> QED BY <1>3, <1>4, <1>17 DEF Form, tool

LEMMA ToolForms == ASSUME NEW job, job.tool \in Tools PROVE Form(job)
BY UserForms, GroupForms, OneForms, UsermodForm, GpasswdForm, PasswdForm DEF Tools

(***************************************************************************)
(* What is left of a script.                                               *)
(***************************************************************************)
\* The calls that may come after c.
Follows(c, calls, tool) ==
  /\ c \in {Editing} \cup After => calls \cap (Before \cup {Editing}) = {}
  /\ \A f \in Files : c \in Leaves(f) => calls \cap Writes(f) = {}
  /\ tool # "vipw" /\ c = Call("unlock", "passwd") => calls \cap Writes("shadow") = {}
  /\ tool \in Checkers => \A f, g \in Files : c = Call("unlock", f) => calls \cap Writes(g) = {}
  /\ tool = "passwd" /\ c = Call("test", "shadow") => Call("lock", "passwd") \notin calls
  /\ tool = "gpasswd" /\ c = Call("check", None) => Call("read", "group") \notin calls
  /\ tool \in {"passwd", "gpasswd"} =>
       \A f \in Files : c = Call("open", f) => Call("test", f) \notin calls

LEMMA OrderedTail ==
  ASSUME NEW s, NEW tool, Ordered(s, tool), s # <<>>
  PROVE  /\ Head(s) \in Calls /\ Range(s) = {Head(s)} \cup Range(Tail(s))
         /\ Ordered(Tail(s), tool)
         /\ Follows(Head(s), Range(Tail(s)), tool)
<1> DEFINE t == Tail(s)
           c == Head(s)
           R == Range(t)
<1>1. s \in Seq(Calls)
  BY DEF Ordered
<1>2. c \in Calls /\ t \in Seq(Calls) /\ Range(s) = {c} \cup R
  BY <1>1, HeadAndTail
<1>3. ASSUME NEW A, NEW B, Never(s, A, B)
      PROVE  Never(t, A, B) /\ (c \in A => R \cap B = {})
  BY <1>1, <1>3, NeverTail
<1> HIDE DEF t, c, R
<1>4. EditsOnce(t) /\ (c \in {Editing} \cup After => R \cap (Before \cup {Editing}) = {})
      /\ \A f \in Files : c \in Leaves(f) => R \cap Writes(f) = {}
  <2>1. Never(s, {Editing} \cup After, Before \cup {Editing})
    BY DEF Ordered, EditsOnce
  <2>2. \A f \in Files : Never(s, Leaves(f), Writes(f))
    BY DEF Ordered, EditsOnce
  <2>3. /\ Never(t, {Editing} \cup After, Before \cup {Editing})
        /\ c \in {Editing} \cup After => R \cap (Before \cup {Editing}) = {}
    BY <1>3, <2>1
  <2>4. \A f \in Files : Never(t, Leaves(f), Writes(f)) /\ (c \in Leaves(f) => R \cap Writes(f) = {})
    BY <1>3, <2>2
  <2> QED BY <2>3, <2>4 DEF EditsOnce
<1>5. ASSUME tool # "vipw"
      PROVE  ShadowFirst(t) /\ (c = Call("unlock", "passwd") => R \cap Writes("shadow") = {})
  <2>1. Never(s, {Call("unlock", "passwd")}, Writes("shadow"))
    BY <1>5 DEF Ordered, ShadowFirst
  <2>2. Never(t, {Call("unlock", "passwd")}, Writes("shadow"))
        /\ (c \in {Call("unlock", "passwd")} => R \cap Writes("shadow") = {})
    BY <1>3, <2>1
  <2> QED BY <2>2 DEF ShadowFirst
<1>6. ASSUME tool \in Checkers
      PROVE  WritesFirst(t) /\ \A f, g \in Files : c = Call("unlock", f) => R \cap Writes(g) = {}
  <2>1. \A f, g \in Files : Never(s, {Call("unlock", f)}, Writes(g))
    BY <1>6 DEF Ordered, WritesFirst
  <2>2. \A f, g \in Files : /\ Never(t, {Call("unlock", f)}, Writes(g))
                            /\ c \in {Call("unlock", f)} => R \cap Writes(g) = {}
    BY <1>3, <2>1
  <2> QED BY <2>2 DEF WritesFirst
<1>7. ASSUME tool = "passwd"
      PROVE  /\ Never(t, {Call("test", "shadow")}, {Call("lock", "passwd")})
             /\ c = Call("test", "shadow") => Call("lock", "passwd") \notin R
  <2>1. Never(s, {Call("test", "shadow")}, {Call("lock", "passwd")})
    BY <1>7 DEF Ordered
  <2>2. /\ Never(t, {Call("test", "shadow")}, {Call("lock", "passwd")})
        /\ c \in {Call("test", "shadow")} => R \cap {Call("lock", "passwd")} = {}
    BY <1>3, <2>1
  <2> QED BY <2>2
<1>8. ASSUME tool = "gpasswd"
      PROVE  /\ Never(t, {Call("check", None)}, {Call("read", "group")})
             /\ c = Call("check", None) => Call("read", "group") \notin R
  <2>1. Never(s, {Call("check", None)}, {Call("read", "group")})
    BY <1>8 DEF Ordered
  <2>2. /\ Never(t, {Call("check", None)}, {Call("read", "group")})
        /\ c \in {Call("check", None)} => R \cap {Call("read", "group")} = {}
    BY <1>3, <2>1
  <2> QED BY <2>2
<1>9. ASSUME tool \in {"passwd", "gpasswd"}
      PROVE  TestedFirst(t) /\ \A f \in Files : c = Call("open", f) => Call("test", f) \notin R
  <2>1. \A f \in Files : Never(s, {Call("open", f)}, {Call("test", f)})
    BY <1>9 DEF Ordered, TestedFirst
  <2>2. \A f \in Files : /\ Never(t, {Call("open", f)}, {Call("test", f)})
                         /\ c \in {Call("open", f)} => R \cap {Call("test", f)} = {}
    BY <1>3, <2>1
  <2> QED BY <2>2 DEF TestedFirst
<1>10. Ordered(t, tool)
  BY <1>2, <1>4, <1>5, <1>6, <1>7, <1>8, <1>9 DEF Ordered
<1>11. Follows(c, R, tool)
  BY <1>4, <1>5, <1>6, <1>7, <1>8, <1>9 DEF Follows
<1> QED BY <1>2, <1>10, <1>11 DEF t, c, R

LEMMA OrderedWithout ==
  ASSUME NEW s, NEW tool, Ordered(s, tool), NEW f
  PROVE  Ordered(Without(s, f), tool) /\ Range(Without(s, f)) = {c \in Range(s) : c.file # f}
<1> DEFINE t == Without(s, f)
<1>1. s \in Seq(Calls)
  BY DEF Ordered
<1>2. t \in Seq(Calls) /\ Range(t) = {c \in Range(s) : c.file # f}
  BY <1>1, WithoutCalls, WithoutRange
<1>3. ASSUME NEW A, NEW B, Never(s, A, B) PROVE Never(t, A, B)
  BY <1>1, <1>3, NeverWithout
<1> HIDE DEF t
<1>4. Ordered(t, tool)
  BY <1>2, <1>3 DEF Ordered, EditsOnce, ShadowFirst, WritesFirst, TestedFirst
<1> QED BY <1>2, <1>4 DEF t

LEMMA OrderedUnlocks ==
  ASSUME NEW s \in Seq(Calls), \A c \in Range(s) : c.do = "unlock", NEW tool
  PROVE  Ordered(s, tool)
<1>1. \A c \in Range(s) : /\ c \notin Before \cup {Editing}
                          /\ \A f : c \notin Writes(f) /\ c # Call("lock", f) /\ c # Call("read", f)
                                    /\ c # Call("test", f)
  BY SameCall DEF Before, CallsOf, Editing, Writes
<1>2. \A A, B : (\A c \in Range(s) : c \notin B) => Never(s, A, B)
  BY NeverNone
<1>3. EditsOnce(s)
  BY <1>1, <1>2 DEF EditsOnce
<1>4. ShadowFirst(s) /\ WritesFirst(s)
  BY <1>1, <1>2 DEF ShadowFirst, WritesFirst
<1>5. /\ Never(s, {Call("test", "shadow")}, {Call("lock", "passwd")})
      /\ Never(s, {Call("check", None)}, {Call("read", "group")})
  BY <1>1, <1>2
<1>6. TestedFirst(s)
  BY <1>1, <1>2 DEF TestedFirst
<1> QED BY <1>3, <1>4, <1>5, <1>6 DEF Ordered

(***************************************************************************)
(* The invariant of a process.                                             *)
(***************************************************************************)
\* Whether a tool must have the shadow file, by what it has found.
Fellow(tool, seen) ==
  \/ tool \in {"chage", "pwconv", "pwunconv", "grpconv", "grpunconv"}
  \/ tool \in {"pwck", "grpck"} /\ seen[ShadowOf(tool)] # FALSE

\* The files that a tool has when it edits.
Needed(job, seen) ==
  IF job.tool = "vipw" THEN {VipwFile(job)}
  ELSE {TableOf(job.tool)} \cup (IF Fellow(job.tool, seen) THEN {ShadowOf(job.tool)} ELSE {})

\* Of the calls that are left: those on files are on one of the files, only
\* pwunconv and grpunconv remove one, and shadow is for users; what comes
\* before the edit is followed by it.
KnownFiles(calls, tool) ==
  \A c \in calls :
    /\ IF c.do \in {"check", "edit"} THEN c.file = None ELSE c.file \in Files
    /\ c.do = "read" => tool = "gpasswd"
    /\ c.do = "unlink" => /\ c.file \in {"shadow", "gshadow"}
                          /\ tool \in {"pwunconv", "grpunconv"}
    /\ c \in Writes("shadow") => tool \in UserTools

Begins(calls) == calls \cap Before # {} => Editing \in calls

\* What is written is open, or will be.
Opens(calls, mem) ==
  \A f \in Files : calls \cap Writes(f) # {} => mem[f] # Closed \/ Call("open", f) \in calls

Finishes(calls, needed) == Editing \in calls => \A f \in needed : calls \cap Writes(f) # {}

\* A tool for users that looks for shadow or writes has passwd, or will.
Watched == Writes("shadow") \cup Writes("passwd") \cup {Call("test", "shadow")}

Guards(calls, tool, mine) ==
  tool \in UserTools \ {"vipw"} /\ calls \cap Watched # {} =>
    "passwd" \in mine \/ Call("lock", "passwd") \in calls

Tests(calls, tool) ==
  /\ \A f \in Files : Call("test", f) \in calls =>
       tool \in Needs \/ (f = ShadowOf(tool) /\ tool \notin {"pwconv", "grpconv"})
  /\ tool = "passwd" /\ Call("lock", "passwd") \in calls => Call("test", "shadow") \in calls
  /\ tool = "passwd" /\ Call("test", "shadow") \in calls => Call("open", "shadow") \in calls

\* What gpasswd and chfn have read before they edit; the checkers go on without
\* a file only when they have looked for it.
HasRead(calls, tool, mem, seen) ==
  Editing \in calls =>
  /\ tool = "gpasswd" =>
       /\ IF Call("test", "gshadow") \in calls THEN mem["gshadow"] = Closed
          ELSE mem["gshadow"] # Closed \/ Call("open", "gshadow") \in calls =>
                 seen["gshadow"] \in EntryOf("gshadow") \cup {None}
       /\ IF Call("read", "group") \in calls THEN Call("check", None) \in calls
          ELSE seen["group"] \in EntryOf("group") \cup {None}
       /\ Call("check", None) \in calls \/ seen["group"] \in EntryOf("group")
  /\ tool = "chfn" =>
       Call("check", None) \in calls \/ seen["passwd"] \in [GecosFields -> STRING]
  /\ tool \in {"pwck", "grpck"} /\ Call("test", ShadowOf(tool)) \in calls =>
       seen[ShadowOf(tool)] # FALSE

PlanOf(calls, job, mem, seen, mine) ==
  /\ KnownFiles(calls, job.tool) /\ Begins(calls)
  /\ Opens(calls, mem) /\ Finishes(calls, Needed(job, seen))
  /\ Guards(calls, job.tool, mine) /\ Tests(calls, job.tool)
  /\ HasRead(calls, job.tool, mem, seen)

(***************************************************************************)
(* The plan of a script at the start, and after each of its calls.         *)
(***************************************************************************)
\* Calls on files are told apart by what they do and to which file.
LEMMA CallFacts ==
  /\ \A c \in Calls : /\ c.do \in {"check", "edit"} \/ c.file \in Files \cup {None}
                      /\ c = Call(c.do, c.file)
  /\ \A c : c \in Before <=> c \in Calls /\ c.do \in {"test", "read", "check", "lock", "open"}
  /\ \A c : c \in After <=> c \in Calls /\ c.do \in {"close", "unlink", "unlock"}
  /\ \A f, c : c \in Writes(f) <=> c = Call("close", f) \/ c = Call("unlink", f)
  /\ \A f, c : c \in Leaves(f) <=> c \in Writes(f) \/ c = Call("unlock", f)
  /\ Editing.do = "edit" /\ Editing.file = None
BY DEF Call, Calls, CallsOf, Before, After, Editing, Writes, Leaves

LEMMA NoneIsNoFile == None \notin Files
BY PasswordToolsAssumption DEF PasswordToolsAssumption

LEMMA UnsetIsNotFalse == Unset # FALSE
BY PasswordToolsAssumption DEF PasswordToolsAssumption

LEMMA PlanNoCalls ==
  ASSUME NEW job, NEW mem, NEW seen, NEW mine
  PROVE  PlanOf({}, job, mem, seen, mine)
BY DEF PlanOf, KnownFiles, Begins, Opens, Finishes, Guards, Tests, HasRead

\* Only unlocks.
LEMMA PlanUnlocks ==
  ASSUME NEW calls, \A c \in calls : c.do = "unlock" /\ c.file \in Files,
         NEW job, NEW mem, NEW seen, NEW mine
  PROVE  PlanOf(calls, job, mem, seen, mine)
<1>1. /\ calls \cap Before = {} /\ Editing \notin calls
      /\ \A f : calls \cap Writes(f) = {} /\ Call("test", f) \notin calls /\ Call("lock", f) \notin calls
      /\ calls \cap Watched = {}
  BY CallFacts, SameCall DEF Watched
<1> QED BY <1>1 DEF PlanOf, KnownFiles, Begins, Opens, Finishes, Guards, Tests, HasRead

\* Looks, and locks.
Quiet(c, calls, mine, more, job, new, mem, seen, now) ==
  /\ c \in Calls /\ c.do \in {"test", "read", "check", "lock"}
  /\ PlanOf({c} \cup calls, job, mem, seen, mine) /\ Follows(c, calls, job.tool)
  /\ new.tool = job.tool /\ mine \subseteq more /\ (c = Call("lock", "passwd") => "passwd" \in more)
  /\ Needed(new, now) \subseteq Needed(job, seen) /\ HasRead(calls, job.tool, mem, now)

LEMMA PlanQuiet ==
  ASSUME NEW c, NEW calls, NEW mine, NEW more, NEW job, NEW new, NEW mem, NEW seen, NEW now,
         Quiet(c, calls, mine, more, job, new, mem, seen, now)
  PROVE  PlanOf(calls, new, mem, now, more) /\ Editing \in calls
<1> USE DEF Quiet
<1>1. /\ c \in Before /\ c # Editing /\ \A f : c \notin Writes(f) /\ c # Call("open", f)
      /\ \A f : c = Call("lock", f) => c # Call("test", "shadow")
  BY CallFacts, SameCall
<1>2. Editing \in calls
  BY <1>1 DEF PlanOf, Begins
<1>3. KnownFiles(calls, job.tool) /\ Begins(calls)
  BY <1>2 DEF PlanOf, KnownFiles, Begins
<1>4. Opens(calls, mem)
  BY <1>1 DEF PlanOf, Opens
<1>5. Finishes(calls, Needed(new, now))
  BY <1>1, <1>2 DEF PlanOf, Finishes
<1>6. Guards(calls, job.tool, more)
  BY <1>1 DEF PlanOf, Guards
<1>7. Tests(calls, job.tool)
  BY <1>1 DEF PlanOf, Tests, Follows
<1> QED BY <1>2, <1>3, <1>4, <1>5, <1>6, <1>7 DEF PlanOf

\* The shadow file is not there, and what would have been done with it is
\* left out.
Drops(f, c, calls, left, mine, job, mem, seen, now) ==
  /\ f \in Files /\ c = Call("test", f) /\ calls \subseteq Calls
  /\ \A e : e \in left <=> e \in calls /\ e.file # f
  /\ job.tool \notin Needs /\ (\A g \in Files \ {f} : now[g] = seen[g])
  /\ job.tool \in {"pwck", "grpck"} => now[f] = FALSE
  /\ PlanOf({c} \cup calls, job, mem, seen, mine) /\ Follows(c, calls, job.tool)

LEMMA PlanDrop ==
  ASSUME NEW f, NEW c, NEW calls, NEW left, NEW mine, NEW job, NEW mem, NEW seen, NEW now,
         Drops(f, c, calls, left, mine, job, mem, seen, now)
  PROVE  PlanOf(left, job, mem, now, mine) /\ f = ShadowOf(job.tool)
<1> USE DEF Drops
<1> DEFINE tool == job.tool
<1>1. f = ShadowOf(tool) /\ tool \notin {"pwconv", "grpconv"}
  BY DEF PlanOf, Tests
<1>2. f \in {"shadow", "gshadow"} /\ TableOf(tool) # f /\ (f = "gshadow" => tool \notin UserTools)
  BY <1>1 DEF ShadowOf, TableOf
<1>3. Needed(job, now) = {TableOf(tool)} /\ TableOf(tool) \in Needed(job, seen)
  BY <1>1 DEF Needed, Fellow, Needs
<1>4. /\ \A g, do : g # f => (Call(do, g) \in left <=> Call(do, g) \in calls)
      /\ \A do : Call(do, f) \notin left
      /\ Editing \in left <=> Editing \in calls
      /\ left \subseteq calls
  <2>1. f # None
    BY NoneIsNoFile
  <2> QED BY <2>1, SameCall DEF Editing
<1>5. /\ c \in Before /\ c # Editing /\ \A g : c \notin Writes(g) /\ c # Call("open", g) /\ c # Call("lock", g)
      /\ c # Call("read", "group") /\ c # Call("check", None)
  BY CallFacts, SameCall DEF Calls, Call
<1>6. Editing \in left
  BY <1>4, <1>5 DEF PlanOf, Begins
<1>7. KnownFiles(left, tool) /\ Begins(left)
  BY <1>4, <1>6 DEF PlanOf, KnownFiles, Begins
<1>8. Opens(left, mem)
  BY <1>4, <1>5, CallFacts DEF PlanOf, Opens
<1>9. Finishes(left, Needed(job, now))
  <2>1. calls \cap Writes(TableOf(tool)) # {}
    BY <1>3, <1>4, <1>5, <1>6 DEF PlanOf, Finishes
  <2> QED BY <1>2, <1>3, <1>4, <2>1, CallFacts DEF Finishes
<1>10. Guards(left, tool, mine)
  BY <1>2, <1>4, <1>5 DEF PlanOf, Guards, Watched
<1>11. Tests(left, tool)
  <2>1. \A g \in Files : Call("test", g) \in left =>
          tool \in Needs \/ (g = ShadowOf(tool) /\ tool \notin {"pwconv", "grpconv"})
    BY <1>4 DEF PlanOf, Tests
  <2>2. tool = "passwd" => f = "shadow"
    BY <1>1 DEF ShadowOf, UserTools
  <2>3. tool = "passwd" => Call("lock", "passwd") \notin left /\ Call("test", "shadow") \notin left
    BY <1>4, <2>2 DEF Follows
  <2> QED BY <2>1, <2>3 DEF Tests
<1>12. HasRead(left, tool, mem, now)
  <2>1. tool = "gpasswd" => f = "gshadow"
    BY <1>1 DEF ShadowOf, UserTools
  <2>2. CASE tool = "gpasswd"
    <3>1. mem["gshadow"] = Closed
      BY <1>4, <1>6, <2>1, <2>2 DEF PlanOf, HasRead
    <3>2. /\ Call("open", "gshadow") \notin left /\ Call("test", "gshadow") \notin left
          /\ Call("read", "group") \in left <=> Call("read", "group") \in {c} \cup calls
          /\ Call("check", None) \in left <=> Call("check", None) \in {c} \cup calls
          /\ now["group"] = seen["group"]
      BY <1>4, <1>5, <2>1, <2>2, SameCall, NoneIsNoFile DEF Files
    <3> QED BY <1>4, <1>6, <2>2, <3>1, <3>2 DEF PlanOf, HasRead
  <2>3. CASE tool # "gpasswd"
    <3>1. Call("check", None) \in left <=> Call("check", None) \in {c} \cup calls
      BY <1>5, SameCall, NoneIsNoFile
    <3>2. now["passwd"] = seen["passwd"]
      BY <1>2 DEF Files
    <3>3. Call("test", ShadowOf(tool)) \notin left
      BY <1>1, <1>4
    <3> QED BY <1>4, <1>6, <2>3, <3>1, <3>2, <3>3 DEF PlanOf, HasRead
  <2> QED BY <2>2, <2>3
<1> QED BY <1>1, <1>7, <1>8, <1>9, <1>10, <1>11, <1>12 DEF PlanOf

\* A file is opened.
LEMMA PlanOpen ==
  ASSUME NEW f \in Files, NEW c, c = Call("open", f), NEW calls, NEW mine, NEW job, NEW seen,
         NEW mem, NEW new, new[f] # Closed, \A g \in Files \ {f} : new[g] = mem[g],
         PlanOf({c} \cup calls, job, mem, seen, mine), Follows(c, calls, job.tool)
  PROVE  PlanOf(calls, job, new, seen, mine) /\ Editing \in calls
<1> DEFINE tool == job.tool
<1>1. /\ c \in Before /\ c # Editing
      /\ \A g : c \notin Writes(g) /\ c # Call("test", g) /\ c # Call("lock", g)
      /\ \A g : g # f => c # Call("open", g)
      /\ c # Call("read", "group") /\ c # Call("check", None)
  BY CallFacts, SameCall DEF Calls, Call
<1>2. Editing \in calls
  BY <1>1 DEF PlanOf, Begins
<1>3. KnownFiles(calls, tool) /\ Begins(calls)
  BY <1>2 DEF PlanOf, KnownFiles, Begins
<1>4. Opens(calls, new)
  BY <1>1 DEF PlanOf, Opens
<1>5. Finishes(calls, Needed(job, seen))
  BY <1>1, <1>2 DEF PlanOf, Finishes
<1>6. Guards(calls, tool, mine)
  BY <1>1 DEF PlanOf, Guards
<1>7. Tests(calls, tool)
  BY <1>1 DEF PlanOf, Tests, Follows
<1>8. HasRead(calls, tool, new, seen)
  <2>1. "gshadow" \in Files
    BY DEF Files
  <2> QED BY <1>1, <1>2, <2>1 DEF PlanOf, HasRead, Follows
<1> QED BY <1>2, <1>3, <1>4, <1>5, <1>6, <1>7, <1>8 DEF PlanOf

\* The edit.
LEMMA PlanEdit ==
  ASSUME NEW calls, NEW mine, NEW job, NEW seen, NEW mem, NEW new,
         \A f \in Files : mem[f] # Closed => new[f] # Closed,
         PlanOf({Editing} \cup calls, job, mem, seen, mine), Follows(Editing, calls, job.tool)
  PROVE  /\ PlanOf(calls, job, new, seen, mine) /\ Editing \notin calls
         /\ \A f \in Needed(job, seen) : calls \cap Writes(f) # {}
<1>1. calls \cap (Before \cup {Editing}) = {}
  BY DEF Follows
<1>2. \A f : /\ Editing \notin Writes(f) /\ Editing # Call("lock", f) /\ Editing # Call("test", f)
             /\ Editing # Call("open", f)
  BY CallFacts, SameCall
<1>3. Editing \notin calls /\ calls \cap Before = {}
      /\ \A f \in Files : /\ Call("test", f) \notin {Editing} \cup calls
                        /\ Call("open", f) \notin {Editing} \cup calls
  BY <1>1, <1>2, KnownCalls
<1>4. KnownFiles(calls, job.tool) /\ Begins(calls)
  BY <1>3 DEF PlanOf, KnownFiles, Begins
<1>5. Opens(calls, new)
  BY <1>3 DEF PlanOf, Opens
<1>6. Finishes(calls, Needed(job, seen)) /\ HasRead(calls, job.tool, new, seen)
  BY <1>3 DEF Finishes, HasRead
<1>7. Guards(calls, job.tool, mine)
  BY <1>2 DEF PlanOf, Guards
<1>8. Tests(calls, job.tool)
  <2>1. Call("lock", "passwd") \notin calls /\ "shadow" \in Files
    BY <1>3, KnownCalls DEF Files
  <2> QED BY <1>3, <2>1 DEF Tests
<1>9. \A f \in Needed(job, seen) : calls \cap Writes(f) # {}
  BY <1>2 DEF PlanOf, Finishes
<1> QED BY <1>3, <1>4, <1>5, <1>6, <1>7, <1>8, <1>9 DEF PlanOf

\* A file is written, removed or given back.
LEMMA PlanLeave ==
  ASSUME NEW f \in Files, NEW c \in Leaves(f), NEW calls, calls \subseteq Calls, NEW mine, NEW less,
         NEW job, NEW seen, NEW mem, NEW new, \A g \in Files \ {f} : new[g] = mem[g],
         less = mine \/ (c = Call("unlock", f) /\ less = mine \ {f}),
         PlanOf({c} \cup calls, job, mem, seen, mine), Follows(c, calls, job.tool)
  PROVE  /\ PlanOf(calls, job, new, seen, less)
         /\ Editing \notin calls /\ Editing \notin {c} \cup calls
<1> DEFINE tool == job.tool
<1>1. c \in After /\ c # Editing /\ c \notin Before
  BY KnownCalls DEF Leaves, Writes
<1>2. calls \cap (Before \cup {Editing}) = {} /\ calls \cap Writes(f) = {}
  BY <1>1 DEF Follows
<1>3. \A g \in Files : /\ Call("test", g) \notin {c} \cup calls /\ Call("lock", g) \notin {c} \cup calls
                       /\ Call("open", g) \notin {c} \cup calls
  BY <1>1, <1>2, KnownCalls
<1>4. "passwd" \in Files /\ "shadow" \in Files
  BY DEF Files
<1>5. KnownFiles(calls, tool) /\ Begins(calls)
  BY <1>2 DEF PlanOf, KnownFiles, Begins
<1>6. Opens(calls, new)
  BY <1>2, <1>3 DEF PlanOf, Opens
<1>7. Finishes(calls, Needed(job, seen)) /\ HasRead(calls, tool, new, seen)
  BY <1>2 DEF Finishes, HasRead
<1>8. Guards(calls, tool, less)
  <2> SUFFICES ASSUME tool \in UserTools \ {"vipw"}, calls \cap Watched # {} PROVE "passwd" \in less
    BY DEF Guards
  <2>1. "passwd" \in mine
    BY <1>3, <1>4 DEF PlanOf, Guards
  <2>2. less = mine \/ f # "passwd"
    BY <1>2, <1>3, <1>4 DEF Follows, Watched
  <2> QED BY <2>1, <2>2
<1>9. Tests(calls, tool)
  BY <1>3, <1>4 DEF Tests
<1> QED BY <1>1, <1>2, <1>5, <1>6, <1>7, <1>8, <1>9 DEF PlanOf

\* The script of a tool that starts.
LEMMA PlanStart ==
  ASSUME NEW job, job.tool \in Tools, NEW mem, \A f \in Files : mem[f] = Closed,
         NEW seen, \A f \in Files : seen[f] = Unset
  PROVE  Ordered(Script(job), job.tool) /\ PlanOf(Range(Script(job)), job, mem, seen, {})
<1> DEFINE calls == Range(Script(job))
           tool == job.tool
           looks == Looks(job)
           files == FilesOf(job)
<1>1. Ordered(Script(job), tool) /\ Makes(Script(job), looks, files, Gone(job))
  BY ToolForms DEF Form, Usual
<1>2. \A c : c \in calls <=> c \in looks \/ Locks(c, files) \/ c = Editing \/ Frees(c, files, Gone(job))
  BY <1>1 DEF Makes
<1>3. /\ \A f \in Files : Call("test", f) \in looks =>
           tool \in Needs \/ (f = ShadowOf(tool) /\ tool \notin {"pwconv", "grpconv"})
      /\ \A c \in looks : /\ c.do \in {"check", "test", "read"}
                         /\ IF c.do = "check" THEN c.file = None ELSE c.file \in Files
      /\ tool = "passwd" => Call("test", "shadow") \in looks
      /\ tool = "gpasswd" => {Call("test", "gshadow"), Call("read", "group"), Call("check", None)} \subseteq looks
      /\ tool = "chfn" => Call("check", None) \in looks
  BY SameCall DEF Looks, Needs, ShadowOf, UserTools, VipwFile, Files
<1>4. tool = "gpasswd" \/ \A c \in looks : c.do # "read"
  BY SameCall DEF Looks
<1>5. /\ files \subseteq Files /\ Gone(job) \subseteq files /\ Gone(job) \subseteq {"shadow", "gshadow"}
      /\ Gone(job) # {} => tool \in {"pwunconv", "grpunconv"}
      /\ Needed(job, seen) \subseteq files
      /\ tool \in UserTools \ {"vipw"} => "passwd" \in files
      /\ tool = "passwd" => "shadow" \in files
      /\ "shadow" \in files => tool \in UserTools
  BY DEF FilesOf, Gone, Needed, Fellow, ShadowOf, TableOf, VipwFile, UserTools, Files, Tools
<1>6. \A c : Locks(c, files) \/ Frees(c, files, Gone(job)) =>
               /\ c.do \in {"lock", "open", "close", "unlink", "unlock"} /\ c.file \in files
               /\ c.do = "unlink" => c.file \in Gone(job)
               /\ \A f : c # Call("test", f)
  BY <1>5, SameCall DEF Locks, Frees
<1>7. \A f \in files : /\ Locks(Call("lock", f), files) /\ Locks(Call("open", f), files)
                       /\ \E c \in Writes(f) : Frees(c, files, Gone(job))
  BY <1>5 DEF Locks, Frees, Writes
<1> HIDE DEF calls, looks, files, tool
<1>8. \A f, c : c \in calls \cap Writes(f) => f \in files
  BY <1>2, <1>3, <1>6, CallFacts, SameCall
<1>9. KnownFiles(calls, tool) /\ Begins(calls)
  <2>1. Editing \in calls
    BY <1>2
  <2>2. \A c \in calls : c \in Writes("shadow") => tool \in UserTools
    BY <1>5, <1>8
  <2>3. \A c \in calls : /\ IF c.do \in {"check", "edit"} THEN c.file = None ELSE c.file \in Files
                         /\ c.do = "unlink" => /\ c.file \in {"shadow", "gshadow"}
                                               /\ tool \in {"pwunconv", "grpunconv"}
    BY <1>2, <1>3, <1>5, <1>6, CallFacts
  <2>4. \A c \in calls : c.do = "read" => tool = "gpasswd"
    BY <1>2, <1>6, <1>4, CallFacts
  <2> QED BY <2>1, <2>2, <2>3, <2>4 DEF KnownFiles, Begins
<1>10. Opens(calls, mem)
  BY <1>2, <1>7, <1>8 DEF Opens
<1>11. Finishes(calls, Needed(job, seen))
  <2>1. \A f \in files : calls \cap Writes(f) # {}
    BY <1>2, <1>7
  <2> QED BY <1>5, <2>1 DEF Finishes
<1>12. Guards(calls, tool, {})
  BY <1>2, <1>5, <1>7 DEF Guards, tool
<1>13. Tests(calls, tool)
  <2>1. \A f \in Files : Call("test", f) \in calls => Call("test", f) \in looks
    BY <1>2, <1>6, CallFacts, SameCall
  <2>2. tool = "passwd" => Call("test", "shadow") \in calls /\ Call("open", "shadow") \in calls
    BY <1>2, <1>3, <1>5, <1>7 DEF tool
  <2> QED BY <1>3, <2>1, <2>2 DEF Tests, tool
<1>14. HasRead(calls, tool, mem, seen)
  <2>1. "gshadow" \in Files /\ ShadowOf(tool) \in Files
    BY DEF Files, ShadowOf
  <2>2. seen[ShadowOf(tool)] # FALSE
    BY <2>1, UnsetIsNotFalse
  <2>3. tool = "gpasswd" =>
          {Call("test", "gshadow"), Call("read", "group"), Call("check", None)} \subseteq calls
    BY <1>2, <1>3
  <2>4. tool = "chfn" => Call("check", None) \in calls
    BY <1>2, <1>3
  <2> QED BY <2>1, <2>2, <2>3, <2>4 DEF HasRead
<1> QED BY <1>1, <1>9, <1>10, <1>11, <1>12, <1>13, <1>14 DEF PlanOf, calls, tool

(***************************************************************************)
(* What a process has of the files, and what it will leave in them.        *)
(***************************************************************************)
\* A file that is not there is opened as an empty table.
Content(d, f) == IF d[f] = Absent THEN <<>> ELSE d[f]
Rows(d, f)    == IF d[f] = Absent THEN {} ELSE DOMAIN d[f]

DiskOK(d) ==
  /\ d = [f \in Files |-> d[f]]
  /\ Holds("passwd", d["passwd"]) /\ Holds("group", d["group"])
  /\ \A f \in {"shadow", "gshadow"} : d[f] = Absent \/ Holds(f, d[f])

\* Until it edits a process has the files as they are.
Fresh(d, calls, mem) ==
  Editing \in calls => \A f \in Files : mem[f] # Closed => mem[f] = Content(d, f)

\* What is in a file when the process has written all that it will write.
Final(d, calls, mem, f) == IF Call("close", f) \in calls THEN mem[f] ELSE Content(d, f)

Fits(tool, table, shadow) ==
  /\ DOMAIN table = DOMAIN shadow
  /\ tool \in {"pwconv", "grpconv"} => \A n \in DOMAIN table : table[n].pw = Shadow
  /\ tool = "grpconv" => \A n \in DOMAIN table : table[n].members = shadow[n].members

Writing(calls) == \E c \in calls : c.do \in {"close", "unlink"}

\* The checkers and converters will leave two files that fit.
Mends(d, calls, mem, mine, tool, seen) ==
  tool \in Checkers /\ Fellow(tool, seen) /\ Editing \notin calls /\ Writing(calls) =>
    /\ TableOf(tool) \in mine /\ ShadowOf(tool) \in mine
    /\ Fits(tool, Final(d, calls, mem, TableOf(tool)), Final(d, calls, mem, ShadowOf(tool)))

\* vipw adds nobody to shadow.
ByHand(d, mem, tool) ==
  tool = "vipw" /\ mem["shadow"] # Closed => DOMAIN mem["shadow"] \subseteq Rows(d, "shadow")

\* passwd goes on without shadow only when nobody is in it.
NoShadow(d, calls, mem, tool) ==
  /\ tool = "passwd" /\ Editing \in calls /\ mem["shadow"] = Closed
  /\ Call("test", "shadow") \notin calls /\ Call("open", "shadow") \notin calls
  => Rows(d, "shadow") = {}

\* A plain user changes no password that is barred.
Bars(d, calls, mem, job) ==
  job.tool = "passwd" /\ job.by # Root /\ Editing \notin calls =>
  /\ Call("close", "shadow") \in calls =>
       /\ DOMAIN mem["shadow"] = Rows(d, "shadow")
       /\ \A n \in Rows(d, "shadow") :
            \/ mem["shadow"][n] = d["shadow"][n]
            \/ ~d["shadow"][n].pw.locked /\ ~AccountExpired(d["shadow"][n].age, Today)
  /\ Call("close", "passwd") \in calls =>
       /\ DOMAIN mem["passwd"] = DOMAIN d["passwd"]
       /\ \A n \in DOMAIN d["passwd"] :
            \/ mem["passwd"][n] = d["passwd"][n]
            \/ ~d["passwd"][n].pw.locked /\ n \notin Rows(d, "shadow")

StateOf(d, mine, calls, job, mem, seen) ==
  /\ Fresh(d, calls, mem) /\ Mends(d, calls, mem, mine, job.tool, seen)
  /\ ByHand(d, mem, job.tool) /\ NoShadow(d, calls, mem, job.tool)
  /\ Bars(d, calls, mem, job)

\* An empty file.
LEMMA NoRows == ASSUME NEW f PROVE Holds(f, <<>>) /\ DOMAIN <<>> = {}
<1>1. <<>> \in [{} -> EntryOf(f)] /\ DOMAIN <<>> = {}
  OBVIOUS
<1> QED BY <1>1 DEF Holds, IsTable

LEMMA NotClosed == ASSUME NEW f \in Files, NEW t, Holds(f, t) PROVE t # Closed /\ t # Absent
BY PasswordToolsAssumption DEF PasswordToolsAssumption

\* What is opened, and what is in it.
LEMMA ContentHolds ==
  ASSUME NEW d, DiskOK(d), NEW f \in Files
  PROVE  Holds(f, Content(d, f)) /\ DOMAIN Content(d, f) = Rows(d, f)
BY NoRows DEF DiskOK, Content, Rows, Files

LEMMA StateIdle ==
  ASSUME NEW d, NEW mine, NEW job, NEW seen, NEW mem, mem["shadow"] = Closed
  PROVE  StateOf(d, mine, {}, job, mem, seen)
BY DEF StateOf, Fresh, Mends, ByHand, NoShadow, Bars, Writing

\* Nothing but unlocks is left.
LEMMA StateUnlocks ==
  ASSUME NEW d, NEW mine, NEW job, NEW seen, NEW mem, ByHand(d, mem, job.tool),
         NEW calls, \A c \in calls : c.do = "unlock"
  PROVE  StateOf(d, mine, calls, job, mem, seen)
<1>1. Editing \notin calls /\ \A f : Call("close", f) \notin calls
  BY CallFacts, SameCall
<1> QED BY <1>1 DEF StateOf, Fresh, Mends, NoShadow, Bars, Writing

\* Before the edit.
LEMMA StateBefore ==
  ASSUME NEW d, NEW mine, NEW job, NEW seen, NEW mem, NEW calls, Editing \in calls,
         Fresh(d, calls, mem), ByHand(d, mem, job.tool), NoShadow(d, calls, mem, job.tool)
  PROVE  StateOf(d, mine, calls, job, mem, seen)
BY DEF StateOf, Mends, Bars

LEMMA StateQuiet ==
  ASSUME NEW d, NEW c, NEW calls, NEW left, left \subseteq calls, NEW mine, NEW more,
         NEW job, NEW new, new.tool = job.tool, NEW mem, NEW seen, NEW now,
         StateOf(d, mine, {c} \cup calls, job, mem, seen), Editing \in left,
         NoShadow(d, left, mem, job.tool)
  PROVE  StateOf(d, more, left, new, mem, now)
<1>1. Fresh(d, left, mem) /\ ByHand(d, mem, new.tool) /\ NoShadow(d, left, mem, new.tool)
  BY DEF StateOf, Fresh
<1> QED BY <1>1, StateBefore

LEMMA StateOpen ==
  ASSUME NEW d, DiskOK(d), NEW f \in Files, NEW c, c = Call("open", f), NEW calls, NEW mine,
         NEW job, NEW seen, NEW mem, NEW new, new[f] = Content(d, f),
         \A g \in Files \ {f} : new[g] = mem[g],
         StateOf(d, mine, {c} \cup calls, job, mem, seen), Editing \in calls
  PROVE  StateOf(d, mine, calls, job, new, seen)
<1>1. "shadow" \in Files
  BY DEF Files
<1>2. Fresh(d, calls, new)
  BY DEF StateOf, Fresh
<1>3. ByHand(d, new, job.tool)
  BY <1>1, ContentHolds DEF StateOf, ByHand
<1>4. NoShadow(d, calls, new, job.tool)
  <2>1. f = "shadow" => new["shadow"] # Closed
    BY ContentHolds, NotClosed
  <2>2. c # Call("test", "shadow") /\ (f # "shadow" => c # Call("open", "shadow"))
    BY SameCall
  <2> QED BY <1>1, <2>1, <2>2 DEF StateOf, NoShadow
<1> QED BY <1>2, <1>3, <1>4, StateBefore

\* A file is written.
LEMMA StateClose ==
  ASSUME NEW d, DiskOK(d), NEW f \in Files, NEW c, c = Call("close", f), NEW calls, NEW mine,
         NEW job, NEW seen, NEW mem, Holds(f, mem[f]),
         NEW new, new[f] = Closed, \A g \in Files \ {f} : new[g] = mem[g],
         NEW e, e[f] = mem[f] \/ (d[f] = Absent /\ mem[f] = <<>> /\ e[f] = d[f]),
         \A g \in Files \ {f} : e[g] = d[g],
         StateOf(d, mine, {c} \cup calls, job, mem, seen), Follows(c, calls, job.tool)
  PROVE  StateOf(e, mine, calls, job, new, seen)
<1>1. "shadow" \in Files /\ "passwd" \in Files
  BY DEF Files
<1>2. /\ Editing \notin {c} \cup calls /\ \A g : Call("close", g) \in calls => g # f
      /\ \A g : g # f => (Call("close", g) \in calls <=> Call("close", g) \in {c} \cup calls)
      /\ Writing({c} \cup calls)
  <2>1. c \in Leaves(f) /\ c \in After /\ c \in Writes(f) /\ c # Editing
    BY KnownCalls DEF Leaves, Writes
  <2>2. calls \cap (Before \cup {Editing}) = {} /\ calls \cap Writes(f) = {}
    BY <2>1 DEF Follows
  <2>3. c.do = "close"
    BY SameCall
  <2> QED BY <2>1, <2>2, <2>3, SameCall DEF Writing, Writes
<1>3. Content(e, f) = mem[f] /\ Rows(e, f) = DOMAIN mem[f] /\ mem[f] # Absent
  BY NotClosed, NoRows DEF Content, Rows
<1>4. \A g \in Files \ {f} : Content(e, g) = Content(d, g) /\ Rows(e, g) = Rows(d, g)
  BY DEF Content, Rows
<1>5. Fresh(e, calls, new) /\ NoShadow(e, calls, new, job.tool)
  BY <1>2 DEF Fresh, NoShadow
<1>6. ByHand(e, new, job.tool)
  BY <1>1, <1>4 DEF StateOf, ByHand
<1>7. Mends(e, calls, new, mine, job.tool, seen)
  <2>1. \A g \in Files : Final(e, calls, new, g) = Final(d, {c} \cup calls, mem, g)
    BY <1>2, <1>3, <1>4 DEF Final
  <2>2. TableOf(job.tool) \in Files /\ ShadowOf(job.tool) \in Files
    BY DEF TableOf, ShadowOf, Files
  <2>3. Mends(d, {c} \cup calls, mem, mine, job.tool, seen)
    BY DEF StateOf
  <2> QED BY <1>2, <2>1, <2>2, <2>3 DEF Mends
<1>8. Bars(e, calls, new, job)
  <2>1. Bars(d, {c} \cup calls, mem, job)
    BY DEF StateOf
  <2>2. f = "shadow" /\ job.tool = "passwd" /\ job.by # Root => Rows(e, "shadow") = Rows(d, "shadow")
    BY <1>2, <1>3, <2>1 DEF Bars
  <2> QED BY <1>1, <1>2, <1>4, <2>1, <2>2 DEF Bars
<1> QED BY <1>5, <1>6, <1>7, <1>8 DEF StateOf

\* A file is removed, by a tool that neither mends nor bars.
LEMMA StateUnlink ==
  ASSUME NEW f \in Files, NEW c, c = Call("unlink", f), NEW calls, NEW mine, NEW job,
         job.tool \in {"pwunconv", "grpunconv"}, NEW seen, NEW new, NEW e,
         Follows(c, calls, job.tool)
  PROVE  StateOf(e, mine, calls, job, new, seen)
<1>1. Editing \notin calls
  BY KnownCalls DEF Follows
<1> QED BY <1>1 DEF StateOf, Fresh, Mends, ByHand, NoShadow, Bars, Checkers

\* A file is given back.
LEMMA StateUnlock ==
  ASSUME NEW d, NEW f \in Files, NEW c, c = Call("unlock", f), NEW calls, calls \subseteq Calls,
         NEW tool, KnownFiles(calls, tool), NEW mine, NEW less, NEW job, job.tool = tool, NEW seen, NEW mem,
         NEW new, new[f] = Closed, \A g \in Files \ {f} : new[g] = mem[g],
         StateOf(d, mine, {c} \cup calls, job, mem, seen), Follows(c, calls, job.tool)
  PROVE  StateOf(d, less, calls, job, new, seen)
<1>1. "shadow" \in Files /\ "passwd" \in Files
  BY DEF Files
<1>2. /\ Editing \notin {c} \cup calls /\ \A g : Call("close", g) \in calls => g # f
  <2>1. c \in Leaves(f) /\ c \in After /\ c # Editing
    BY KnownCalls DEF Leaves
  <2>2. calls \cap (Before \cup {Editing}) = {} /\ calls \cap Writes(f) = {}
    BY <2>1 DEF Follows
  <2> QED BY <2>1, <2>2 DEF Writes
<1>3. Fresh(d, calls, new) /\ NoShadow(d, calls, new, tool)
  BY <1>2 DEF Fresh, NoShadow
<1>4. ByHand(d, new, tool)
  BY <1>1 DEF StateOf, ByHand
<1>5. Mends(d, calls, new, less, tool, seen)
  <2> SUFFICES ASSUME tool \in Checkers, NEW e \in calls, e.do \in {"close", "unlink"} PROVE FALSE
    BY DEF Mends, Writing
  <2>1. e.file \in Files /\ e \in Writes(e.file)
    BY CallFacts DEF KnownFiles
  <2> QED BY <2>1 DEF Follows
<1>6. Bars(d, calls, new, job)
  <2>1. Bars(d, {c} \cup calls, mem, job)
    BY DEF StateOf
  <2> QED BY <1>1, <1>2, <2>1 DEF Bars
<1> QED BY <1>3, <1>4, <1>5, <1>6 DEF StateOf

\* Another process writes a file that this one has not locked.
LEMMA StateOther ==
  ASSUME NEW d, NEW e, NEW mine, \A f \in mine : e[f] = d[f], NEW calls, calls \subseteq Calls,
         NEW job, NEW seen, NEW mem, \A f \in Files : mem[f] # Closed => f \in mine,
         PlanOf(calls, job, mem, seen, mine), StateOf(d, mine, calls, job, mem, seen),
         job.tool = "passwd" /\ "passwd" \in mine => Rows(e, "shadow") \subseteq Rows(d, "shadow")
  PROVE  StateOf(e, mine, calls, job, mem, seen)
<1>1. "shadow" \in Files /\ "passwd" \in Files
  BY DEF Files
<1>2. \A f \in mine : Content(e, f) = Content(d, f) /\ Rows(e, f) = Rows(d, f)
  BY DEF Content, Rows
<1>3. Fresh(e, calls, mem)
  BY <1>2 DEF StateOf, Fresh
<1>4. Mends(e, calls, mem, mine, job.tool, seen)
  BY <1>2 DEF StateOf, Mends, Final
<1>5. ByHand(e, mem, job.tool)
  BY <1>1, <1>2 DEF StateOf, ByHand
<1>6. NoShadow(e, calls, mem, job.tool)
  <2> SUFFICES ASSUME job.tool = "passwd", Editing \in calls, mem["shadow"] = Closed,
                      Call("test", "shadow") \notin calls, Call("open", "shadow") \notin calls
               PROVE  Rows(e, "shadow") = {}
    BY DEF NoShadow
  <2>1. Rows(d, "shadow") = {}
    BY DEF StateOf, NoShadow
  <2>2. "passwd" \in Needed(job, seen) /\ job.tool \in UserTools \ {"vipw"}
    BY DEF Needed, TableOf, UserTools
  <2>3. calls \cap Watched # {}
    BY <2>2 DEF PlanOf, Finishes, Watched
  <2>4. "passwd" \in mine
    BY <2>2, <2>3 DEF PlanOf, Guards, Tests
  <2> QED BY <2>1, <2>4
<1>7. Bars(e, calls, mem, job)
  <2> SUFFICES ASSUME job.tool = "passwd", Editing \notin calls PROVE Bars(e, calls, mem, job)
    BY DEF Bars
  <2>1. ASSUME NEW f \in Files, Call("close", f) \in calls PROVE f \in mine
    <3>1. Call("open", f) \notin calls
      BY KnownCalls DEF PlanOf, Begins
    <3> QED BY <2>1, <3>1, CallFacts DEF PlanOf, Opens
  <2> QED BY <1>1, <1>2, <2>1 DEF StateOf, Bars
<1> QED BY <1>3, <1>4, <1>5, <1>6, <1>7 DEF StateOf

(***************************************************************************)
(* What the edits make of the files.                                       *)
(***************************************************************************)
\* Some values over others.
LEMMA OverTable ==
  ASSUME NEW S, NEW V, NEW t, NEW u, IsTable(t, S, V), IsTable(u, S, V)
  PROVE  /\ IsTable(Over(u, t), S, V) /\ DOMAIN Over(u, t) = DOMAIN u \cup DOMAIN t
         /\ \A n \in DOMAIN u \cup DOMAIN t :
              Over(u, t)[n] = IF n \in DOMAIN u THEN u[n] ELSE t[n]
BY DEF IsTable, Over

LEMMA OverAll ==
  ASSUME NEW S, NEW V, NEW t \in [S -> V], NEW u, IsTable(u, S, V)
  PROVE  Over(u, t) \in [S -> V]
BY DEF IsTable, Over

\* A table whose values are right.
LEMMA NewTable ==
  ASSUME NEW S, NEW V, NEW N, N \subseteq S, NEW t, t = [n \in N |-> t[n]], \A n \in N : t[n] \in V
  PROVE  IsTable(t, S, V) /\ DOMAIN t = N
<1>1. DOMAIN t = N
  OBVIOUS
<1>2. t \in [N -> V]
  OBVIOUS
<1> QED BY <1>1, <1>2 DEF IsTable

LEMMA OfTable ==
  ASSUME NEW S, NEW V, NEW t, IsTable(t, S, V)
  PROVE  DOMAIN t \subseteq S /\ \A n \in DOMAIN t : t[n] \in V
BY DEF IsTable

LEMMA PutTable ==
  ASSUME NEW S, NEW V, NEW t, IsTable(t, S, V), NEW n \in S, NEW e \in V
  PROVE  IsTable(Put(t, n, e), S, V) /\ DOMAIN Put(t, n, e) = DOMAIN t \cup {n}
<1> DEFINE u == Put(t, n, e)
           N == DOMAIN t \cup {n}
<1>1. N \subseteq S /\ \A m \in DOMAIN t : t[m] \in V
  BY OfTable
<1>2. u = [m \in N |-> u[m]] /\ \A m \in N : u[m] = IF m = n THEN e ELSE t[m]
  BY DEF Put
<1>3. \A m \in N : u[m] \in V
  BY <1>1, <1>2
<1> HIDE DEF u, N
<1>4. IsTable(u, S, V) /\ DOMAIN u = N
  BY <1>1, <1>2, <1>3, NewTable
<1> QED BY <1>4 DEF u, N

\* The files as a process has them, and those that it has open.
Typed(mem) == mem = [f \in Files |-> mem[f]] /\ \A f \in Files : mem[f] # Closed => Holds(f, mem[f])
OpenIn(mem) == {f \in Files : mem[f] # Closed}

\* What an edit may make of them.
Edits(mem, new) == Typed(new) /\ OpenIn(new) = OpenIn(mem)

LEMMA EditNothing == ASSUME NEW mem, Typed(mem) PROVE Edits(mem, mem)
BY DEF Edits

\* One file changed.
With(mem, f, t) == [mem EXCEPT ![f] = t]

LEMMA EditOne ==
  ASSUME NEW mem, Typed(mem), NEW f \in OpenIn(mem), NEW t, Holds(f, t)
  PROVE  /\ Edits(mem, With(mem, f, t)) /\ With(mem, f, t)[f] = t
         /\ \A g \in Files \ {f} : With(mem, f, t)[g] = mem[g]
<1> DEFINE new == With(mem, f, t)
<1>1. f \in Files /\ t # Closed
  BY NotClosed DEF OpenIn
<1>2. new = [g \in Files |-> IF g = f THEN t ELSE mem[g]]
  BY <1>1 DEF Typed, With
<1> HIDE DEF new
<1>3. Edits(mem, new) /\ new[f] = t /\ \A g \in Files \ {f} : new[g] = mem[g]
  BY <1>1, <1>2 DEF Edits, Typed, OpenIn
<1> QED BY <1>3 DEF new

\* Two files changed, the second when it is open.
WithTwo(mem, f, t, g, u) == [mem EXCEPT ![f] = t, ![g] = u]

LEMMA EditTwo ==
  ASSUME NEW mem, Typed(mem), NEW f \in OpenIn(mem), NEW g \in Files, f # g, NEW t, Holds(f, t),
         NEW u, IF g \in OpenIn(mem) THEN Holds(g, u) ELSE u = Closed
  PROVE  /\ Edits(mem, WithTwo(mem, f, t, g, u))
         /\ WithTwo(mem, f, t, g, u)[f] = t /\ WithTwo(mem, f, t, g, u)[g] = u
<1> DEFINE new == WithTwo(mem, f, t, g, u)
<1>1. f \in Files /\ t # Closed /\ (g \in OpenIn(mem) => u # Closed)
  BY NotClosed DEF OpenIn
<1>2. new = [h \in Files |-> IF h = g THEN u ELSE IF h = f THEN t ELSE mem[h]]
  BY <1>1 DEF Typed, WithTwo
<1> HIDE DEF new
<1>3. Edits(mem, new) /\ new[f] = t /\ new[g] = u
  BY <1>1, <1>2 DEF Edits, Typed, OpenIn
<1> QED BY <1>3 DEF new

\* The entries of each file, and their fields.
LEMMA PasswdEntries ==
  ASSUME NEW e \in EntryOf("passwd")
  PROVE  /\ e.pw \in Passwords /\ e.gecos \in [GecosFields -> STRING]
         /\ \A pw \in Passwords : /\ [e EXCEPT !.pw = pw] \in EntryOf("passwd")
                                 /\ [e EXCEPT !.pw = pw].pw = pw
         /\ \A gecos \in [GecosFields -> STRING] : [e EXCEPT !.gecos = gecos] \in EntryOf("passwd")
         /\ \A shell \in STRING : [e EXCEPT !.shell = shell] \in EntryOf("passwd")
<1> DEFINE G == [GecosFields -> STRING]
<1>1. EntryOf("passwd") = [pw : Passwords, gecos : G, shell : STRING]
  BY DEF EntryOf
<1> HIDE DEF G
<1>2. e \in [pw : Passwords, gecos : G, shell : STRING]
  BY <1>1
<1>3. e.pw \in Passwords /\ e.gecos \in G
  BY <1>2
<1>4. \A pw \in Passwords : /\ [e EXCEPT !.pw = pw] \in [pw : Passwords, gecos : G, shell : STRING]
                            /\ [e EXCEPT !.pw = pw].pw = pw
  BY <1>2
<1>5. \A gecos \in G : [e EXCEPT !.gecos = gecos] \in [pw : Passwords, gecos : G, shell : STRING]
  BY <1>2
<1>6. \A shell \in STRING : [e EXCEPT !.shell = shell] \in [pw : Passwords, gecos : G, shell : STRING]
  BY <1>2
<1> QED BY <1>1, <1>3, <1>4, <1>5, <1>6 DEF G

LEMMA ShadowEntries ==
  /\ \A pw \in Passwords, age \in [AgeFields -> Int] : [pw |-> pw, age |-> age] \in EntryOf("shadow")
  /\ \A e \in EntryOf("shadow") : e.pw \in Passwords /\ e.age \in [AgeFields -> Int]
BY DEF EntryOf

LEMMA GroupEntries ==
  /\ \A pw \in Passwords, members \in SUBSET Names : [pw |-> pw, members |-> members] \in EntryOf("group")
  /\ \A e \in EntryOf("group") :
       /\ e.pw \in Passwords /\ e.members \in SUBSET Names
       /\ \A pw \in Passwords : [e EXCEPT !.pw = pw] \in EntryOf("group")
       /\ \A members \in SUBSET Names : [e EXCEPT !.members = members] \in EntryOf("group")
<1> DEFINE E == [pw : Passwords, members : SUBSET Names]
<1>1. EntryOf("group") = E
  BY DEF EntryOf
<1>2. \A e \in E :
        /\ e.pw \in Passwords /\ e.members \in SUBSET Names
        /\ \A pw \in Passwords : [e EXCEPT !.pw = pw] \in E
        /\ \A members \in SUBSET Names : [e EXCEPT !.members = members] \in E
  OBVIOUS
<1>3. \A pw \in Passwords, members \in SUBSET Names : [pw |-> pw, members |-> members] \in E
  OBVIOUS
<1> HIDE DEF E
<1> QED BY <1>1, <1>2, <1>3

LEMMA GshadowEntries ==
  /\ \A pw \in Passwords, admins \in SUBSET Names, members \in SUBSET Names :
       [pw |-> pw, admins |-> admins, members |-> members] \in EntryOf("gshadow")
  /\ \A e \in EntryOf("gshadow") :
       /\ e.pw \in Passwords /\ e.admins \in SUBSET Names /\ e.members \in SUBSET Names
       /\ e = [pw |-> e.pw, admins |-> e.admins, members |-> e.members]
       /\ \A pw \in Passwords : [e EXCEPT !.pw = pw] \in EntryOf("gshadow")
<1> DEFINE E == [pw : Passwords, admins : SUBSET Names, members : SUBSET Names]
<1>1. EntryOf("gshadow") = E
  BY DEF EntryOf
<1>2. \A e \in E :
       /\ e.pw \in Passwords /\ e.admins \in SUBSET Names /\ e.members \in SUBSET Names
       /\ e = [pw |-> e.pw, admins |-> e.admins, members |-> e.members]
       /\ \A pw \in Passwords : [e EXCEPT !.pw = pw] \in E
  OBVIOUS
<1>3. \A pw \in Passwords, admins \in SUBSET Names, members \in SUBSET Names :
       [pw |-> pw, admins |-> admins, members |-> members] \in E
  OBVIOUS
<1> QED BY <1>1, <1>2, <1>3

LEMMA PasswordValues ==
  /\ Shadow \in Passwords /\ NoPassword \in Passwords
  /\ \A pw \in Passwords : Lock(pw) \in Passwords /\ Unlock(pw) \in Passwords
<1>1. Shadow \in Passwords /\ NoPassword \in Passwords
  <2>1. \A b \in BOOLEAN, h \in Hashes : [locked |-> b, hash |-> h] \in Passwords
    BY DEF Passwords
  <2>2. FALSE \in BOOLEAN
    OBVIOUS
  <2>3. "" \in Hashes /\ "x" \in Hashes
    BY PasswordToolsAssumption DEF PasswordToolsAssumption
  <2> QED BY <2>1, <2>2, <2>3 DEF Shadow, NoPassword, Hashed
<1>2. ASSUME NEW pw \in Passwords PROVE Lock(pw) \in Passwords /\ Unlock(pw) \in Passwords
  <2>1. pw \in [locked : BOOLEAN, hash : Hashes]
    BY DEF Passwords
  <2>2. /\ [pw EXCEPT !.locked = TRUE] \in [locked : BOOLEAN, hash : Hashes]
        /\ [pw EXCEPT !.locked = FALSE] \in [locked : BOOLEAN, hash : Hashes]
    BY <2>1
  <2> QED BY <2>2 DEF Passwords, Lock, Unlock
<1> QED BY <1>1, <1>2

LEMMA AgeValues ==
  /\ NoAge \in [AgeFields -> Int] /\ NewAge \in [AgeFields -> Int]
  /\ \A age \in [AgeFields -> Int], n \in Int : [age EXCEPT !["lstchg"] = n] \in [AgeFields -> Int]
<1>1. \A age \in [AgeFields -> Int], n \in Int : [age EXCEPT !["lstchg"] = n] \in [AgeFields -> Int]
  OBVIOUS
<1>2. NoAge \in [AgeFields -> Int]
  BY DEF NoAge
<1> QED BY <1>1, <1>2, PasswordToolsAssumption DEF NewAge, PasswordToolsAssumption

\* The password, or more, of an entry.
LEMMA ChangeTable ==
  ASSUME NEW S, NEW V, NEW t, IsTable(t, S, V), NEW n \in DOMAIN t, NEW e \in V,
         NEW u, u = [t EXCEPT ![n] = e]
  PROVE  /\ IsTable(u, S, V) /\ DOMAIN u = DOMAIN t /\ u[n] = e
         /\ \A m \in DOMAIN t : m # n => u[m] = t[m]
BY DEF IsTable

LEMMA OpenTable ==
  ASSUME NEW mem, Typed(mem), NEW f \in OpenIn(mem)
  PROVE  /\ f \in Files /\ Holds(f, mem[f]) /\ DOMAIN mem[f] \subseteq Names
         /\ \A n \in DOMAIN mem[f] : mem[f][n] \in EntryOf(f)
<1>1. f \in Files /\ mem[f] # Closed
  BY DEF OpenIn
<1>2. Holds(f, mem[f])
  BY <1>1 DEF Typed
<1> QED BY <1>1, <1>2, OfTable DEF Holds

LEMMA PasswdField ==
  ASSUME NEW mem, Typed(mem), "passwd" \in OpenIn(mem), NEW n \in DOMAIN mem["passwd"],
         NEW e \in EntryOf("passwd"), NEW t, t = [mem["passwd"] EXCEPT ![n] = e],
         NEW new, new = With(mem, "passwd", t)
  PROVE  /\ Edits(mem, new) /\ new["passwd"] = t /\ DOMAIN t = DOMAIN mem["passwd"] /\ t[n] = e
         /\ \A m \in DOMAIN t : m # n => t[m] = mem["passwd"][m]
         /\ \A g \in Files \ {"passwd"} : new[g] = mem[g]
<1> DEFINE f == "passwd"
<1>1. Holds(f, mem[f])
  BY OpenTable
<1>2. Holds(f, t) /\ DOMAIN t = DOMAIN mem[f] /\ t[n] = e /\ \A m \in DOMAIN t : m # n => t[m] = mem[f][m]
  BY <1>1, ChangeTable DEF Holds
<1> HIDE DEF f
<1>3. f \in OpenIn(mem) /\ new = With(mem, f, t)
  BY DEF f, With
<1>4. Edits(mem, new) /\ new[f] = t /\ \A g \in Files \ {f} : new[g] = mem[g]
  BY <1>2, <1>3, EditOne
<1> QED BY <1>2, <1>4 DEF f

LEMMA PutPasswordEdits ==
  ASSUME NEW mem, Typed(mem), "passwd" \in OpenIn(mem), NEW n \in DOMAIN mem["passwd"],
         NEW pw \in Passwords, NEW new, new = PutPassword(mem, n, pw)
  PROVE  /\ Edits(mem, new) /\ DOMAIN new["passwd"] = DOMAIN mem["passwd"]
         /\ \A m \in DOMAIN mem["passwd"] : m # n => new["passwd"][m] = mem["passwd"][m]
         /\ \A g \in Files \ {"passwd"} : new[g] = mem[g]
<1> DEFINE e == [mem["passwd"][n] EXCEPT !.pw = pw]
           t == [mem["passwd"] EXCEPT ![n] = e]
<1>1. mem["passwd"][n] \in EntryOf("passwd")
  BY OpenTable
<1>2. e \in EntryOf("passwd")
  BY <1>1, PasswdEntries
<1>3. new = With(mem, "passwd", t)
  BY DEF PutPassword, With
<1> HIDE DEF e
<1>4. t = [mem["passwd"] EXCEPT ![n] = e]
  OBVIOUS
<1> HIDE DEF t
<1>5. /\ Edits(mem, new) /\ new["passwd"] = t /\ DOMAIN t = DOMAIN mem["passwd"]
      /\ \A m \in DOMAIN t : m # n => t[m] = mem["passwd"][m]
      /\ \A g \in Files \ {"passwd"} : new[g] = mem[g]
  BY <1>2, <1>3, <1>4, PasswdField
<1> QED BY <1>5

LEMMA PutShadowEdits ==
  ASSUME NEW mem, Typed(mem), "shadow" \in OpenIn(mem), NEW n \in Names,
         NEW pw \in Passwords, NEW age \in [AgeFields -> Int],
         NEW new, new = PutShadow(mem, n, pw, age)
  PROVE  /\ Edits(mem, new) /\ DOMAIN new["shadow"] = DOMAIN mem["shadow"] \cup {n}
         /\ \A m \in DOMAIN mem["shadow"] : m # n => new["shadow"][m] = mem["shadow"][m]
         /\ \A g \in Files \ {"shadow"} : new[g] = mem[g]
<1> DEFINE f == "shadow"
           e == [pw |-> pw, age |-> age]
           t == Put(mem[f], n, e)
<1>1. Holds(f, mem[f]) /\ IsTable(mem[f], Names, EntryOf(f))
  BY OpenTable DEF Holds
<1>2. e \in EntryOf(f)
  BY ShadowEntries
<1>3. f \in OpenIn(mem) /\ new = With(mem, f, t)
  BY DEF PutShadow, With
<1>4. \A m \in DOMAIN mem[f] : m # n => t[m] = mem[f][m]
  BY DEF Put
<1> HIDE DEF e, f
<1>5. IsTable(t, Names, EntryOf(f)) /\ DOMAIN t = DOMAIN mem[f] \cup {n}
  BY <1>1, <1>2, PutTable
<1> HIDE DEF t, f
<1>6. Edits(mem, new) /\ new[f] = t /\ \A g \in Files \ {f} : new[g] = mem[g]
  BY <1>3, <1>5, EditOne DEF Holds
<1> QED BY <1>4, <1>5, <1>6 DEF f

(***************************************************************************)
(* passwd                                                                  *)
(***************************************************************************)
\* What is on a command line.
LEMMA JobFacts ==
  ASSUME NEW job, WellFormed(job)
  PROVE  /\ job.pw # Unset => job.pw \in Passwords
         /\ IsTable(job.age, AgeFields, Int) /\ IsTable(job.gecos, GecosFields, STRING)
         /\ job.users \subseteq Names /\ job.admins \subseteq Names
BY DEF WellFormed

LEMMA UpdatePw ==
  ASSUME NEW job, WellFormed(job), NEW pw \in Passwords, NEW new \in UpdateCryptPw(job, pw)
  PROVE  new \in Passwords
<1> DEFINE first == CASE "d" \in job.flags -> NoPassword
                      [] "d" \notin job.flags /\ job.pw # Unset -> job.pw
                      [] OTHER -> pw
           unlocked == IF "u" \in job.flags THEN Unlock(first) ELSE first
<1>1. first \in Passwords
  BY JobFacts, PasswordValues
<1> HIDE DEF first
<1>2. unlocked \in Passwords
  BY <1>1, PasswordValues
<1>3. new = IF "l" \in job.flags THEN Lock(unlocked) ELSE unlocked
  BY DEF UpdateCryptPw, first
<1> HIDE DEF unlocked
<1> QED BY <1>2, <1>3, PasswordValues

\* The age of an entry is changed here and there.
LEMMA NewAges ==
  ASSUME NEW job, WellFormed(job), NEW age \in [AgeFields -> Int], NEW day \in Int
  PROVE  /\ Over(job.age, age) \in [AgeFields -> Int]
         /\ [Over(job.age, age) EXCEPT !["lstchg"] = day] \in [AgeFields -> Int]
         /\ age["lstchg"] \in Int /\ Over(job.age, age)["lstchg"] \in Int
<1>1. Over(job.age, age) \in [AgeFields -> Int]
  BY JobFacts, OverAll
<1>2. "lstchg" \in AgeFields
  BY DEF AgeFields
<1> QED BY <1>1, <1>2, AgeValues

LEMMA TodayIsDay == Today \in Int
BY PasswordToolsAssumption DEF PasswordToolsAssumption

\* passwd changes the entry of one user, in shadow when it is there, and
\* has looked at the one that it changes.
LEMMA PasswdEdits ==
  ASSUME NEW job, WellFormed(job), NEW mem, Typed(mem), "passwd" \in OpenIn(mem),
         NEW new \in PasswdEdit(job, mem)
  PROVE  /\ Edits(mem, new)
         /\ \E n \in DOMAIN mem["passwd"] :
              \/ /\ Has(mem, "shadow", n) /\ new["passwd"] = mem["passwd"]
                 /\ DOMAIN new["shadow"] = DOMAIN mem["shadow"]
                 /\ \A k \in DOMAIN mem["shadow"] : k # n => new["shadow"][k] = mem["shadow"][k]
                 /\ CheckPassword(job, mem["passwd"][n].pw, mem["shadow"][n])
              \/ /\ ~Has(mem, "shadow", n) /\ new["shadow"] = mem["shadow"]
                 /\ DOMAIN new["passwd"] = DOMAIN mem["passwd"]
                 /\ \A k \in DOMAIN mem["passwd"] : k # n => new["passwd"][k] = mem["passwd"][k]
                 /\ CheckPassword(job, mem["passwd"][n].pw, [pw |-> mem["passwd"][n].pw, age |-> NoAge])
<1>1. "passwd" \in Files /\ "shadow" \in Files
  BY DEF Files
<1>2. PICK n \in DOMAIN mem["passwd"] :
        new \in IF Has(mem, "shadow", n) THEN UpdateShadow(job, mem, n) ELSE UpdateNoshadow(job, mem, n)
  BY DEF PasswdEdit, Located
<1>3. CASE Has(mem, "shadow", n)
  <2> DEFINE sp == mem["shadow"][n]
             last == CASE "e" \in job.flags -> 0
                       [] "e" \notin job.flags /\ job.pw # Unset -> Today
                       [] OTHER -> Over(job.age, sp.age)["lstchg"]
             age == [Over(job.age, sp.age) EXCEPT !["lstchg"] = last]
  <2>1. "shadow" \in OpenIn(mem) /\ n \in DOMAIN mem["shadow"]
    BY <1>1, <1>3 DEF Has, OpenIn
  <2>2. sp \in EntryOf("shadow") /\ n \in Names
    BY <2>1, OpenTable
  <2>3. sp.pw \in Passwords /\ sp.age \in [AgeFields -> Int]
    BY <2>2, ShadowEntries
  <2>4. PICK pw \in UpdateCryptPw(job, sp.pw) :
          /\ new = PutShadow(mem, n, pw, age)
          /\ CheckPassword(job, mem["passwd"][n].pw, sp)
    BY <1>2, <1>3 DEF UpdateShadow
  <2>5. pw \in Passwords
    BY <2>3, UpdatePw
  <2>6. last \in Int
    <3>1. Over(job.age, sp.age)["lstchg"] \in Int
      BY <2>3, NewAges, AgeValues, PasswordToolsAssumption DEF PasswordToolsAssumption
    <3> QED BY <3>1, TodayIsDay
  <2>7. age \in [AgeFields -> Int]
    <3> HIDE DEF last
    <3> QED BY <2>3, <2>6, NewAges
  <2> HIDE DEF age
  <2>8. /\ Edits(mem, new) /\ DOMAIN new["shadow"] = DOMAIN mem["shadow"] \cup {n}
        /\ \A m \in DOMAIN mem["shadow"] : m # n => new["shadow"][m] = mem["shadow"][m]
        /\ \A g \in Files \ {"shadow"} : new[g] = mem[g]
    BY <2>1, <2>2, <2>4, <2>5, <2>7, PutShadowEdits
  <2> QED BY <1>1, <1>3, <2>1, <2>4, <2>8
<1>4. CASE ~Has(mem, "shadow", n)
  <2> DEFINE old == mem["passwd"][n].pw
  <2>1. old \in Passwords
    BY OpenTable, PasswdEntries
  <2>2. PICK pw \in UpdateCryptPw(job, old) :
          /\ new = PutPassword(mem, n, pw)
          /\ CheckPassword(job, old, [pw |-> old, age |-> NoAge])
    BY <1>2, <1>4 DEF UpdateNoshadow
  <2>3. pw \in Passwords
    BY <2>1, UpdatePw
  <2>4. /\ Edits(mem, new) /\ DOMAIN new["passwd"] = DOMAIN mem["passwd"]
        /\ \A m \in DOMAIN mem["passwd"] : m # n => new["passwd"][m] = mem["passwd"][m]
        /\ \A g \in Files \ {"passwd"} : new[g] = mem[g]
    BY <2>2, <2>3, PutPasswordEdits
  <2> QED BY <1>1, <1>4, <2>2, <2>4
<1> QED BY <1>2, <1>3, <1>4

(***************************************************************************)
(* The other tools for users.                                              *)
(***************************************************************************)
LEMMA EditTwice ==
  ASSUME NEW a, NEW b, NEW c, Edits(a, b), Edits(b, c)
  PROVE  Edits(a, c)
BY DEF Edits

\* The lines of chpasswd.
LEMMA ChpasswdEdits ==
  ASSUME NEW job, job.pw \in Passwords, job.users \subseteq Names, NEW mem, Typed(mem),
         "passwd" \in OpenIn(mem), NEW new \in ChpasswdEdit(job, mem)
  PROVE  Edits(mem, new)
<1> DEFINE passwd == mem["passwd"]
           shadow == mem["shadow"]
           age(n) == IF Has(mem, "shadow", n) THEN [mem["shadow"][n].age EXCEPT !["lstchg"] = Today]
                     ELSE NewAge
           row(n) == IF n \in job.users /\ ToPasswd(mem, n) THEN [passwd[n] EXCEPT !.pw = job.pw]
                     ELSE passwd[n]
           lines == {m \in job.users : ToShadow(mem, m)}
           entry(n) == [pw |-> job.pw, age |-> age(n)]
           t == [n \in DOMAIN passwd |-> row(n)]
           u == IF shadow = Closed THEN shadow ELSE Over([n \in lines |-> entry(n)], shadow)
<1>1. "passwd" \in Files /\ "shadow" \in Files
  BY DEF Files
<1>2. new = WithTwo(mem, "passwd", t, "shadow", u)
  BY DEF ChpasswdEdit, WithTwo
<1>3. Holds("passwd", t)
  <2>1. \A n \in DOMAIN passwd : row(n) \in EntryOf("passwd")
    BY OpenTable, PasswdEntries
  <2>2. DOMAIN passwd \subseteq Names
    BY OpenTable
  <2> HIDE DEF row, passwd
  <2>3. t = [n \in DOMAIN passwd |-> t[n]] /\ \A n \in DOMAIN passwd : t[n] \in EntryOf("passwd")
    BY <2>1
  <2> HIDE DEF t
  <2> QED BY <2>2, <2>3, NewTable DEF Holds
<1>4. IF "shadow" \in OpenIn(mem) THEN Holds("shadow", u) ELSE u = Closed
  <2>1. CASE "shadow" \in OpenIn(mem)
    <3>1. Holds("shadow", shadow) /\ shadow # Closed
      BY <2>1, OpenTable, NotClosed DEF OpenIn
    <3>2. \A n : Has(mem, "shadow", n) => mem["shadow"][n].age \in [AgeFields -> Int]
      BY <2>1, OpenTable, ShadowEntries DEF Has
    <3>3. \A n : age(n) \in [AgeFields -> Int]
      BY <3>2, AgeValues, TodayIsDay
    <3> HIDE DEF age
    <3>4. \A n : entry(n) \in EntryOf("shadow")
      BY <3>3, ShadowEntries
    <3> DEFINE added == [n \in lines |-> entry(n)]
    <3> HIDE DEF entry
    <3>5. added = [n \in lines |-> added[n]] /\ \A n \in lines : added[n] \in EntryOf("shadow")
      BY <3>4
    <3>6. lines \subseteq Names
      OBVIOUS
    <3>7. u = Over(added, shadow)
      BY <3>1
    <3> HIDE DEF added, lines, u, shadow
    <3>8. IsTable(added, Names, EntryOf("shadow"))
      BY <3>5, <3>6, NewTable
    <3>9. IsTable(shadow, Names, EntryOf("shadow"))
      BY <3>1 DEF Holds
    <3> QED BY <2>1, <3>7, <3>8, <3>9, OverTable DEF Holds
  <2>2. CASE "shadow" \notin OpenIn(mem)
    BY <1>1, <2>2 DEF OpenIn
  <2> QED BY <2>1, <2>2
<1> HIDE DEF t, u
<1> DEFINE f == "passwd"
           g == "shadow"
<1>5. f # g /\ f \in OpenIn(mem) /\ g \in Files /\ Holds(f, t) /\ IF g \in OpenIn(mem) THEN Holds(g, u) ELSE u = Closed
  BY <1>1, <1>3, <1>4
<1>6. new = WithTwo(mem, f, t, g, u)
  BY <1>2
<1> HIDE DEF f, g
<1> QED BY <1>5, <1>6, EditTwo

LEMMA ChageEdits ==
  ASSUME NEW job, WellFormed(job), NEW mem, Typed(mem), "passwd" \in OpenIn(mem),
         "shadow" \in OpenIn(mem), NEW new \in ChageEdit(job, mem)
  PROVE  Edits(mem, new)
<1>1. "passwd" \in Files /\ "shadow" \in Files
  BY DEF Files
<1> DEFINE n == job.name
           age == Over(job.age, OldAge(mem, n))
<1>2. n \in DOMAIN mem["passwd"] /\ n \in Names /\ mem["passwd"][n].pw \in Passwords
  BY OpenTable, PasswdEntries DEF ChageEdit, Located
<1>3. Has(mem, "shadow", n) => mem["shadow"][n].pw \in Passwords /\ mem["shadow"][n].age \in [AgeFields -> Int]
  BY OpenTable, ShadowEntries DEF Has
<1>4. OldAge(mem, n) \in [AgeFields -> Int]
  BY <1>3, AgeValues DEF OldAge
<1>5. age \in [AgeFields -> Int]
  BY <1>4, NewAges, TodayIsDay
<1>6. \/ Has(mem, "shadow", n) /\ new = PutShadow(mem, n, mem["shadow"][n].pw, age)
      \/ new = PutPassword(PutShadow(mem, n, mem["passwd"][n].pw, age), n, Shadow)
  BY DEF ChageEdit, Located
<1> HIDE DEF age, n
<1>7. CASE Has(mem, "shadow", n) /\ new = PutShadow(mem, n, mem["shadow"][n].pw, age)
  BY <1>2, <1>3, <1>5, <1>7, PutShadowEdits
<1>8. CASE new = PutPassword(PutShadow(mem, n, mem["passwd"][n].pw, age), n, Shadow)
  <2> DEFINE half == PutShadow(mem, n, mem["passwd"][n].pw, age)
  <2>1. Edits(mem, half) /\ \A g \in Files \ {"shadow"} : half[g] = mem[g]
    BY <1>2, <1>5, PutShadowEdits
  <2> HIDE DEF half
  <2>2. Typed(half) /\ "passwd" \in OpenIn(half) /\ n \in DOMAIN half["passwd"]
    BY <1>1, <1>2, <2>1 DEF Edits
  <2>3. new = PutPassword(half, n, Shadow)
    BY <1>8 DEF half
  <2>4. Edits(half, new)
    BY <2>2, <2>3, PutPasswordEdits, PasswordValues
  <2> QED BY <2>1, <2>4, EditTwice
<1> QED BY <1>6, <1>7, <1>8

\* The field of one user is changed.
LEMMA FieldEdits ==
  ASSUME NEW mem, Typed(mem), "passwd" \in OpenIn(mem), NEW n \in DOMAIN mem["passwd"],
         NEW e \in EntryOf("passwd"), NEW new, new = [mem EXCEPT !["passwd"][n] = e]
  PROVE  Edits(mem, new) /\ \A g \in Files \ {"passwd"} : new[g] = mem[g]
<1> DEFINE t == [mem["passwd"] EXCEPT ![n] = e]
           other == With(mem, "passwd", t)
<1>1. new = other
  BY DEF With
<1> HIDE DEF t
<1>2. t = [mem["passwd"] EXCEPT ![n] = e]
  BY DEF t
<1>3. other = With(mem, "passwd", t)
  OBVIOUS
<1> HIDE DEF other
<1>4. /\ Edits(mem, other) /\ other["passwd"] = t /\ DOMAIN t = DOMAIN mem["passwd"]
      /\ \A g \in Files \ {"passwd"} : other[g] = mem[g]
  BY <1>2, <1>3, PasswdField
<1> QED BY <1>1, <1>4

LEMMA ChfnEdits ==
  ASSUME NEW job, job.gecos \in [GecosFields -> STRING], NEW mem, Typed(mem),
         "passwd" \in OpenIn(mem), NEW new \in ChfnEdit(job, mem)
  PROVE  Edits(mem, new)
<1> DEFINE n == job.name
           e == [mem["passwd"][n] EXCEPT !.gecos = job.gecos]
<1>1. n \in DOMAIN mem["passwd"]
  BY DEF ChfnEdit, Located
<1>2. mem["passwd"][n] \in EntryOf("passwd")
  BY <1>1, OpenTable
<1>3. e \in EntryOf("passwd")
  BY <1>2, PasswdEntries
<1>4. new = [mem EXCEPT !["passwd"][n] = e]
  BY DEF ChfnEdit, Located
<1> HIDE DEF e, n
<1> QED BY <1>1, <1>3, <1>4, FieldEdits

LEMMA ChshEdits ==
  ASSUME NEW job, job.shell \in STRING, NEW mem, Typed(mem),
         "passwd" \in OpenIn(mem), NEW new \in ChshEdit(job, mem)
  PROVE  Edits(mem, new) /\ \A g \in Files \ {"passwd"} : new[g] = mem[g]
<1> DEFINE n == job.name
           e == [mem["passwd"][n] EXCEPT !.shell = job.shell]
<1>1. n \in DOMAIN mem["passwd"]
  BY DEF ChshEdit, Located
<1>2. mem["passwd"][n] \in EntryOf("passwd")
  BY <1>1, OpenTable
<1>3. e \in EntryOf("passwd")
  BY <1>2, PasswdEntries
<1>4. new = [mem EXCEPT !["passwd"][n] = e]
  BY DEF ChshEdit, Located
<1> HIDE DEF e, n
<1>5. Edits(mem, new)
  BY <1>1, <1>3, <1>4, FieldEdits
<1>6. \A g \in Files \ {"passwd"} : new[g] = mem[g]
  BY <1>1, <1>3, <1>4, FieldEdits
<1> QED BY <1>5, <1>6

\* The editor adds nobody to shadow.
LEMMA VipwEdits ==
  ASSUME NEW job, WellFormed(job), job.tool = "vipw", NEW mem, Typed(mem),
         VipwFile(job) \in OpenIn(mem), NEW new \in VipwEdit(job, mem)
  PROVE  /\ Edits(mem, new)
         /\ "shadow" \in OpenIn(mem) => DOMAIN new["shadow"] \subseteq DOMAIN mem["shadow"]
<1>1. CASE "s" \in job.flags
  <2> DEFINE n == job.name
             age == Over(job.age, mem["shadow"][n].age)
  <2>1. "shadow" \in OpenIn(mem)
    BY <1>1 DEF VipwFile
  <2>2. n \in DOMAIN mem["shadow"] /\ new = PutShadow(mem, n, mem["shadow"][n].pw, age)
    BY <1>1 DEF VipwEdit
  <2>3. n \in Names /\ mem["shadow"][n].pw \in Passwords /\ mem["shadow"][n].age \in [AgeFields -> Int]
    BY <2>1, <2>2, OpenTable, ShadowEntries
  <2>4. age \in [AgeFields -> Int]
    BY <2>3, NewAges, TodayIsDay
  <2> HIDE DEF n, age
  <2>5. Edits(mem, new) /\ DOMAIN new["shadow"] = DOMAIN mem["shadow"] \cup {n}
    BY <2>1, <2>2, <2>3, <2>4, PutShadowEdits
  <2> QED BY <2>2, <2>5
<1>2. CASE "s" \notin job.flags
  <2>1. "passwd" \in OpenIn(mem) /\ job.shell \in STRING /\ new \in ChshEdit(job, mem)
    BY <1>2 DEF VipwFile, VipwEdit, WellFormed
  <2>2. Edits(mem, new) /\ \A g \in Files \ {"passwd"} : new[g] = mem[g]
    BY <2>1, ChshEdits
  <2>3. "shadow" \in Files
    BY DEF Files
  <2> QED BY <2>2, <2>3
<1> QED BY <1>1, <1>2

\* usermod
LEMMA NewPw ==
  ASSUME NEW job, WellFormed(job), NEW pw \in Passwords, NEW new \in NewPwPasswd(job, pw)
  PROVE  new \in Passwords
<1>1. \/ new = Lock(pw) \/ new = Unlock(pw) \/ (job.pw # Unset /\ new = job.pw) \/ new = pw
  BY DEF NewPwPasswd
<1> QED BY <1>1, JobFacts, PasswordValues

LEMMA NewSpents ==
  ASSUME NEW job, WellFormed(job), NEW mem, Typed(mem), "shadow" \in OpenIn(mem), NEW n \in Names,
         NEW pw \in Passwords, NEW age \in [AgeFields -> Int],
         NEW new \in NewSpent(job, mem, n, pw, age)
  PROVE  Edits(mem, new)
<1> DEFINE last == IF job.pw # Unset THEN Today ELSE Over(job.age, age)["lstchg"]
           late == [Over(job.age, age) EXCEPT !["lstchg"] = last]
<1>1. PICK q \in NewPwPasswd(job, pw) : new = PutShadow(mem, n, q, late)
  BY DEF NewSpent
<1>2. q \in Passwords
  BY NewPw
<1>3. last \in Int
  <2>1. Over(job.age, age)["lstchg"] \in Int
    BY NewAges, TodayIsDay
  <2> QED BY <2>1, TodayIsDay
<1>4. late \in [AgeFields -> Int]
  <2> HIDE DEF last
  <2> QED BY <1>3, NewAges
<1> HIDE DEF late
<1> QED BY <1>1, <1>2, <1>4, PutShadowEdits

LEMMA UsermodEdits ==
  ASSUME NEW job, WellFormed(job), NEW mem, Typed(mem), "passwd" \in OpenIn(mem),
         NEW new \in UsermodPasswordEdit(job, mem)
  PROVE  Edits(mem, new)
<1>1. "passwd" \in Files /\ "shadow" \in Files
  BY DEF Files
<1>2. PICK n \in DOMAIN mem["passwd"] : \E half \in NewPwent(job, mem, n) : new \in UsermodSpent(job, half, n)
  BY DEF UsermodPasswordEdit, Located
<1>3. PICK half \in NewPwent(job, mem, n) : new \in UsermodSpent(job, half, n)
  BY <1>2
<1>4. n \in Names /\ mem["passwd"][n].pw \in Passwords
  BY OpenTable, PasswdEntries
<1>5. Edits(mem, half) /\ n \in DOMAIN half["passwd"]
  <2>1. PICK pw : /\ pw = mem["passwd"][n].pw \/ pw \in NewPwPasswd(job, mem["passwd"][n].pw)
                  /\ half = PutPassword(mem, n, pw)
    BY <1>3 DEF NewPwent
  <2>2. pw \in Passwords
    BY <1>4, <2>1, NewPw
  <2> QED BY <2>1, <2>2, PutPasswordEdits
<1>6. Typed(half) /\ "passwd" \in OpenIn(half)
  BY <1>5 DEF Edits
<1>7. half["passwd"][n].pw \in Passwords
  BY <1>5, <1>6, OpenTable, PasswdEntries
<1>8. CASE new = half
  BY <1>5, <1>8
<1>9. CASE /\ Has(half, "shadow", n)
           /\ new \in NewSpent(job, half, n, half["shadow"][n].pw, half["shadow"][n].age)
  <2>1. "shadow" \in OpenIn(half) /\ n \in DOMAIN half["shadow"]
    BY <1>1, <1>9 DEF Has, OpenIn
  <2>2. half["shadow"][n].pw \in Passwords /\ half["shadow"][n].age \in [AgeFields -> Int]
    BY <1>6, <2>1, OpenTable, ShadowEntries
  <2>3. Edits(half, new)
    BY <1>4, <1>6, <1>9, <2>1, <2>2, NewSpents
  <2> QED BY <1>5, <2>3, EditTwice
<1>10. CASE /\ half["shadow"] # Closed
           /\ new \in NewSpent(job, PutPassword(half, n, Shadow), n, half["passwd"][n].pw, NewAge)
  <2> DEFINE late == PutPassword(half, n, Shadow)
  <2>1. Edits(half, late)
    BY <1>5, <1>6, PutPasswordEdits, PasswordValues
  <2> HIDE DEF late
  <2>2. new \in NewSpent(job, late, n, half["passwd"][n].pw, NewAge)
    BY <1>10 DEF late
  <2>3. Typed(late) /\ "shadow" \in OpenIn(late)
    BY <1>1, <1>10, <2>1 DEF Edits, OpenIn
  <2>4. Edits(late, new)
    BY <1>4, <1>7, <2>2, <2>3, NewSpents, AgeValues
  <2> QED BY <1>5, <2>1, <2>4, EditTwice
<1> QED BY <1>3, <1>8, <1>9, <1>10 DEF UsermodSpent

\* Both files are changed together.
LEMMA UsersEdit ==
  ASSUME NEW mem, Typed(mem), "passwd" \in OpenIn(mem), "shadow" \in OpenIn(mem),
         NEW t, Holds("passwd", t), NEW u, Holds("shadow", u),
         NEW new, new = WithTwo(mem, "passwd", t, "shadow", u)
  PROVE  Edits(mem, new) /\ new["passwd"] = t /\ new["shadow"] = u
<1> DEFINE f == "passwd"
           g == "shadow"
<1>1. f # g /\ f \in OpenIn(mem) /\ g \in Files /\ g \in OpenIn(mem) /\ Holds(f, t) /\ Holds(g, u)
  BY DEF OpenIn
<1>2. new = WithTwo(mem, f, t, g, u)
  OBVIOUS
<1> HIDE DEF f, g
<1>3. Edits(mem, new) /\ new[f] = t /\ new[g] = u
  BY <1>1, <1>2, EditTwo
<1> QED BY <1>3 DEF f, g

LEMMA OneTable ==
  ASSUME NEW f, NEW N, N \subseteq Names, NEW t, t = [n \in N |-> t[n]], \A n \in N : t[n] \in EntryOf(f)
  PROVE  Holds(f, t) /\ DOMAIN t = N
BY NewTable DEF Holds

LEMMA PwconvEdits ==
  ASSUME NEW job, NEW mem, Typed(mem), "passwd" \in OpenIn(mem), "shadow" \in OpenIn(mem),
         NEW new \in PwconvEdit(job, mem)
  PROVE  Edits(mem, new) /\ Fits("pwconv", new["passwd"], new["shadow"])
<1> DEFINE passwd == mem["passwd"]
           shadow == mem["shadow"]
           N == DOMAIN passwd
           row(n) == [passwd[n] EXCEPT !.pw = Shadow]
           entry(n) == IF n \notin DOMAIN shadow THEN [pw |-> passwd[n].pw, age |-> NewAge]
                       ELSE IF passwd[n].pw = Shadow THEN shadow[n]
                       ELSE [pw |-> passwd[n].pw, age |-> [shadow[n].age EXCEPT !["lstchg"] = Today]]
           t == [n \in N |-> row(n)]
           u == [n \in N |-> entry(n)]
<1>1. new = WithTwo(mem, "passwd", t, "shadow", u)
  BY DEF PwconvEdit, WithTwo
<1>2. \A n \in N : row(n) \in EntryOf("passwd") /\ row(n).pw = Shadow
  BY OpenTable, PasswdEntries, PasswordValues
<1>3. \A n \in N : entry(n) \in EntryOf("shadow")
  <2>1. \A n \in N : passwd[n].pw \in Passwords
    BY OpenTable, PasswdEntries
  <2>2. \A n \in DOMAIN shadow : shadow[n] \in EntryOf("shadow") /\ shadow[n].age \in [AgeFields -> Int]
    BY OpenTable, ShadowEntries
  <2>3. \A n \in DOMAIN shadow : [shadow[n].age EXCEPT !["lstchg"] = Today] \in [AgeFields -> Int]
    BY <2>2, AgeValues, TodayIsDay
  <2> HIDE DEF passwd, shadow, N
  <2> QED BY <2>1, <2>2, <2>3, ShadowEntries, AgeValues
<1>4. N \subseteq Names
  BY OpenTable
<1> HIDE DEF row, entry, N
<1>5. /\ t = [n \in N |-> t[n]] /\ \A n \in N : t[n] \in EntryOf("passwd") /\ t[n].pw = Shadow
      /\ u = [n \in N |-> u[n]] /\ \A n \in N : u[n] \in EntryOf("shadow")
  BY <1>2, <1>3
<1> HIDE DEF t, u
<1>6. Holds("passwd", t) /\ DOMAIN t = N
  BY <1>4, <1>5, OneTable
<1>7. Holds("shadow", u) /\ DOMAIN u = N
  BY <1>4, <1>5, OneTable
<1>8. Edits(mem, new) /\ new["passwd"] = t /\ new["shadow"] = u
  BY <1>1, <1>6, <1>7, UsersEdit
<1> QED BY <1>5, <1>6, <1>7, <1>8 DEF Fits

LEMMA PwunconvEdits ==
  ASSUME NEW job, NEW mem, Typed(mem), "passwd" \in OpenIn(mem), "shadow" \in OpenIn(mem),
         NEW new \in PwunconvEdit(job, mem)
  PROVE  Edits(mem, new)
<1> DEFINE passwd == mem["passwd"]
           shadow == mem["shadow"]
           N == DOMAIN passwd
           row(n) == IF n \in DOMAIN shadow /\ passwd[n].pw = Shadow
                     THEN [passwd[n] EXCEPT !.pw = shadow[n].pw] ELSE passwd[n]
           t == [n \in N |-> row(n)]
<1>1. new = With(mem, "passwd", t)
  BY DEF PwunconvEdit, With
<1>2. \A n \in N : row(n) \in EntryOf("passwd")
  BY OpenTable, PasswdEntries, ShadowEntries
<1>3. N \subseteq Names
  BY OpenTable
<1> HIDE DEF row, N
<1>4. t = [n \in N |-> t[n]] /\ \A n \in N : t[n] \in EntryOf("passwd")
  BY <1>2
<1> HIDE DEF t
<1>5. Holds("passwd", t)
  BY <1>3, <1>4, OneTable
<1> QED BY <1>1, <1>5, EditOne

LEMMA OverHolds ==
  ASSUME NEW f, NEW t, Holds(f, t), NEW added, Holds(f, added)
  PROVE  Holds(f, Over(added, t)) /\ DOMAIN Over(added, t) = DOMAIN added \cup DOMAIN t
<1> DEFINE V == EntryOf(f)
<1>1. IsTable(t, Names, V) /\ IsTable(added, Names, V)
  BY DEF Holds
<1> HIDE DEF V
<1>2. IsTable(Over(added, t), Names, V)
  BY <1>1, OverTable
<1>3. DOMAIN Over(added, t) = DOMAIN added \cup DOMAIN t
  BY DEF Over
<1> QED BY <1>2, <1>3 DEF Holds, V

\* pwck adds the entries that are missing, and deletes those of nobody.
LEMMA CheckPwEdits ==
  ASSUME NEW mem, Typed(mem), "passwd" \in OpenIn(mem), "shadow" \in OpenIn(mem),
         NEW new, new = CheckPwFile(mem)
  PROVE  /\ Edits(mem, new) /\ DOMAIN new["passwd"] = DOMAIN mem["passwd"]
         /\ DOMAIN mem["passwd"] \subseteq DOMAIN new["shadow"]
<1> DEFINE passwd == mem["passwd"]
           shadow == mem["shadow"]
           N == DOMAIN passwd
           missing == N \ DOMAIN shadow
           row(n) == IF n \in missing THEN [passwd[n] EXCEPT !.pw = Shadow] ELSE passwd[n]
           entry(n) == [pw |-> passwd[n].pw, age |-> NewAge]
           t == [n \in N |-> row(n)]
           added == [n \in missing |-> entry(n)]
           u == Over(added, shadow)
<1>1. shadow # Closed
  BY DEF OpenIn
<1>2. new = WithTwo(mem, "passwd", t, "shadow", u)
  BY <1>1 DEF CheckPwFile, WithTwo
<1>3. \A n \in N : row(n) \in EntryOf("passwd")
  BY OpenTable, PasswdEntries, PasswordValues
<1>4. \A n \in N : entry(n) \in EntryOf("shadow")
  BY OpenTable, PasswdEntries, ShadowEntries, AgeValues
<1>5. N \subseteq Names /\ Holds("shadow", shadow)
  BY OpenTable
<1> HIDE DEF row, entry, N, shadow
<1>6. /\ t = [n \in N |-> t[n]] /\ \A n \in N : t[n] \in EntryOf("passwd")
      /\ added = [n \in missing |-> added[n]] /\ \A n \in missing : added[n] \in EntryOf("shadow")
      /\ missing \subseteq Names /\ N \subseteq missing \cup DOMAIN shadow
  BY <1>3, <1>4, <1>5
<1> HIDE DEF t, added, missing
<1>7. Holds("passwd", t) /\ DOMAIN t = N
  BY <1>5, <1>6, OneTable
<1>8. Holds("shadow", added) /\ DOMAIN added = missing
  BY <1>6, OneTable
<1>9. Holds("shadow", u) /\ DOMAIN u = missing \cup DOMAIN shadow
  BY <1>5, <1>8, OverHolds
<1> HIDE DEF u
<1>10. Edits(mem, new) /\ new["passwd"] = t /\ new["shadow"] = u
  BY <1>2, <1>7, <1>9, UsersEdit
<1> QED BY <1>6, <1>7, <1>9, <1>10 DEF N

LEMMA KeepSome ==
  ASSUME NEW f, NEW t, Holds(f, t), NEW N, N \subseteq DOMAIN t, NEW u, u = [n \in N |-> t[n]]
  PROVE  Holds(f, u) /\ DOMAIN u = N
<1>1. N \subseteq Names /\ \A n \in N : t[n] \in EntryOf(f)
  BY OfTable DEF Holds
<1>2. u = [n \in N |-> u[n]] /\ \A n \in N : u[n] \in EntryOf(f)
  BY <1>1
<1> QED BY <1>1, <1>2, OneTable

LEMMA PwckEdits ==
  ASSUME NEW job, NEW mem, Typed(mem), "passwd" \in OpenIn(mem), NEW new \in PwckEdit(job, mem)
  PROVE  /\ Edits(mem, new)
         /\ "shadow" \in OpenIn(mem) => Fits("pwck", new["passwd"], new["shadow"])
<1>1. CASE "shadow" \notin OpenIn(mem)
  <2>1. mem["shadow"] = Closed
    BY <1>1 DEF OpenIn, Files
  <2>2. CheckPwFile(mem) = mem
    BY <2>1 DEF CheckPwFile
  <2>3. [mem EXCEPT !["shadow"] = Closed] = mem
    BY <2>1 DEF Typed
  <2>4. new = mem
    BY <2>1, <2>2, <2>3 DEF PwckEdit, CheckSpwFile
  <2> QED BY <1>1, <2>4, EditNothing
<1>2. CASE "shadow" \in OpenIn(mem)
  <2> DEFINE half == CheckPwFile(mem)
             N == DOMAIN half["shadow"] \cap DOMAIN half["passwd"]
             v == [n \in N |-> half["shadow"][n]]
  <2>1. /\ Edits(mem, half) /\ DOMAIN half["passwd"] = DOMAIN mem["passwd"]
        /\ DOMAIN mem["passwd"] \subseteq DOMAIN half["shadow"]
    BY <1>2, CheckPwEdits
  <2>2. new = CheckSpwFile(half)
    BY DEF PwckEdit
  <2> HIDE DEF half
  <2>3. Typed(half) /\ "shadow" \in OpenIn(half) /\ half["shadow"] # Closed
    BY <1>2, <2>1 DEF Edits, OpenIn
  <2>4. new = With(half, "shadow", v)
    BY <2>2, <2>3 DEF CheckSpwFile, With
  <2>5. Holds("shadow", half["shadow"])
    BY <2>3, OpenTable
  <2> HIDE DEF v
  <2>6. v = [n \in N |-> half["shadow"][n]]
    BY DEF v
  <2>7. Holds("shadow", v) /\ DOMAIN v = N
    <3> HIDE DEF N
    <3>1. N \subseteq DOMAIN half["shadow"]
      BY DEF N
    <3> QED BY <2>5, <2>6, <3>1, KeepSome
  <2>8. Edits(half, new) /\ new["shadow"] = v /\ new["passwd"] = half["passwd"]
    <3>1. "passwd" \in Files \ {"shadow"}
      BY DEF Files
    <3> QED BY <2>3, <2>4, <2>7, <3>1, EditOne
  <2>9. DOMAIN new["passwd"] = DOMAIN new["shadow"]
    BY <2>1, <2>7, <2>8
  <2> QED BY <2>1, <2>8, <2>9, EditTwice DEF Fits
<1> QED BY <1>1, <1>2

(***************************************************************************)
(* The tools for groups.                                                   *)
(***************************************************************************)
\* group is changed, and gshadow when it is open.
LEMMA GroupsEdit ==
  ASSUME NEW mem, Typed(mem), "group" \in OpenIn(mem), NEW t, Holds("group", t),
         NEW u, IF mem["gshadow"] # Closed THEN Holds("gshadow", u) ELSE u = Closed,
         NEW new, new = WithTwo(mem, "group", t, "gshadow", u)
  PROVE  Edits(mem, new) /\ new["group"] = t /\ new["gshadow"] = u
<1> DEFINE f == "group"
           g == "gshadow"
<1>1. /\ f # g /\ f \in OpenIn(mem) /\ g \in Files /\ Holds(f, t)
      /\ IF g \in OpenIn(mem) THEN Holds(g, u) ELSE u = Closed
  BY DEF OpenIn, Files
<1>2. new = WithTwo(mem, f, t, g, u)
  OBVIOUS
<1> HIDE DEF f, g
<1>3. Edits(mem, new) /\ new[f] = t /\ new[g] = u
  BY <1>1, <1>2, EditTwo
<1> QED BY <1>3 DEF f, g

LEMMA OneGroup ==
  ASSUME NEW mem, Typed(mem), "group" \in OpenIn(mem)
  PROVE  /\ Holds("group", mem["group"]) /\ DOMAIN mem["group"] \subseteq Names
         /\ \A g \in DOMAIN mem["group"] : mem["group"][g] \in EntryOf("group")
         /\ mem["gshadow"] # Closed =>
              /\ Holds("gshadow", mem["gshadow"]) /\ DOMAIN mem["gshadow"] \subseteq Names
              /\ \A g \in DOMAIN mem["gshadow"] : mem["gshadow"][g] \in EntryOf("gshadow")
<1>1. mem["gshadow"] # Closed => "gshadow" \in OpenIn(mem)
  BY DEF OpenIn, Files
<1> QED BY <1>1, OpenTable

LEMMA ChgpasswdEdits ==
  ASSUME NEW job, job.pw \in Passwords, NEW mem, Typed(mem), "group" \in OpenIn(mem),
         NEW new \in ChgpasswdEdit(job, mem)
  PROVE  Edits(mem, new)
<1> DEFINE group == mem["group"]
           gshadow == mem["gshadow"]
           N == DOMAIN group
           old(g) == IF Has(mem, "gshadow", g) THEN gshadow[g]
                     ELSE [pw |-> Shadow, admins |-> {}, members |-> group[g].members]
           row(g) == IF g \in {job.name} /\ GroupToGroup(mem, g) THEN [group[g] EXCEPT !.pw = job.pw]
                     ELSE group[g]
           lines == {h \in {job.name} : GroupToGshadow(mem, h)}
           entry(g) == [old(g) EXCEPT !.pw = job.pw]
           t == [g \in N |-> row(g)]
           added == [g \in lines |-> entry(g)]
           u == IF gshadow = Closed THEN gshadow ELSE Over(added, gshadow)
<1>1. new = WithTwo(mem, "group", t, "gshadow", u) /\ job.name \in N
  BY DEF ChgpasswdEdit, WithTwo
<1>2. \A g \in N : row(g) \in EntryOf("group")
  BY OneGroup, GroupEntries
<1>3. N \subseteq Names
  BY OneGroup
<1>4. gshadow # Closed => \A g \in lines : entry(g) \in EntryOf("gshadow")
  <2> SUFFICES ASSUME gshadow # Closed, NEW g \in lines PROVE entry(g) \in EntryOf("gshadow")
    OBVIOUS
  <2>1. group[g].members \in SUBSET Names
    BY <1>1, OneGroup, GroupEntries
  <2>2. old(g) \in EntryOf("gshadow")
    BY <2>1, OneGroup, GshadowEntries, PasswordValues DEF Has
  <2> HIDE DEF old
  <2> QED BY <2>2, GshadowEntries
<1>5. lines \subseteq Names
  BY <1>1, <1>3
<1> HIDE DEF row, entry, N, lines
<1>6. t = [g \in N |-> t[g]] /\ \A g \in N : t[g] \in EntryOf("group")
  BY <1>2
<1>7. /\ added = [g \in lines |-> added[g]]
      /\ gshadow # Closed => \A g \in lines : added[g] \in EntryOf("gshadow")
  BY <1>4
<1> HIDE DEF t, added
<1>8. Holds("group", t)
  BY <1>3, <1>6, OneTable
<1>9. gshadow # Closed => Holds("gshadow", Over(added, gshadow))
  <2> SUFFICES ASSUME gshadow # Closed PROVE Holds("gshadow", Over(added, gshadow))
    OBVIOUS
  <2>1. Holds("gshadow", added)
    BY <1>5, <1>7, OneTable
  <2>2. Holds("gshadow", gshadow)
    BY OneGroup
  <2> HIDE DEF gshadow
  <2> QED BY <2>1, <2>2, OverHolds
<1>10. IF mem["gshadow"] # Closed THEN Holds("gshadow", u) ELSE u = Closed
  BY <1>9
<1> HIDE DEF u
<1> QED BY <1>1, <1>8, <1>10, GroupsEdit

LEMMA GrpunconvEdits ==
  ASSUME NEW job, NEW mem, Typed(mem), "group" \in OpenIn(mem), "gshadow" \in OpenIn(mem),
         NEW new \in GrpunconvEdit(job, mem)
  PROVE  Edits(mem, new)
<1> DEFINE group == mem["group"]
           gshadow == mem["gshadow"]
           N == DOMAIN group
           row(g) == IF g \in DOMAIN gshadow /\ group[g].pw = Shadow
                     THEN [group[g] EXCEPT !.pw = gshadow[g].pw] ELSE group[g]
           t == [g \in N |-> row(g)]
<1>1. new = With(mem, "group", t)
  BY DEF GrpunconvEdit, With
<1>2. gshadow # Closed
  BY DEF OpenIn
<1>3. \A g \in N : row(g) \in EntryOf("group")
  BY <1>2, OneGroup, GroupEntries, GshadowEntries
<1>4. N \subseteq Names
  BY OneGroup
<1> HIDE DEF row, N
<1>5. t = [g \in N |-> t[g]] /\ \A g \in N : t[g] \in EntryOf("group")
  BY <1>3
<1> HIDE DEF t
<1>6. Holds("group", t)
  BY <1>4, <1>5, OneTable
<1> QED BY <1>1, <1>6, EditOne

LEMMA GrpconvEdits ==
  ASSUME NEW job, NEW mem, Typed(mem), "group" \in OpenIn(mem), "gshadow" \in OpenIn(mem),
         NEW new \in GrpconvEdit(job, mem)
  PROVE  Edits(mem, new) /\ Fits("grpconv", new["group"], new["gshadow"])
<1> DEFINE group == mem["group"]
           gshadow == mem["gshadow"]
           N == DOMAIN group
           row(g) == [group[g] EXCEPT !.pw = Shadow]
           entry(g) == IF g \in DOMAIN gshadow
                       THEN [gshadow[g] EXCEPT !.pw = IF group[g].pw = Shadow THEN @ ELSE group[g].pw,
                                               !.members = group[g].members]
                       ELSE [pw |-> group[g].pw, admins |-> {}, members |-> group[g].members]
           t == [g \in N |-> row(g)]
           u == [g \in N |-> entry(g)]
<1>1. new = WithTwo(mem, "group", t, "gshadow", u)
  BY DEF GrpconvEdit, WithTwo
<1>2. gshadow # Closed
  BY DEF OpenIn
<1>3. \A g \in N : row(g) \in EntryOf("group") /\ row(g).pw = Shadow /\ row(g).members = group[g].members
  <2> SUFFICES ASSUME NEW g \in N
               PROVE  row(g) \in EntryOf("group") /\ row(g).pw = Shadow /\ row(g).members = group[g].members
    OBVIOUS
  <2>1. group[g] \in EntryOf("group")
    BY OneGroup
  <2>2. group[g] \in [pw : Passwords, members : SUBSET Names]
    BY <2>1 DEF EntryOf
  <2>3. row(g).pw = Shadow /\ row(g).members = group[g].members
    BY <2>2
  <2> QED BY <2>1, <2>3, GroupEntries, PasswordValues
<1>4. \A g \in N : entry(g) \in EntryOf("gshadow") /\ entry(g).members = group[g].members
  <2> SUFFICES ASSUME NEW g \in N
               PROVE  entry(g) \in EntryOf("gshadow") /\ entry(g).members = group[g].members
    OBVIOUS
  <2>1. group[g].pw \in Passwords /\ group[g].members \in SUBSET Names
    BY OneGroup, GroupEntries
  <2>2. CASE g \in DOMAIN gshadow
    <3>1. /\ gshadow[g].pw \in Passwords /\ gshadow[g].admins \in SUBSET Names
          /\ gshadow[g] = [pw |-> gshadow[g].pw, admins |-> gshadow[g].admins, members |-> gshadow[g].members]
      BY <1>2, <2>2, OneGroup, GshadowEntries
    <3>2. entry(g) = [pw |-> IF group[g].pw = Shadow THEN gshadow[g].pw ELSE group[g].pw,
                      admins |-> gshadow[g].admins, members |-> group[g].members]
      BY <2>2, <3>1
    <3> HIDE DEF entry
    <3> QED BY <2>1, <3>1, <3>2, GshadowEntries
  <2>3. CASE g \notin DOMAIN gshadow
    BY <2>1, <2>3, GshadowEntries
  <2> QED BY <2>2, <2>3
<1>5. N \subseteq Names
  BY OneGroup
<1> HIDE DEF row, entry, N, group
<1>6. /\ t = [g \in N |-> t[g]] /\ u = [g \in N |-> u[g]]
      /\ \A g \in N : t[g] \in EntryOf("group") /\ t[g].pw = Shadow /\ t[g].members = u[g].members
      /\ \A g \in N : u[g] \in EntryOf("gshadow")
  BY <1>3, <1>4
<1> HIDE DEF t, u
<1>7. Holds("group", t) /\ DOMAIN t = N
  BY <1>5, <1>6, OneTable
<1>8. Holds("gshadow", u) /\ DOMAIN u = N
  BY <1>5, <1>6, OneTable
<1>9. Edits(mem, new) /\ new["group"] = t /\ new["gshadow"] = u
  BY <1>1, <1>2, <1>7, <1>8, GroupsEdit
<1> QED BY <1>6, <1>7, <1>8, <1>9 DEF Fits

\* gpasswd
LEMMA GpasswdValues ==
  ASSUME NEW job, WellFormed(job)
  PROVE  /\ \A pw \in Passwords : GpasswdPw(job, pw) \in Passwords
         /\ \A had \in SUBSET Names : GpasswdMembers(job, had) \in SUBSET Names
<1>1. \A pw \in Passwords : GpasswdPw(job, pw) \in Passwords
  BY JobFacts, PasswordValues DEF GpasswdPw
<1>2. ASSUME NEW had \in SUBSET Names PROVE GpasswdMembers(job, had) \in SUBSET Names
  <2>1. job.users \subseteq Names
    BY JobFacts
  <2> QED BY <2>1 DEF GpasswdMembers
<1> QED BY <1>1, <1>2

LEMMA GpasswdEdits ==
  ASSUME NEW job, WellFormed(job), job.name \in Names, NEW mem, Typed(mem), "group" \in OpenIn(mem),
         NEW gr \in EntryOf("group"), NEW sg,
         mem["gshadow"] # Closed => sg \in EntryOf("gshadow") \cup {None},
         NEW new \in GpasswdEdit(job, mem, gr, sg)
  PROVE  Edits(mem, new)
<1> DEFINE shadowed == mem["gshadow"] # Closed
           got == IF shadowed THEN GetGroup(gr, sg) ELSE [gr |-> gr, sg |-> sg]
           row == GpasswdGroup(job, got.gr, shadowed)
           entry == GpasswdGshadow(job, got.sg)
           t == Put(mem["group"], job.name, row)
           half == With(mem, "group", t)
           u == Put(mem["gshadow"], job.name, entry)
<1>1. got.gr \in EntryOf("group") /\ (shadowed => got.sg \in EntryOf("gshadow"))
  <2>1. CASE ~shadowed
    BY <2>1
  <2>2. CASE shadowed /\ sg # None
    BY <2>2 DEF GetGroup
  <2>3. CASE shadowed /\ sg = None
    <3>1. got.gr = [gr EXCEPT !.pw = Shadow] /\ got.sg = [pw |-> gr.pw, admins |-> {}, members |-> gr.members]
      BY <2>3 DEF GetGroup
    <3>2. gr.pw \in Passwords /\ gr.members \in SUBSET Names /\ [gr EXCEPT !.pw = Shadow] \in EntryOf("group")
      BY GroupEntries, PasswordValues
    <3> HIDE DEF got
    <3> QED BY <3>1, <3>2, GshadowEntries
  <2> QED BY <2>1, <2>2, <2>3
<1> HIDE DEF got
<1>2. row \in EntryOf("group")
  <2>1. got.gr.pw \in Passwords /\ got.gr.members \in SUBSET Names
    BY <1>1, GroupEntries
  <2>2. row.pw \in Passwords /\ row.members \in SUBSET Names /\ row = [pw |-> row.pw, members |-> row.members]
    BY <2>1, GpasswdValues, PasswordValues DEF GpasswdGroup
  <2> HIDE DEF row
  <2> QED BY <2>2, GroupEntries
<1>3. shadowed => entry \in EntryOf("gshadow")
  <2> SUFFICES ASSUME shadowed PROVE entry \in EntryOf("gshadow")
    OBVIOUS
  <2>1. got.sg.pw \in Passwords /\ got.sg.admins \in SUBSET Names /\ got.sg.members \in SUBSET Names
    BY <1>1, GshadowEntries
  <2>2. /\ entry.pw \in Passwords /\ entry.admins \in SUBSET Names /\ entry.members \in SUBSET Names
        /\ entry = [pw |-> entry.pw, admins |-> entry.admins, members |-> entry.members]
    BY <2>1, GpasswdValues, JobFacts DEF GpasswdGshadow
  <2> HIDE DEF entry
  <2> QED BY <2>2, GshadowEntries
<1>4. IF shadowed THEN new = PutGshadow(half, job.name, entry) ELSE new = half
  BY DEF GpasswdEdit, PutGroup, With, got
<1> HIDE DEF row, entry
<1>5. Holds("group", t)
  <2> DEFINE f == "group"
             V == EntryOf(f)
  <2>1. IsTable(mem[f], Names, V) /\ row \in V
    BY <1>2, OneGroup DEF Holds
  <2>2. t = Put(mem[f], job.name, row)
    OBVIOUS
  <2> HIDE DEF f, V, t
  <2>3. IsTable(t, Names, V)
    BY <2>1, <2>2, PutTable
  <2> QED BY <2>3 DEF Holds, V, f
<1>6. shadowed => Holds("gshadow", u)
  <2> SUFFICES ASSUME shadowed PROVE Holds("gshadow", u)
    OBVIOUS
  <2> DEFINE f == "gshadow"
             V == EntryOf(f)
  <2>1. IsTable(mem[f], Names, V) /\ entry \in V
    BY <1>3, OneGroup DEF Holds
  <2>2. u = Put(mem[f], job.name, entry)
    OBVIOUS
  <2> HIDE DEF f, V, u
  <2>3. IsTable(u, Names, V)
    BY <2>1, <2>2, PutTable
  <2> QED BY <2>3 DEF Holds, V, f
<1> HIDE DEF t
<1>7. Edits(mem, half) /\ half["gshadow"] = mem["gshadow"]
  <2>1. "gshadow" \in Files \ {"group"}
    BY DEF Files
  <2> QED BY <1>5, <2>1, EditOne
<1> HIDE DEF half
<1>8. CASE ~shadowed
  BY <1>4, <1>7, <1>8
<1>9. CASE shadowed
  <2>1. new = With(half, "gshadow", u)
    BY <1>4, <1>7, <1>9 DEF PutGshadow, With
  <2>2. Typed(half) /\ "gshadow" \in OpenIn(half) /\ Holds("gshadow", u)
    BY <1>6, <1>7, <1>9 DEF Edits, OpenIn, Files
  <2> HIDE DEF u
  <2>3. Edits(half, new)
    BY <2>1, <2>2, EditOne
  <2> QED BY <1>7, <2>3, EditTwice
<1> QED BY <1>8, <1>9

\* grpck
LEMMA CheckGrpEdits ==
  ASSUME NEW users, NEW mem, Typed(mem), "group" \in OpenIn(mem),
         NEW new, new = CheckGrpFile(mem, users)
  PROVE  /\ Edits(mem, new) /\ DOMAIN new["group"] = DOMAIN mem["group"]
         /\ mem["gshadow"] # Closed => DOMAIN mem["group"] \subseteq DOMAIN new["gshadow"]
<1> DEFINE gshadow == mem["gshadow"]
           N == DOMAIN mem["group"]
           checked(g) == [mem["group"][g] EXCEPT !.members = CheckMembers(@, users)]
           group == [g \in N |-> checked(g)]
           missing == IF gshadow = Closed THEN {} ELSE DOMAIN group \ DOMAIN gshadow
           row(g) == IF g \in missing THEN [group[g] EXCEPT !.pw = Shadow] ELSE group[g]
           entry(g) == [pw |-> group[g].pw, admins |-> {}, members |-> group[g].members]
           t == [g \in DOMAIN group |-> row(g)]
           added == [g \in missing |-> entry(g)]
           u == IF gshadow = Closed THEN gshadow ELSE Over(added, gshadow)
<1>1. new = WithTwo(mem, "group", t, "gshadow", u)
  BY DEF CheckGrpFile, WithTwo
<1>2. \A g \in N : checked(g) \in EntryOf("group")
  <2> SUFFICES ASSUME NEW g \in N PROVE checked(g) \in EntryOf("group")
    OBVIOUS
  <2>1. mem["group"][g] \in EntryOf("group")
    BY OneGroup
  <2>2. CheckMembers(mem["group"][g].members, users) \in SUBSET Names
    BY <2>1, GroupEntries DEF CheckMembers
  <2> QED BY <2>1, <2>2, GroupEntries
<1>3. N \subseteq Names
  BY OneGroup
<1> HIDE DEF checked, N
<1>4. DOMAIN group = N /\ \A g \in N : group[g] \in EntryOf("group")
  BY <1>2
<1> HIDE DEF group
<1>5. \A g \in N : row(g) \in EntryOf("group") /\ entry(g) \in EntryOf("gshadow")
  BY <1>4, GroupEntries, GshadowEntries, PasswordValues
<1>6. missing \subseteq N /\ (gshadow # Closed => N \subseteq missing \cup DOMAIN gshadow)
  BY <1>4
<1> HIDE DEF row, entry, missing
<1>7. /\ t = [g \in N |-> t[g]] /\ \A g \in N : t[g] \in EntryOf("group")
      /\ added = [g \in missing |-> added[g]] /\ \A g \in missing : added[g] \in EntryOf("gshadow")
  BY <1>4, <1>5, <1>6
<1> HIDE DEF t, added
<1>8. Holds("group", t) /\ DOMAIN t = N
  BY <1>3, <1>7, OneTable
<1>9. gshadow # Closed => /\ Holds("gshadow", Over(added, gshadow))
                          /\ DOMAIN Over(added, gshadow) = missing \cup DOMAIN gshadow
  <2> SUFFICES ASSUME gshadow # Closed
               PROVE  /\ Holds("gshadow", Over(added, gshadow))
                      /\ DOMAIN Over(added, gshadow) = missing \cup DOMAIN gshadow
    OBVIOUS
  <2>1. missing \subseteq Names
    BY <1>3, <1>6
  <2>2. Holds("gshadow", added) /\ DOMAIN added = missing
    BY <1>7, <2>1, OneTable
  <2>3. Holds("gshadow", gshadow)
    BY OneGroup
  <2> HIDE DEF gshadow
  <2> QED BY <2>2, <2>3, OverHolds
<1>10. IF mem["gshadow"] # Closed THEN Holds("gshadow", u) /\ N \subseteq DOMAIN u ELSE u = Closed
  BY <1>6, <1>9
<1> HIDE DEF u
<1>11. Edits(mem, new) /\ new["group"] = t /\ new["gshadow"] = u
  BY <1>1, <1>8, <1>10, GroupsEdit
<1> QED BY <1>8, <1>10, <1>11 DEF N

LEMMA GrpckEdits ==
  ASSUME NEW job, NEW users, NEW mem, Typed(mem), "group" \in OpenIn(mem),
         NEW new \in GrpckEdit(job, mem, users)
  PROVE  /\ Edits(mem, new)
         /\ "gshadow" \in OpenIn(mem) => Fits("grpck", new["group"], new["gshadow"])
<1> DEFINE half == CheckGrpFile(mem, users)
           N == DOMAIN half["gshadow"] \cap DOMAIN half["group"]
           entry(g) == [half["gshadow"][g] EXCEPT !.admins = CheckMembers(@, users),
                                                  !.members = CheckMembers(@, users)]
           v == [g \in N |-> entry(g)]
<1>1. "gshadow" \in Files /\ "group" \in Files
  BY DEF Files
<1>2. /\ Edits(mem, half) /\ DOMAIN half["group"] = DOMAIN mem["group"]
      /\ mem["gshadow"] # Closed => DOMAIN mem["group"] \subseteq DOMAIN half["gshadow"]
  BY CheckGrpEdits
<1>3. new = CheckSgrFile(half, users)
  BY DEF GrpckEdit
<1> HIDE DEF half
<1>4. Typed(half) /\ "group" \in OpenIn(half) /\ (mem["gshadow"] = Closed <=> half["gshadow"] = Closed)
  BY <1>1, <1>2 DEF Edits, OpenIn
<1>5. CASE mem["gshadow"] = Closed
  <2>1. [half EXCEPT !["gshadow"] = Closed] = half
    BY <1>4, <1>5 DEF Typed
  <2>2. new = half
    BY <1>3, <1>4, <1>5, <2>1 DEF CheckSgrFile
  <2> QED BY <1>2, <1>5, <2>2 DEF OpenIn
<1>6. CASE mem["gshadow"] # Closed
  <2>1. new = With(half, "gshadow", v)
    BY <1>3, <1>4, <1>6 DEF CheckSgrFile, With
  <2>2. \A g \in N : entry(g) \in EntryOf("gshadow")
    <3> SUFFICES ASSUME NEW g \in N PROVE entry(g) \in EntryOf("gshadow")
      OBVIOUS
    <3> DEFINE e == half["gshadow"][g]
               admins == CheckMembers(e.admins, users)
               members == CheckMembers(e.members, users)
    <3>1. e \in EntryOf("gshadow")
      BY <1>4, <1>6, OneGroup
    <3>2. admins \in SUBSET Names /\ members \in SUBSET Names
      BY <3>1, GshadowEntries DEF CheckMembers
    <3>3. entry(g) = [e EXCEPT !.admins = admins, !.members = members]
      OBVIOUS
    <3> HIDE DEF e, entry, admins, members
    <3>4. e \in [pw : Passwords, admins : SUBSET Names, members : SUBSET Names]
      BY <3>1 DEF EntryOf
    <3>5. [e EXCEPT !.admins = admins, !.members = members]
            \in [pw : Passwords, admins : SUBSET Names, members : SUBSET Names]
      BY <3>2, <3>4
    <3> QED BY <3>3, <3>5 DEF EntryOf
  <2>3. N \subseteq Names /\ (N = DOMAIN half["group"])
    BY <1>2, <1>4, <1>6, OneGroup
  <2> HIDE DEF entry, N
  <2>4. v = [g \in N |-> v[g]] /\ \A g \in N : v[g] \in EntryOf("gshadow")
    BY <2>2
  <2> HIDE DEF v
  <2>5. Holds("gshadow", v) /\ DOMAIN v = N
    BY <2>3, <2>4, OneTable
  <2>6. "gshadow" \in OpenIn(half) /\ "group" \in Files \ {"gshadow"}
    BY <1>1, <1>4, <1>6 DEF OpenIn
  <2>7. Edits(half, new) /\ new["gshadow"] = v /\ new["group"] = half["group"]
    BY <1>4, <2>1, <2>5, <2>6, EditOne
  <2>8. DOMAIN new["group"] = DOMAIN new["gshadow"]
    BY <2>3, <2>5, <2>7
  <2> QED BY <1>2, <2>7, <2>8, EditTwice DEF Fits
<1> QED BY <1>5, <1>6

(***************************************************************************)
(* The edit of a tool.                                                     *)
(***************************************************************************)
\* The script is at the edit: what will be written is open.
AtEdit(calls, job, mem, seen, mine) ==
  /\ WellFormed(job) /\ Typed(mem)
  /\ PlanOf({Editing} \cup calls, job, mem, seen, mine) /\ Follows(Editing, calls, job.tool)

LEMMA AllOpen ==
  ASSUME NEW calls, NEW job, NEW mem, NEW seen, NEW mine, AtEdit(calls, job, mem, seen, mine)
  PROVE  /\ calls \cap (Before \cup {Editing}) = {}
         /\ \A c \in Before : c \notin {Editing} \cup calls
         /\ \A f \in Files : calls \cap Writes(f) # {} => f \in OpenIn(mem)
         /\ Needed(job, seen) \subseteq Files
         /\ \A f \in Needed(job, seen) : calls \cap Writes(f) # {} /\ f \in OpenIn(mem)
<1>1. calls \cap (Before \cup {Editing}) = {}
  BY DEF AtEdit, Follows
<1>2. \A c \in Before : c \notin {Editing} \cup calls
  BY <1>1, KnownCalls
<1>3. \A f \in Files : calls \cap Writes(f) # {} => f \in OpenIn(mem)
  <2>1. Opens({Editing} \cup calls, mem)
    BY DEF AtEdit, PlanOf
  <2> QED BY <1>2, <2>1, KnownCalls DEF Opens, OpenIn
<1>4. Needed(job, seen) \subseteq Files
  BY DEF Needed, VipwFile, TableOf, ShadowOf, Files
<1>5. \A f \in Needed(job, seen) : calls \cap Writes(f) # {}
  <2>1. Finishes({Editing} \cup calls, Needed(job, seen))
    BY DEF AtEdit, PlanOf
  <2>2. \A f : Editing \notin Writes(f)
    BY CallFacts, SameCall
  <2> QED BY <2>1, <2>2 DEF Finishes
<1> QED BY <1>1, <1>2, <1>3, <1>4, <1>5

LEMMA UsersEdits ==
  ASSUME NEW calls, NEW job, NEW mem, NEW seen, NEW mine, AtEdit(calls, job, mem, seen, mine),
         job.tool \in UserTools, NEW new \in EditsOf(job, mem, seen)
  PROVE  Edits(mem, new)
<1>1. WellFormed(job) /\ Typed(mem)
  BY DEF AtEdit
<1>2. job.tool # "vipw" => "passwd" \in OpenIn(mem)
  BY AllOpen DEF Needed, TableOf
<1>3. job.tool \in {"chage", "pwconv", "pwunconv"} => "shadow" \in OpenIn(mem)
  BY AllOpen DEF Needed, Fellow, ShadowOf, UserTools
<1>4. job.tool = "vipw" => VipwFile(job) \in OpenIn(mem)
  BY AllOpen DEF Needed
<1>5. CASE job.tool = "passwd"
  BY <1>1, <1>2, <1>5, PasswdEdits DEF EditsOf
<1>6. CASE job.tool = "chpasswd"
  <2>1. job.pw \in Passwords /\ job.users \subseteq Names
    BY <1>1, <1>6 DEF WellFormed
  <2> QED BY <1>1, <1>2, <1>6, <2>1, ChpasswdEdits DEF EditsOf
<1>7. CASE job.tool = "chage"
  BY <1>1, <1>2, <1>3, <1>7, ChageEdits DEF EditsOf
<1>8. CASE job.tool = "chfn"
  <2> DEFINE as == [job EXCEPT !.gecos = Over(@, seen["passwd"])]
  <2>1. Call("check", None) \notin {Editing} \cup calls
    BY AllOpen, KnownCalls
  <2>2. seen["passwd"] \in [GecosFields -> STRING]
    BY <1>8, <2>1 DEF AtEdit, PlanOf, HasRead
  <2>3. Over(job.gecos, seen["passwd"]) \in [GecosFields -> STRING]
    BY <1>1, <2>2, JobFacts, OverAll
  <2>4. as.gecos = Over(job.gecos, seen["passwd"])
    BY <1>1 DEF WellFormed
  <2>5. new \in ChfnEdit(as, mem)
    BY <1>8 DEF EditsOf
  <2> HIDE DEF as
  <2> QED BY <1>1, <1>2, <1>8, <2>3, <2>4, <2>5, ChfnEdits
<1>9. CASE job.tool = "chsh"
  <2>1. job.shell \in STRING
    BY <1>1, <1>9 DEF WellFormed
  <2> QED BY <1>1, <1>2, <1>9, <2>1, ChshEdits DEF EditsOf
<1>10. CASE job.tool = "usermod"
  BY <1>1, <1>2, <1>10, UsermodEdits DEF EditsOf
<1>11. CASE job.tool = "vipw"
  BY <1>1, <1>4, <1>11, VipwEdits DEF EditsOf
<1>12. CASE job.tool = "pwck"
  BY <1>1, <1>2, <1>12, PwckEdits DEF EditsOf
<1>13. CASE job.tool = "pwconv"
  BY <1>1, <1>2, <1>3, <1>13, PwconvEdits DEF EditsOf
<1>14. CASE job.tool = "pwunconv"
  BY <1>1, <1>2, <1>3, <1>14, PwunconvEdits DEF EditsOf
<1> QED BY <1>5, <1>6, <1>7, <1>8, <1>9, <1>10, <1>11, <1>12, <1>13, <1>14 DEF UserTools

LEMMA GroupsEdits ==
  ASSUME NEW calls, NEW job, NEW mem, NEW seen, NEW mine, AtEdit(calls, job, mem, seen, mine),
         job.tool \notin UserTools, NEW new \in EditsOf(job, mem, seen)
  PROVE  Edits(mem, new)
<1>1. WellFormed(job) /\ Typed(mem)
  BY DEF AtEdit
<1>2. "group" \in OpenIn(mem)
  BY AllOpen DEF Needed, TableOf, UserTools
<1>3. job.tool \in {"grpconv", "grpunconv"} => "gshadow" \in OpenIn(mem)
  BY AllOpen DEF Needed, Fellow, ShadowOf, UserTools
<1>4. CASE job.tool = "gpasswd"
  <2>1. /\ Call("check", None) \notin {Editing} \cup calls /\ Call("read", "group") \notin {Editing} \cup calls
        /\ Call("test", "gshadow") \notin {Editing} \cup calls
    BY AllOpen, KnownCalls DEF Files
  <2>2. HasRead({Editing} \cup calls, "gpasswd", mem, seen)
    BY <1>4 DEF AtEdit, PlanOf
  <2>3. /\ seen["group"] \in EntryOf("group")
        /\ mem["gshadow"] # Closed => seen["gshadow"] \in EntryOf("gshadow") \cup {None}
    BY <2>1, <2>2 DEF HasRead
  <2>4. job.name \in Names
    BY <1>1, <1>4 DEF WellFormed
  <2>5. new \in GpasswdEdit(job, mem, seen["group"], seen["gshadow"])
    BY <1>4 DEF EditsOf
  <2> QED BY <1>1, <1>2, <2>3, <2>4, <2>5, GpasswdEdits
<1>5. CASE job.tool = "chgpasswd"
  <2>1. job.pw \in Passwords
    BY <1>1, <1>5 DEF WellFormed
  <2> QED BY <1>1, <1>2, <1>5, <2>1, ChgpasswdEdits DEF EditsOf
<1>6. CASE job.tool = "grpck"
  <2>1. new \in GrpckEdit(job, mem, DOMAIN disk["passwd"])
    BY <1>6 DEF EditsOf
  <2> QED BY <1>1, <1>2, <2>1, GrpckEdits
<1>7. CASE job.tool = "grpconv"
  BY <1>1, <1>2, <1>3, <1>7, GrpconvEdits DEF EditsOf
<1>8. CASE job.tool = "grpunconv"
  BY <1>1, <1>2, <1>3, <1>8, GrpunconvEdits DEF EditsOf
<1> QED BY <1>1, <1>4, <1>5, <1>6, <1>7, <1>8 DEF UserTools, WellFormed, Tools

\* The checkers and converters make files that fit.
LEMMA EditFits ==
  ASSUME NEW calls, NEW job, NEW mem, NEW seen, NEW mine, AtEdit(calls, job, mem, seen, mine),
         job.tool \in Checkers, Fellow(job.tool, seen), NEW new \in EditsOf(job, mem, seen)
  PROVE  Fits(job.tool, new[TableOf(job.tool)], new[ShadowOf(job.tool)])
<1>1. Typed(mem)
  BY DEF AtEdit
<1>2. /\ job.tool \in {"pwck", "pwconv"} =>
           /\ TableOf(job.tool) = "passwd" /\ ShadowOf(job.tool) = "shadow"
           /\ "passwd" \in OpenIn(mem) /\ "shadow" \in OpenIn(mem)
      /\ job.tool \in {"grpck", "grpconv"} =>
           /\ TableOf(job.tool) = "group" /\ ShadowOf(job.tool) = "gshadow"
           /\ "group" \in OpenIn(mem) /\ "gshadow" \in OpenIn(mem)
  BY AllOpen DEF Needed, TableOf, ShadowOf, UserTools, Checkers
<1>3. CASE job.tool = "pwck"
  BY <1>1, <1>2, <1>3, PwckEdits DEF EditsOf
<1>4. CASE job.tool = "pwconv"
  BY <1>1, <1>2, <1>4, PwconvEdits DEF EditsOf
<1>5. CASE job.tool = "grpck"
  <2>1. new \in GrpckEdit(job, mem, DOMAIN disk["passwd"])
    BY <1>5 DEF EditsOf
  <2> QED BY <1>1, <1>2, <1>5, <2>1, GrpckEdits
<1>6. CASE job.tool = "grpconv"
  BY <1>1, <1>2, <1>6, GrpconvEdits DEF EditsOf
<1> QED BY <1>3, <1>4, <1>5, <1>6 DEF Checkers

\* A user whom passwd lets change a password is not barred.
LEMMA NotBarred ==
  ASSUME NEW job, job.by # Root, NEW pw, NEW sp, CheckPassword(job, pw, sp)
  PROVE  ~sp.pw.locked /\ ~AccountExpired(sp.age, Today)
<1>1. ~sp.pw.locked /\ IsExpired(pw, sp.age, Today) <= 1
  BY DEF CheckPassword
<1>2. AccountExpired(sp.age, Today) => IsExpired(pw, sp.age, Today) = 3
  BY DEF IsExpired
<1> QED BY <1>1, <1>2

LEMMA BarsEdit ==
  ASSUME NEW d, DiskOK(d), NEW calls, NEW job, NEW mem, NEW seen, NEW mine,
         AtEdit(calls, job, mem, seen, mine), StateOf(d, mine, {Editing} \cup calls, job, mem, seen),
         NEW new \in EditsOf(job, mem, seen)
  PROVE  Bars(d, calls, new, job)
<1> SUFFICES ASSUME job.tool = "passwd", job.by # Root PROVE Bars(d, calls, new, job)
  BY DEF Bars
<1> DEFINE rows == Rows(d, "shadow")
<1>1. "passwd" \in Files /\ "shadow" \in Files
  BY DEF Files
<1>2. WellFormed(job) /\ Typed(mem)
  BY DEF AtEdit
<1>3. "passwd" \in OpenIn(mem)
  BY AllOpen DEF Needed, TableOf, UserTools
<1>4. \A f \in OpenIn(mem) : mem[f] = Content(d, f)
  BY DEF StateOf, Fresh, OpenIn
<1>5. mem["passwd"] = d["passwd"]
  BY <1>1, <1>3, <1>4, NotClosed DEF DiskOK, Content
<1>6. "shadow" \in OpenIn(mem) =>
        DOMAIN mem["shadow"] = rows /\ \A n \in rows : mem["shadow"][n] = d["shadow"][n]
  BY <1>1, <1>4, ContentHolds DEF Content, Rows
<1>7. "shadow" \notin OpenIn(mem) => rows = {}
  <2>1. /\ Call("test", "shadow") \notin {Editing} \cup calls
        /\ Call("open", "shadow") \notin {Editing} \cup calls
    BY <1>1, AllOpen, KnownCalls
  <2> QED BY <1>1, <2>1 DEF StateOf, NoShadow, OpenIn
<1>8. /\ Call("close", "shadow") \in calls => "shadow" \in OpenIn(mem)
  BY <1>1, AllOpen DEF Writes
<1>9. new \in PasswdEdit(job, mem)
  BY DEF EditsOf
<1> HIDE DEF rows
<1>10. PICK n \in DOMAIN mem["passwd"] :
        \/ /\ Has(mem, "shadow", n) /\ new["passwd"] = mem["passwd"]
           /\ DOMAIN new["shadow"] = DOMAIN mem["shadow"]
           /\ \A k \in DOMAIN mem["shadow"] : k # n => new["shadow"][k] = mem["shadow"][k]
           /\ CheckPassword(job, mem["passwd"][n].pw, mem["shadow"][n])
        \/ /\ ~Has(mem, "shadow", n) /\ new["shadow"] = mem["shadow"]
           /\ DOMAIN new["passwd"] = DOMAIN mem["passwd"]
           /\ \A k \in DOMAIN mem["passwd"] : k # n => new["passwd"][k] = mem["passwd"][k]
           /\ CheckPassword(job, mem["passwd"][n].pw, [pw |-> mem["passwd"][n].pw, age |-> NoAge])
  BY <1>2, <1>3, <1>9, PasswdEdits
<1>11. Has(mem, "shadow", n) <=> "shadow" \in OpenIn(mem) /\ n \in rows
  BY <1>1, <1>6 DEF Has, OpenIn
<1>12. Call("close", "shadow") \in calls =>
         /\ DOMAIN new["shadow"] = rows
         /\ \A k \in rows : \/ new["shadow"][k] = d["shadow"][k]
                            \/ ~d["shadow"][k].pw.locked /\ ~AccountExpired(d["shadow"][k].age, Today)
  <2> SUFFICES ASSUME Call("close", "shadow") \in calls
               PROVE  /\ DOMAIN new["shadow"] = rows
                      /\ \A k \in rows : \/ new["shadow"][k] = d["shadow"][k]
                                         \/ /\ ~d["shadow"][k].pw.locked
                                            /\ ~AccountExpired(d["shadow"][k].age, Today)
    OBVIOUS
  <2>1. DOMAIN mem["shadow"] = rows /\ \A k \in rows : mem["shadow"][k] = d["shadow"][k]
    BY <1>6, <1>8
  <2>2. CASE Has(mem, "shadow", n)
    <3>1. CheckPassword(job, mem["passwd"][n].pw, d["shadow"][n]) /\ n \in rows
      BY <1>10, <1>11, <2>1, <2>2
    <3>2. ~d["shadow"][n].pw.locked /\ ~AccountExpired(d["shadow"][n].age, Today)
      BY <3>1, NotBarred
    <3> QED BY <1>10, <2>1, <2>2, <3>2
  <2>3. CASE ~Has(mem, "shadow", n)
    BY <1>10, <2>1, <2>3
  <2> QED BY <2>2, <2>3
<1>13. /\ DOMAIN new["passwd"] = DOMAIN d["passwd"]
       /\ \A k \in DOMAIN d["passwd"] : \/ new["passwd"][k] = d["passwd"][k]
                                        \/ ~d["passwd"][k].pw.locked /\ k \notin rows
  <2>1. CASE Has(mem, "shadow", n)
    BY <1>5, <1>10, <2>1
  <2>2. CASE ~Has(mem, "shadow", n)
    <3> DEFINE sp == [pw |-> d["passwd"][n].pw, age |-> NoAge]
    <3>1. CheckPassword(job, d["passwd"][n].pw, sp)
      BY <1>5, <1>10, <2>2
    <3>2. sp.pw = d["passwd"][n].pw
      OBVIOUS
    <3> HIDE DEF sp
    <3>3. ~d["passwd"][n].pw.locked
      BY <3>1, <3>2, NotBarred
    <3>4. n \notin rows
      BY <1>7, <1>11, <2>2
    <3> QED BY <1>5, <1>10, <2>2, <3>3, <3>4
  <2> QED BY <2>1, <2>2
<1> QED BY <1>12, <1>13 DEF Bars, rows

LEMMA StateEdit ==
  ASSUME NEW d, DiskOK(d), NEW calls, NEW job, NEW mem, NEW seen, NEW mine,
         AtEdit(calls, job, mem, seen, mine), StateOf(d, mine, {Editing} \cup calls, job, mem, seen),
         \A f \in Files : mem[f] # Closed => f \in mine,
         NEW new \in EditsOf(job, mem, seen)
  PROVE  StateOf(d, mine, calls, job, new, seen)
<1>1. Editing \notin calls /\ "shadow" \in Files /\ Typed(mem) /\ WellFormed(job)
  BY AllOpen DEF Files, AtEdit
<1>2. Fresh(d, calls, new) /\ NoShadow(d, calls, new, job.tool)
  BY <1>1 DEF Fresh, NoShadow
<1>3. Mends(d, calls, new, mine, job.tool, seen)
  <2> SUFFICES ASSUME job.tool \in Checkers, Fellow(job.tool, seen)
               PROVE  /\ TableOf(job.tool) \in mine /\ ShadowOf(job.tool) \in mine
                      /\ Fits(job.tool, Final(d, calls, new, TableOf(job.tool)),
                                        Final(d, calls, new, ShadowOf(job.tool)))
    BY DEF Mends
  <2>1. TableOf(job.tool) \in Needed(job, seen) /\ ShadowOf(job.tool) \in Needed(job, seen)
    BY DEF Needed, Checkers
  <2>2. ASSUME NEW f \in Needed(job, seen) PROVE f \in mine /\ Final(d, calls, new, f) = new[f]
    <3>1. f \in Files /\ f \in OpenIn(mem) /\ calls \cap Writes(f) # {}
      BY <2>2, AllOpen
    <3>2. Call("unlink", f) \notin calls
      <4>1. KnownFiles({Editing} \cup calls, job.tool)
        BY DEF AtEdit, PlanOf
      <4> QED BY <4>1, SameCall DEF KnownFiles, Checkers
    <3>3. Call("close", f) \in calls
      BY <3>1, <3>2 DEF Writes
    <3> QED BY <3>1, <3>3 DEF Final, OpenIn
  <2> QED BY <2>1, <2>2, EditFits
<1>4. ByHand(d, new, job.tool)
  <2> SUFFICES ASSUME job.tool = "vipw", new["shadow"] # Closed
               PROVE  DOMAIN new["shadow"] \subseteq Rows(d, "shadow")
    BY DEF ByHand
  <2>1. VipwFile(job) \in OpenIn(mem) /\ new \in VipwEdit(job, mem)
    BY AllOpen DEF Needed, EditsOf
  <2>2. Edits(mem, new) /\ ("shadow" \in OpenIn(mem) => DOMAIN new["shadow"] \subseteq DOMAIN mem["shadow"])
    BY <1>1, <2>1, VipwEdits
  <2>3. "shadow" \in OpenIn(mem)
    BY <1>1, <2>2 DEF Edits, OpenIn
  <2> QED BY <1>1, <2>2, <2>3 DEF StateOf, ByHand, OpenIn
<1>5. Bars(d, calls, new, job)
  BY BarsEdit
<1> QED BY <1>2, <1>3, <1>4, <1>5 DEF StateOf

(***************************************************************************)
(* The invariant of a process, and what keeps it.                          *)
(***************************************************************************)
GoodOf(d, mine, script, job, mem, seen) ==
  /\ Ordered(script, job.tool) /\ (script # <<>> => WellFormed(job))
  /\ PlanOf(Range(script), job, mem, seen, mine)
  /\ Typed(mem) /\ (\A f \in Files : mem[f] # Closed => f \in mine)
  /\ seen = [f \in Files |-> seen[f]]
  /\ StateOf(d, mine, Range(script), job, mem, seen)

LEMMA GoodHead ==
  ASSUME NEW d, NEW mine, NEW script, script # <<>>, NEW job, NEW mem, NEW seen,
         GoodOf(d, mine, script, job, mem, seen)
  PROVE  LET c == Head(script)
             R == Range(Tail(script))
         IN  /\ c \in Calls /\ R \subseteq Calls /\ WellFormed(job) /\ Ordered(Tail(script), job.tool)
             /\ PlanOf({c} \cup R, job, mem, seen, mine) /\ Follows(c, R, job.tool)
             /\ StateOf(d, mine, {c} \cup R, job, mem, seen)
<1> DEFINE c == Head(script)
           R == Range(Tail(script))
<1>1. /\ c \in Calls /\ Range(script) = {c} \cup R /\ Ordered(Tail(script), job.tool)
      /\ Follows(c, R, job.tool)
  BY OrderedTail DEF GoodOf
<1>2. R \subseteq Calls
  <2>1. Tail(script) \in Seq(Calls)
    BY <1>1 DEF Ordered
  <2> QED BY <2>1, LenProperties DEF Range
<1> HIDE DEF c, R
<1>3. PlanOf({c} \cup R, job, mem, seen, mine) /\ StateOf(d, mine, {c} \cup R, job, mem, seen)
      /\ WellFormed(job)
  BY <1>1 DEF GoodOf
<1> QED BY <1>1, <1>2, <1>3 DEF c, R

\* A look, or a lock.
LEMMA GoodQuiet ==
  ASSUME NEW d, NEW mine, NEW script, script # <<>>, NEW job, NEW mem, NEW seen,
         GoodOf(d, mine, script, job, mem, seen),
         Head(script).do \in {"test", "read", "check", "lock"},
         NEW more, mine \subseteq more, Head(script) = Call("lock", "passwd") => "passwd" \in more,
         NEW new, WellFormed(new), new.tool = job.tool, NEW now, now = [f \in Files |-> now[f]],
         Needed(new, now) \subseteq Needed(job, seen), HasRead(Range(Tail(script)), job.tool, mem, now)
  PROVE  GoodOf(d, more, Tail(script), new, mem, now)
<1> DEFINE c == Head(script)
           s == Tail(script)
           R == Range(s)
<1>1. /\ c \in Calls /\ R \subseteq Calls /\ Ordered(s, job.tool)
      /\ PlanOf({c} \cup R, job, mem, seen, mine) /\ Follows(c, R, job.tool)
      /\ StateOf(d, mine, {c} \cup R, job, mem, seen)
  BY GoodHead
<1>2. c.do \in {"test", "read", "check", "lock"} /\ (c = Call("lock", "passwd") => "passwd" \in more)
      /\ HasRead(R, job.tool, mem, now)
  OBVIOUS
<1>3. Typed(mem) /\ \A f \in Files : mem[f] # Closed => f \in more
  BY DEF GoodOf
<1> HIDE DEF c, s, R
<1>4. Quiet(c, R, mine, more, job, new, mem, seen, now)
  BY <1>1, <1>2 DEF Quiet
<1>5. PlanOf(R, new, mem, now, more) /\ Editing \in R
  BY <1>4, PlanQuiet
<1>6. NoShadow(d, R, mem, job.tool)
  <2> SUFFICES ASSUME job.tool = "passwd", mem["shadow"] = Closed,
                      Call("test", "shadow") \notin R, Call("open", "shadow") \notin R
               PROVE  Rows(d, "shadow") = {}
    BY DEF NoShadow
  <2>1. c # Call("open", "shadow")
    BY <1>2, SameCall
  <2>2. Call("test", "shadow") \notin {c} \cup R
    BY <1>1, <2>1 DEF PlanOf, Tests
  <2> QED BY <1>1, <1>5, <2>1, <2>2 DEF StateOf, NoShadow
<1>7. StateOf(d, more, R, new, mem, now)
  BY <1>1, <1>5, <1>6, StateQuiet
<1> QED BY <1>1, <1>3, <1>5, <1>7 DEF GoodOf, s, R

\* The shadow file is not there.
LEMMA GoodDrop ==
  ASSUME NEW d, NEW mine, NEW script, script # <<>>, NEW job, NEW mem, NEW seen,
         GoodOf(d, mine, script, job, mem, seen),
         NEW f \in Files, Head(script) = Call("test", f), d[f] = Absent, job.tool \notin Needs,
         NEW now, now = [g \in Files |-> now[g]], \A g \in Files \ {f} : now[g] = seen[g],
         job.tool \in {"pwck", "grpck"} => now[f] = FALSE
  PROVE  GoodOf(d, mine, Without(Tail(script), f), job, mem, now)
<1> DEFINE c == Head(script)
           s == Tail(script)
           t == Without(s, f)
           R == Range(s)
<1>1. /\ R \subseteq Calls /\ Ordered(s, job.tool) /\ WellFormed(job)
      /\ PlanOf({c} \cup R, job, mem, seen, mine) /\ Follows(c, R, job.tool)
      /\ StateOf(d, mine, {c} \cup R, job, mem, seen)
  BY GoodHead
<1>2. c = Call("test", f)
  OBVIOUS
<1>3. Typed(mem) /\ \A g \in Files : mem[g] # Closed => g \in mine
  BY DEF GoodOf
<1>4. Ordered(t, job.tool) /\ Range(t) = {e \in R : e.file # f}
  BY <1>1, OrderedWithout
<1> HIDE DEF c, s, t, R
<1> DEFINE L == {e \in R : e.file # f}
<1>5. \A e : e \in L <=> e \in R /\ e.file # f
  OBVIOUS
<1> HIDE DEF L
<1>6. Drops(f, c, R, L, mine, job, mem, seen, now)
  BY <1>1, <1>2, <1>5 DEF Drops
<1>7. PlanOf(L, job, mem, now, mine) /\ f = ShadowOf(job.tool)
  BY <1>6, PlanDrop
<1>8. Editing \in L
  <2>1. c \in Before /\ c # Editing
    BY <1>2, KnownCalls
  <2>2. Editing \in R
    BY <1>1, <2>1 DEF PlanOf, Begins
  <2> QED BY <1>5, <2>2, NoneIsNoFile, SameCall DEF Editing
<1>9. L \subseteq R
  BY <1>5
<1>10. NoShadow(d, L, mem, job.tool)
  <2>1. job.tool = "passwd" => f = "shadow"
    BY <1>7 DEF ShadowOf, UserTools
  <2> QED BY <2>1 DEF NoShadow, Rows
<1>11. StateOf(d, mine, L, job, mem, now)
  BY <1>1, <1>8, <1>9, <1>10, StateQuiet
<1>12. Range(t) = L
  BY <1>4 DEF L
<1> QED BY <1>1, <1>3, <1>4, <1>7, <1>11, <1>12 DEF GoodOf, t, s

\* A file is opened.
LEMMA GoodOpen ==
  ASSUME NEW d, DiskOK(d), NEW mine, NEW script, script # <<>>, NEW job, NEW mem, NEW seen,
         GoodOf(d, mine, script, job, mem, seen),
         NEW f \in mine, f \in Files, Head(script) = Call("open", f)
  PROVE  GoodOf(d, mine, Tail(script), job, With(mem, f, Content(d, f)), seen)
<1> DEFINE c == Head(script)
           s == Tail(script)
           R == Range(s)
           new == With(mem, f, Content(d, f))
<1>1. /\ R \subseteq Calls /\ Ordered(s, job.tool) /\ WellFormed(job)
      /\ PlanOf({c} \cup R, job, mem, seen, mine) /\ Follows(c, R, job.tool)
      /\ StateOf(d, mine, {c} \cup R, job, mem, seen)
  BY GoodHead
<1>2. c = Call("open", f)
  OBVIOUS
<1>3. Typed(mem) /\ \A g \in Files : mem[g] # Closed => g \in mine
  BY DEF GoodOf
<1>4. Holds(f, Content(d, f)) /\ Content(d, f) # Closed
  BY ContentHolds, NotClosed
<1>5. /\ new = [g \in Files |-> new[g]] /\ new[f] = Content(d, f)
      /\ \A g \in Files \ {f} : new[g] = mem[g]
  BY <1>3 DEF With, Typed
<1> HIDE DEF c, s, R, new
<1>6. Typed(new) /\ \A g \in Files : new[g] # Closed => g \in mine
  BY <1>3, <1>4, <1>5 DEF Typed
<1>7. PlanOf(R, job, new, seen, mine) /\ Editing \in R
  BY <1>1, <1>2, <1>4, <1>5, PlanOpen
<1>8. StateOf(d, mine, R, job, new, seen)
  BY <1>1, <1>2, <1>5, <1>7, StateOpen
<1> QED BY <1>1, <1>6, <1>7, <1>8 DEF GoodOf, s, R, new

\* The edit.
LEMMA GoodEdit ==
  ASSUME NEW d, DiskOK(d), NEW mine, NEW script, script # <<>>, NEW job, NEW mem, NEW seen,
         GoodOf(d, mine, script, job, mem, seen), Head(script) = Editing,
         NEW new \in EditsOf(job, mem, seen)
  PROVE  GoodOf(d, mine, Tail(script), job, new, seen)
<1> DEFINE s == Tail(script)
           R == Range(s)
<1>1. /\ R \subseteq Calls /\ Ordered(s, job.tool) /\ WellFormed(job)
      /\ PlanOf({Editing} \cup R, job, mem, seen, mine) /\ Follows(Editing, R, job.tool)
      /\ StateOf(d, mine, {Editing} \cup R, job, mem, seen)
  BY GoodHead
<1>2. Typed(mem) /\ \A f \in Files : mem[f] # Closed => f \in mine
  BY DEF GoodOf
<1> HIDE DEF s, R
<1>3. AtEdit(R, job, mem, seen, mine)
  BY <1>1, <1>2 DEF AtEdit
<1>4. Edits(mem, new)
  BY <1>3, UsersEdits, GroupsEdits
<1>5. Typed(new) /\ \A f \in Files : new[f] # Closed <=> mem[f] # Closed
  BY <1>4 DEF Edits, OpenIn
<1>6. PlanOf(R, job, new, seen, mine)
  BY <1>1, <1>5, PlanEdit
<1>7. StateOf(d, mine, R, job, new, seen)
  BY <1>1, <1>2, <1>3, StateEdit
<1>8. seen = [f \in Files |-> seen[f]]
  BY DEF GoodOf
<1> QED BY <1>1, <1>2, <1>5, <1>6, <1>7, <1>8 DEF GoodOf, s, R

\* What is written is open.
LEMMA GoodWrites ==
  ASSUME NEW d, NEW mine, NEW script, script # <<>>, NEW job, NEW mem, NEW seen,
         GoodOf(d, mine, script, job, mem, seen),
         NEW f \in Files, Head(script) \in Writes(f)
  PROVE  /\ mem[f] # Closed /\ Holds(f, mem[f]) /\ f \in mine
         /\ Editing \notin {Head(script)} \cup Range(Tail(script))
<1> DEFINE c == Head(script)
           R == Range(Tail(script))
<1>1. PlanOf({c} \cup R, job, mem, seen, mine) /\ Follows(c, R, job.tool) /\ c \in Writes(f)
  BY GoodHead
<1>2. Typed(mem) /\ \A g \in Files : mem[g] # Closed => g \in mine
  BY DEF GoodOf
<1> HIDE DEF c, R
<1>3. c \in After /\ c # Editing /\ c \notin Before
  BY <1>1, KnownCalls DEF Writes
<1>4. Editing \notin {c} \cup R /\ Call("open", f) \notin {c} \cup R
  <2>1. R \cap (Before \cup {Editing}) = {}
    BY <1>1, <1>3 DEF Follows
  <2> QED BY <1>3, <2>1, KnownCalls
<1>5. mem[f] # Closed
  BY <1>1, <1>4 DEF PlanOf, Opens
<1> QED BY <1>2, <1>4, <1>5 DEF Typed, c, R

\* Nothing of a file is kept when it is written, removed or given back; less
\* are the locks then.
LocksAfter(c, f, mine, less) == less = mine \/ (c = Call("unlock", f) /\ less = mine \ {f})

Leaving(s, f, less, job, mem, new, seen) ==
  /\ Ordered(s, job.tool) /\ WellFormed(job)
  /\ PlanOf(Range(s), job, new, seen, less)
  /\ Typed(new) /\ (\A g \in Files : new[g] # Closed => g \in less)
  /\ seen = [g \in Files |-> seen[g]]
  /\ new[f] = Closed /\ (\A g \in Files \ {f} : new[g] = mem[g])

LEMMA GoodLeave ==
  ASSUME NEW d, NEW mine, NEW script, script # <<>>, NEW job, NEW mem, NEW seen,
         GoodOf(d, mine, script, job, mem, seen),
         NEW f \in Files, Head(script) \in Leaves(f),
         NEW less, LocksAfter(Head(script), f, mine, less)
  PROVE  Leaving(Tail(script), f, less, job, mem, With(mem, f, Closed), seen)
<1> DEFINE c == Head(script)
           s == Tail(script)
           R == Range(s)
           new == With(mem, f, Closed)
<1>1. /\ R \subseteq Calls /\ Ordered(s, job.tool) /\ WellFormed(job)
      /\ PlanOf({c} \cup R, job, mem, seen, mine) /\ Follows(c, R, job.tool)
  BY GoodHead
<1>2. c \in Leaves(f) /\ (less = mine \/ (c = Call("unlock", f) /\ less = mine \ {f}))
  BY DEF LocksAfter
<1>3. /\ Typed(mem) /\ (\A g \in Files : mem[g] # Closed => g \in mine)
      /\ seen = [g \in Files |-> seen[g]]
  BY DEF GoodOf
<1>4. /\ new = [g \in Files |-> new[g]] /\ new[f] = Closed /\ \A g \in Files \ {f} : new[g] = mem[g]
  BY <1>3 DEF With, Typed
<1> HIDE DEF c, s, R, new
<1>5. Typed(new) /\ \A g \in Files : new[g] # Closed => g \in less
  BY <1>2, <1>3, <1>4 DEF Typed
<1>6. PlanOf(R, job, new, seen, less)
  BY <1>1, <1>2, <1>4, PlanLeave
<1> QED BY <1>1, <1>3, <1>4, <1>5, <1>6 DEF Leaving, s, R, new

\* A file is written: e are the files then.
LEMMA GoodClose ==
  ASSUME NEW d, DiskOK(d), NEW mine, NEW script, script # <<>>, NEW job, NEW mem, NEW seen,
         GoodOf(d, mine, script, job, mem, seen),
         NEW f \in Files, Head(script) = Call("close", f),
         NEW e, e = [g \in Files |-> e[g]], \A g \in Files \ {f} : e[g] = d[g],
         e[f] = mem[f] \/ (d[f] = Absent /\ mem[f] = <<>> /\ e[f] = d[f])
  PROVE  GoodOf(e, mine, Tail(script), job, With(mem, f, Closed), seen) /\ DiskOK(e)
<1> DEFINE c == Head(script)
           s == Tail(script)
           R == Range(s)
           new == With(mem, f, Closed)
<1>1. Follows(c, R, job.tool) /\ StateOf(d, mine, {c} \cup R, job, mem, seen) /\ c = Call("close", f)
  BY GoodHead
<1>2. c \in Writes(f) /\ c \in Leaves(f) /\ LocksAfter(c, f, mine, mine)
  BY <1>1 DEF Writes, Leaves, LocksAfter
<1>3. Holds(f, mem[f])
  BY <1>2, GoodWrites
<1>4. DiskOK(e)
  BY <1>3, NotClosed DEF DiskOK, Files
<1>5. Leaving(s, f, mine, job, mem, new, seen)
  BY <1>2, GoodLeave
<1> HIDE DEF c, s, R, new
<1>6. StateOf(e, mine, R, job, new, seen)
  BY <1>1, <1>3, <1>5, StateClose DEF Leaving
<1> QED BY <1>4, <1>5, <1>6 DEF GoodOf, Leaving, s, R, new

\* A file is removed.
LEMMA GoodUnlink ==
  ASSUME NEW d, DiskOK(d), NEW mine, NEW script, script # <<>>, NEW job, NEW mem, NEW seen,
         GoodOf(d, mine, script, job, mem, seen),
         NEW f \in Files, Head(script) = Call("unlink", f),
         NEW e, e = [d EXCEPT ![f] = Absent]
  PROVE  GoodOf(e, mine, Tail(script), job, With(mem, f, Closed), seen) /\ DiskOK(e)
<1> DEFINE c == Head(script)
           s == Tail(script)
           R == Range(s)
           new == With(mem, f, Closed)
<1>1. Follows(c, R, job.tool) /\ PlanOf({c} \cup R, job, mem, seen, mine) /\ c = Call("unlink", f)
  BY GoodHead
<1>2. c \in Leaves(f) /\ LocksAfter(c, f, mine, mine)
  BY <1>1 DEF Writes, Leaves, LocksAfter
<1>3. f \in {"shadow", "gshadow"} /\ job.tool \in {"pwunconv", "grpunconv"}
  <2>1. c.do = "unlink" /\ c.file = f
    BY <1>1, SameCall
  <2> QED BY <1>1, <2>1 DEF PlanOf, KnownFiles
<1>4. DiskOK(e)
  BY <1>3 DEF DiskOK, Files
<1>5. Leaving(s, f, mine, job, mem, new, seen)
  BY <1>2, GoodLeave
<1> HIDE DEF c, s, R, new
<1>6. StateOf(e, mine, R, job, new, seen)
  BY <1>1, <1>3, StateUnlink
<1> QED BY <1>4, <1>5, <1>6 DEF GoodOf, Leaving, s, R, new

\* A file is given back.
LEMMA GoodUnlock ==
  ASSUME NEW d, NEW mine, NEW script, script # <<>>, NEW job, NEW mem, NEW seen,
         GoodOf(d, mine, script, job, mem, seen),
         NEW f \in Files, Head(script) = Call("unlock", f)
  PROVE  GoodOf(d, mine \ {f}, Tail(script), job, With(mem, f, Closed), seen)
<1> DEFINE c == Head(script)
           s == Tail(script)
           R == Range(s)
           new == With(mem, f, Closed)
           less == mine \ {f}
<1>1. /\ Follows(c, R, job.tool) /\ StateOf(d, mine, {c} \cup R, job, mem, seen) /\ c = Call("unlock", f)
      /\ R \subseteq Calls
  BY GoodHead
<1>2. c \in Leaves(f)
  BY <1>1 DEF Leaves
<1>3. LocksAfter(c, f, mine, less)
  BY <1>1 DEF LocksAfter
<1> HIDE DEF less
<1>4. Leaving(s, f, less, job, mem, new, seen)
  BY <1>2, <1>3, GoodLeave
<1> HIDE DEF c, s, R, new
<1>5. KnownFiles(R, job.tool)
  BY <1>4 DEF PlanOf, Leaving, R
<1>6. StateOf(d, less, R, job, new, seen)
  <2>1. new[f] = Closed /\ \A g \in Files \ {f} : new[g] = mem[g]
    BY <1>4 DEF Leaving
  <2> QED BY <1>1, <1>5, <2>1, StateUnlock
<1> QED BY <1>4, <1>6 DEF GoodOf, Leaving, s, R, new, less

\* fail_exit: only the locks are left to give back.
LEMMA GoodUnlocks ==
  ASSUME NEW d, NEW mine, NEW script, script # <<>>, NEW job, NEW mem, NEW seen,
         GoodOf(d, mine, script, job, mem, seen),
         NEW s \in Seq(Calls), \A c \in Range(s) : c.do = "unlock" /\ c.file \in Files
  PROVE  GoodOf(d, mine, s, job, mem, seen)
<1>1. Ordered(s, job.tool)
  BY OrderedUnlocks
<1>2. PlanOf(Range(s), job, mem, seen, mine)
  BY PlanUnlocks
<1>3. StateOf(d, mine, Range(s), job, mem, seen)
  <2>1. ByHand(d, mem, job.tool)
    BY DEF GoodOf, StateOf
  <2> QED BY <2>1, StateUnlocks
<1> QED BY <1>1, <1>2, <1>3 DEF GoodOf

\* A process that has nothing to do.
LEMMA GoodIdle ==
  ASSUME NEW d, NEW mine
  PROVE  GoodOf(d, mine, Idle.script, Idle.job, Idle.mem, Idle.seen)
<1>1. /\ Idle.script = <<>> /\ Idle.mem = [f \in Files |-> Closed]
      /\ Idle.seen = [f \in Files |-> Unset]
  BY DEF Idle
<1> DEFINE job == Idle.job
           mem == Idle.mem
           seen == Idle.seen
<1>2. /\ mem = [f \in Files |-> mem[f]] /\ (\A f \in Files : mem[f] = Closed)
      /\ seen = [f \in Files |-> seen[f]] /\ "shadow" \in Files
  BY <1>1 DEF Files
<1> HIDE DEF job, mem, seen
<1>3. <<>> \in Seq(Calls) /\ Range(<<>>) = {}
  BY EmptySeq DEF Range
<1>4. Ordered(<<>>, job.tool)
  BY <1>3, OrderedUnlocks
<1>5. PlanOf({}, job, mem, seen, mine)
  BY PlanNoCalls
<1>6. StateOf(d, mine, {}, job, mem, seen)
  BY <1>2, StateIdle
<1>7. GoodOf(d, mine, <<>>, job, mem, seen)
  BY <1>2, <1>3, <1>4, <1>5, <1>6 DEF GoodOf, Typed
<1> QED BY <1>1, <1>7 DEF job, mem, seen

\* A tool starts.
LEMMA GoodStart ==
  ASSUME NEW d, NEW job, WellFormed(job)
  PROVE  GoodOf(d, {}, Script(job), job, Idle.mem, Idle.seen)
<1> DEFINE s == Script(job)
           R == Range(s)
           mem == Idle.mem
           seen == Idle.seen
<1>1. /\ mem = [f \in Files |-> Closed] /\ seen = [f \in Files |-> Unset]
      /\ "shadow" \in Files /\ "passwd" \in Files /\ job.tool \in Tools
  BY DEF Idle, Files, WellFormed
<1> HIDE DEF mem, seen
<1>2. /\ mem = [f \in Files |-> mem[f]] /\ (\A f \in Files : mem[f] = Closed)
      /\ seen = [f \in Files |-> seen[f]] /\ (\A f \in Files : seen[f] = Unset)
  BY <1>1
<1>3. Ordered(s, job.tool) /\ PlanOf(R, job, mem, seen, {})
  BY <1>1, <1>2, PlanStart
<1>4. Editing \in R
  BY <1>1, ToolForms DEF Form, Usual, Makes
<1> HIDE DEF s, R
<1>5. NoShadow(d, R, mem, job.tool)
  <2> SUFFICES ASSUME job.tool = "passwd" PROVE Call("test", "shadow") \in R
    BY DEF NoShadow
  <2>1. "passwd" \in Needed(job, seen) /\ job.tool \in UserTools \ {"vipw"}
    BY DEF Needed, TableOf, UserTools
  <2>2. R \cap Watched # {}
    BY <1>3, <1>4, <2>1 DEF PlanOf, Finishes, Watched
  <2> QED BY <1>3, <2>1, <2>2 DEF PlanOf, Guards, Tests
<1>6. Fresh(d, R, mem) /\ ByHand(d, mem, job.tool)
  BY <1>1, <1>2 DEF Fresh, ByHand
<1>7. StateOf(d, {}, R, job, mem, seen)
  BY <1>4, <1>5, <1>6, StateBefore
<1>8. Typed(mem) /\ \A f \in Files : mem[f] # Closed => f \in {}
  BY <1>2 DEF Typed
<1> QED BY <1>2, <1>3, <1>7, <1>8 DEF GoodOf, s, R, mem, seen

\* Another process writes: e are the files then.
LEMMA GoodOther ==
  ASSUME NEW d, NEW mine, NEW script, NEW job, NEW mem, NEW seen,
         GoodOf(d, mine, script, job, mem, seen), NEW e, \A f \in mine : e[f] = d[f],
         job.tool = "passwd" /\ "passwd" \in mine => Rows(e, "shadow") \subseteq Rows(d, "shadow")
  PROVE  GoodOf(e, mine, script, job, mem, seen)
<1> DEFINE R == Range(script)
<1>1. /\ PlanOf(R, job, mem, seen, mine) /\ StateOf(d, mine, R, job, mem, seen)
      /\ \A f \in Files : mem[f] # Closed => f \in mine
  BY DEF GoodOf
<1>2. R \subseteq Calls
  <2>1. script \in Seq(Calls)
    BY DEF GoodOf, Ordered
  <2> QED BY <2>1, LenProperties DEF Range
<1> HIDE DEF R
<1>3. StateOf(e, mine, R, job, mem, seen)
  BY <1>1, <1>2, StateOther
<1> QED BY <1>3 DEF GoodOf, R

(***************************************************************************)
(* The invariant of all.                                                   *)
(***************************************************************************)
Good(d, mine, w) == GoodOf(d, mine, w.script, w.job, w.mem, w.seen)

WorkInv == LocksInv /\ DiskOK(disk) /\ \A p \in Procs : Good(disk, Held(p), work[p])

\* Who writes shadow while passwd is locked by another is vipw, which adds
\* nobody.
LEMMA ShadowKept ==
  ASSUME NEW d, NEW mine, "passwd" \notin mine, NEW script, script # <<>>, NEW job, NEW mem, NEW seen,
         GoodOf(d, mine, script, job, mem, seen),
         NEW e, \A g \in Files \ {"shadow"} : e[g] = d[g],
         \/ Head(script) = Call("unlink", "shadow") /\ e["shadow"] = Absent
         \/ /\ Head(script) = Call("close", "shadow")
            /\ e["shadow"] \in {mem["shadow"], d["shadow"]}
  PROVE  Rows(e, "shadow") \subseteq Rows(d, "shadow")
<1> DEFINE c == Head(script)
           R == Range(Tail(script))
<1>1. "shadow" \in Files /\ "passwd" \in Files
  BY DEF Files
<1>2. c = Call("unlink", "shadow") => e["shadow"] = Absent
  <2>1. Call("unlink", "shadow") # Call("close", "shadow")
    BY SameCall
  <2> QED BY <2>1
<1>3. /\ PlanOf({c} \cup R, job, mem, seen, mine) /\ Follows(c, R, job.tool)
      /\ StateOf(d, mine, {c} \cup R, job, mem, seen) /\ c \in Writes("shadow")
  BY GoodHead DEF Writes
<1>4. /\ mem["shadow"] # Closed /\ Holds("shadow", mem["shadow"])
      /\ Editing \notin {c} \cup R
  BY <1>1, <1>3, GoodWrites
<1>5. c = Call("close", "shadow") => e["shadow"] \in {mem["shadow"], d["shadow"]}
  <2>1. Call("unlink", "shadow") # Call("close", "shadow")
    BY SameCall
  <2> QED BY <2>1
<1>6. c = Call("close", "shadow") \/ c = Call("unlink", "shadow")
  OBVIOUS
<1> HIDE DEF c, R
<1>7. job.tool \in UserTools
  BY <1>3 DEF PlanOf, KnownFiles
<1>8. job.tool = "vipw"
  <2> SUFFICES ASSUME job.tool # "vipw" PROVE FALSE
    OBVIOUS
  <2>1. ({c} \cup R) \cap Watched # {}
    BY <1>3 DEF Watched
  <2>2. Call("lock", "passwd") \in {c} \cup R
    BY <1>7, <2>1, <1>3 DEF PlanOf, Guards
  <2>3. Call("lock", "passwd") \in Before
    BY <1>1, KnownCalls
  <2> QED BY <1>3, <1>4, <2>2, <2>3 DEF PlanOf, Begins
<1>9. CASE c = Call("unlink", "shadow")
  BY <1>2, <1>9 DEF Rows
<1>10. CASE c = Call("close", "shadow")
  <2>1. DOMAIN mem["shadow"] \subseteq Rows(d, "shadow")
    BY <1>3, <1>4, <1>8 DEF StateOf, ByHand
  <2> QED BY <1>5, <1>10, <2>1 DEF Rows
<1> QED BY <1>6, <1>9, <1>10

(***************************************************************************)
(* Looks, and locks.                                                       *)
(***************************************************************************)
\* The calls that are made before the edit.
Earlier(c, R, tool, mem, seen) ==
  /\ HasRead({c} \cup R, tool, mem, seen) /\ Editing \in R
  /\ Tests({c} \cup R, tool) /\ KnownFiles({c} \cup R, tool)
  /\ Follows(c, R, tool) /\ seen = [f \in Files |-> seen[f]]

LEMMA GoodBefore ==
  ASSUME NEW d, NEW mine, NEW script, script # <<>>, NEW job, NEW mem, NEW seen,
         GoodOf(d, mine, script, job, mem, seen), Head(script) \in Before
  PROVE  Earlier(Head(script), Range(Tail(script)), job.tool, mem, seen)
<1> DEFINE c == Head(script)
           R == Range(Tail(script))
<1>1. PlanOf({c} \cup R, job, mem, seen, mine) /\ Follows(c, R, job.tool) /\ c \in Before
  BY GoodHead
<1>2. seen = [f \in Files |-> seen[f]]
  BY DEF GoodOf
<1> HIDE DEF c, R
<1>3. Editing \in {c} \cup R /\ c # Editing
  BY <1>1, KnownCalls DEF PlanOf, Begins
<1> QED BY <1>1, <1>2, <1>3 DEF PlanOf, Earlier, c, R

\* The shadow file is there.
LEMMA GoodTest ==
  ASSUME NEW d, NEW mine, NEW script, script # <<>>, NEW job, NEW mem, NEW seen,
         GoodOf(d, mine, script, job, mem, seen),
         NEW f \in Files, Head(script) = Call("test", f), NEW x,
         job.tool = "gpasswd" => x \in EntryOf(f) \cup {None},
         job.tool \in {"pwck", "grpck"} => x # FALSE
  PROVE  GoodOf(d, mine, Tail(script), job, mem, [seen EXCEPT ![f] = x])
<1> DEFINE c == Head(script)
           R == Range(Tail(script))
           tool == job.tool
           now == [seen EXCEPT ![f] = x]
<1>1. c \in Before
  BY KnownCalls
<1>2. c = Call("test", f) /\ WellFormed(job) /\ c.do = "test"
  BY SameCall DEF GoodOf
<1>3. /\ HasRead({c} \cup R, tool, mem, seen) /\ Editing \in R /\ Tests({c} \cup R, tool)
      /\ seen = [g \in Files |-> seen[g]]
  <2>1. Earlier(c, R, tool, mem, seen)
    BY <1>1, GoodBefore
  <2> QED BY <2>1 DEF Earlier
<1>4. /\ now = [g \in Files |-> now[g]] /\ now[f] = x /\ (\A g \in Files \ {f} : now[g] = seen[g])
  BY <1>3
<1> HIDE DEF now, R, tool, c
<1>5. tool \notin Needs => f = ShadowOf(tool)
  BY <1>2, <1>3 DEF Tests
<1>6. ASSUME tool = "gpasswd" PROVE f = "gshadow"
  BY <1>5, <1>6 DEF Needs, ShadowOf, UserTools
<1>7. ASSUME tool \in {"pwck", "grpck"} PROVE f = ShadowOf(tool) /\ seen[f] # FALSE /\ now[f] # FALSE
  <2>1. f = ShadowOf(tool)
    BY <1>5, <1>7 DEF Needs
  <2>2. seen[f] # FALSE
    BY <1>2, <1>3, <1>7, <2>1 DEF HasRead
  <2> QED BY <1>4, <1>7, <2>1, <2>2 DEF tool
<1>8. Needed(job, now) \subseteq Needed(job, seen)
  BY <1>7 DEF Needed, Fellow, tool
<1>9. HasRead(R, tool, mem, now)
  <2>1. CASE tool = "gpasswd"
    <3>1. c # Call("read", "group") /\ c # Call("check", None) /\ c = Call("test", "gshadow")
      BY <1>2, <1>6, <2>1, SameCall
    <3>2. now["group"] = seen["group"] /\ now["gshadow"] \in EntryOf("gshadow") \cup {None}
      BY <1>4, <1>6, <2>1 DEF Files, tool
    <3> QED BY <1>3, <2>1, <3>1, <3>2 DEF HasRead
  <2>2. CASE tool = "chfn"
    <3>1. c # Call("check", None) /\ f = "shadow"
      BY <1>2, <1>5, <2>2, SameCall DEF Needs, ShadowOf, UserTools
    <3>2. now["passwd"] = seen["passwd"]
      BY <1>4, <3>1 DEF Files
    <3> QED BY <1>3, <2>2, <3>1, <3>2 DEF HasRead
  <2>3. CASE tool \notin {"gpasswd", "chfn"}
    BY <1>7, <2>3 DEF HasRead
  <2> QED BY <2>1, <2>2, <2>3
<1>10. Head(script).do \in {"test", "read", "check", "lock"} /\ Head(script) # Call("lock", "passwd")
  BY <1>2, SameCall DEF c
<1>11. GoodOf(d, mine, Tail(script), job, mem, now)
  BY <1>2, <1>4, <1>8, <1>9, <1>10, GoodQuiet DEF R, tool
<1> QED BY <1>11 DEF now

\* gpasswd reads a file without its lock.
LEMMA GoodRead ==
  ASSUME NEW d, NEW mine, NEW script, script # <<>>, NEW job, NEW mem, NEW seen,
         GoodOf(d, mine, script, job, mem, seen),
         NEW f \in Files, Head(script) = Call("read", f), NEW x,
         job.tool = "gpasswd" => x \in EntryOf(f) \cup {None}
  PROVE  GoodOf(d, mine, Tail(script), job, mem, [seen EXCEPT ![f] = x])
<1> DEFINE c == Head(script)
           R == Range(Tail(script))
           tool == job.tool
           now == [seen EXCEPT ![f] = x]
<1>1. c \in Before
  BY KnownCalls
<1>2. c = Call("read", f) /\ WellFormed(job) /\ c.do = "read"
  BY SameCall DEF GoodOf
<1>3. /\ HasRead({c} \cup R, tool, mem, seen) /\ Editing \in R /\ KnownFiles({c} \cup R, tool)
      /\ seen = [g \in Files |-> seen[g]]
  <2>1. Earlier(c, R, tool, mem, seen)
    BY <1>1, GoodBefore
  <2> QED BY <2>1 DEF Earlier
<1>4. /\ now = [g \in Files |-> now[g]] /\ now[f] = x /\ (\A g \in Files \ {f} : now[g] = seen[g])
  BY <1>3
<1> HIDE DEF now, R, tool, c
<1>5. tool = "gpasswd"
  BY <1>2, <1>3 DEF KnownFiles
<1>6. Needed(job, now) \subseteq Needed(job, seen)
  BY <1>5 DEF Needed, Fellow, tool
<1>7. HasRead(R, tool, mem, now)
  <2>1. c # Call("test", "gshadow") /\ c # Call("open", "gshadow") /\ c # Call("check", None)
    BY <1>2, SameCall
  <2>2. now["group"] = seen["group"] \/ (f = "group" /\ now["group"] \in EntryOf("group") \cup {None})
    BY <1>4, <1>5 DEF Files, tool
  <2>3. now["gshadow"] = seen["gshadow"] \/ now["gshadow"] \in EntryOf("gshadow") \cup {None}
    BY <1>4, <1>5 DEF Files, tool
  <2>4. f # "group" => c # Call("read", "group")
    BY <1>2, SameCall
  <2>5. /\ IF Call("test", "gshadow") \in R THEN mem["gshadow"] = Closed
           ELSE mem["gshadow"] # Closed \/ Call("open", "gshadow") \in R =>
                  now["gshadow"] \in EntryOf("gshadow") \cup {None}
    BY <1>3, <1>5, <2>1, <2>3 DEF HasRead
  <2>6. CASE f = "group"
    <3>1. Call("check", None) \in R
      BY <1>2, <1>3, <1>5, <2>1, <2>6 DEF HasRead
    <3>2. now["group"] \in EntryOf("group") \cup {None}
      BY <1>4, <1>5, <2>6 DEF Files, tool
    <3> QED BY <1>5, <2>5, <3>1, <3>2 DEF HasRead
  <2>7. CASE f # "group"
    <3>1. now["group"] = seen["group"]
      BY <1>4, <2>7 DEF Files
    <3> QED BY <1>3, <1>5, <2>1, <2>4, <2>5, <2>7, <3>1 DEF HasRead
  <2> QED BY <2>6, <2>7
<1>8. Head(script).do \in {"test", "read", "check", "lock"} /\ Head(script) # Call("lock", "passwd")
  BY <1>2, SameCall DEF c
<1>9. GoodOf(d, mine, Tail(script), job, mem, now)
  BY <1>2, <1>4, <1>6, <1>7, <1>8, GoodQuiet DEF R, tool
<1> QED BY <1>9 DEF now

\* The checks are passed: of the ageing some may be left out.
LEMMA GoodCheck ==
  ASSUME NEW d, NEW mine, NEW script, script # <<>>, NEW job, NEW mem, NEW seen,
         GoodOf(d, mine, script, job, mem, seen),
         NEW f, Head(script) = Call("check", f),
         NEW new, WellFormed(new), new.tool = job.tool, new.flags = job.flags,
         NEW x, job.tool # "chfn" => x = seen["passwd"],
         job.tool = "chfn" => x \in [GecosFields -> STRING],
         job.tool = "gpasswd" => seen["group"] # None
  PROVE  GoodOf(d, mine, Tail(script), new, mem, [seen EXCEPT !["passwd"] = x])
<1> DEFINE c == Head(script)
           R == Range(Tail(script))
           tool == job.tool
           now == [seen EXCEPT !["passwd"] = x]
<1>1. c \in Calls
  BY GoodHead
<1>2. c = Call("check", f) /\ c.do = "check"
  BY SameCall
<1>3. c \in Before
  BY <1>1, <1>2, CallFacts
<1>4. /\ HasRead({c} \cup R, tool, mem, seen) /\ Editing \in R /\ KnownFiles({c} \cup R, tool)
      /\ Follows(c, R, tool) /\ seen = [g \in Files |-> seen[g]]
  <2>1. Earlier(c, R, tool, mem, seen)
    BY <1>3, GoodBefore
  <2> QED BY <2>1 DEF Earlier
<1>5. /\ now = [g \in Files |-> now[g]] /\ now["passwd"] = x
      /\ \A g \in Files \ {"passwd"} : now[g] = seen[g]
  BY <1>4 DEF Files
<1>6. tool # "chfn" => now = seen
  BY <1>4
<1> HIDE DEF now, R, tool, c
<1>7. c = Call("check", None)
  BY <1>2, <1>4, SameCall DEF KnownFiles
<1>8. Needed(new, now) \subseteq Needed(job, seen)
  BY <1>6 DEF Needed, Fellow, VipwFile, TableOf, ShadowOf, tool
<1>9. HasRead(R, tool, mem, now)
  <2>1. CASE tool = "gpasswd"
    <3>1. /\ c # Call("test", "gshadow") /\ c # Call("open", "gshadow") /\ c # Call("read", "group")
      BY <1>2, SameCall
    <3>2. Call("read", "group") \notin {c} \cup R
      BY <1>4, <1>7, <2>1, <3>1 DEF Follows
    <3>3. seen["group"] \in EntryOf("group")
      BY <1>4, <2>1, <3>2 DEF HasRead, tool
    <3> QED BY <1>4, <1>6, <2>1, <3>1, <3>2, <3>3 DEF HasRead
  <2>2. CASE tool = "chfn"
    BY <1>5, <2>2 DEF HasRead, tool
  <2>3. CASE tool \notin {"gpasswd", "chfn"}
    <3>1. c # Call("test", ShadowOf(tool))
      BY <1>2, SameCall
    <3> QED BY <1>4, <1>6, <2>3, <3>1 DEF HasRead
  <2> QED BY <2>1, <2>2, <2>3
<1>10. Head(script).do \in {"test", "read", "check", "lock"} /\ Head(script) # Call("lock", "passwd")
  BY <1>2, SameCall DEF c
<1>11. GoodOf(d, mine, Tail(script), new, mem, now)
  BY <1>5, <1>8, <1>9, <1>10, GoodQuiet DEF R, tool
<1> QED BY <1>11 DEF now

\* A lock is taken.
LEMMA GoodLock ==
  ASSUME NEW d, NEW mine, NEW script, script # <<>>, NEW job, NEW mem, NEW seen,
         GoodOf(d, mine, script, job, mem, seen),
         NEW f \in Files, Head(script) = Call("lock", f)
  PROVE  GoodOf(d, mine \cup {f}, Tail(script), job, mem, seen)
<1> DEFINE c == Head(script)
           R == Range(Tail(script))
           tool == job.tool
           more == mine \cup {f}
<1>1. c \in Before
  BY KnownCalls
<1>2. c = Call("lock", f) /\ WellFormed(job) /\ c.do = "lock"
  BY SameCall DEF GoodOf
<1>3. /\ HasRead({c} \cup R, tool, mem, seen) /\ Editing \in R
      /\ seen = [g \in Files |-> seen[g]]
  <2>1. Earlier(c, R, tool, mem, seen)
    BY <1>1, GoodBefore
  <2> QED BY <2>1 DEF Earlier
<1>4. mine \subseteq more /\ (c = Call("lock", "passwd") => "passwd" \in more)
  BY <1>2, SameCall
<1> HIDE DEF more, R, tool, c
<1>5. HasRead(R, tool, mem, seen)
  <2>1. /\ c # Call("test", "gshadow") /\ c # Call("open", "gshadow") /\ c # Call("read", "group")
        /\ c # Call("check", None) /\ c # Call("test", ShadowOf(tool))
    BY <1>2, SameCall
  <2> QED BY <1>3, <2>1 DEF HasRead
<1>6. /\ Head(script).do \in {"test", "read", "check", "lock"}
      /\ Head(script) = Call("lock", "passwd") => "passwd" \in more
  BY <1>2, <1>4 DEF c
<1>7. GoodOf(d, more, Tail(script), job, mem, seen)
  BY <1>2, <1>3, <1>4, <1>5, <1>6, GoodQuiet DEF R, tool
<1> QED BY <1>7 DEF more

(***************************************************************************)
(* The steps.                                                              *)
(***************************************************************************)
LEMMA StepWork ==
  ASSUME WorkInv, LocksInv', NEW p \in Procs, NEW v, Becomes(p, v), DiskOK(disk'),
         GoodOf(disk', Held(p)', v.script, v.job, v.mem, v.seen),
         \A q \in Procs \ {p}, f \in Files : owner'[f] = q <=> owner[f] = q,
         \A q \in Procs \ {p} : \A f \in Held(q) : disk'[f] = disk[f],
         \A q \in Procs \ {p} : "passwd" \in Held(q) => Rows(disk', "shadow") \subseteq Rows(disk, "shadow")
  PROVE  WorkInv'
<1>1. work = [q \in Procs |-> work[q]]
  BY DEF WorkInv, LocksInv, Shape
<1>2. /\ work'[p] = IF v.script = <<>> THEN Idle ELSE v
      /\ \A q \in Procs \ {p} : work'[q] = work[q]
  BY <1>1 DEF Becomes
<1>3. ASSUME NEW q \in Procs, q # p PROVE Good(disk', Held(q)', work'[q])
  <2> DEFINE w == work[q]
             mine == Held(q)
  <2>1. Held(q)' = mine /\ work'[q] = w
    BY <1>2, <1>3 DEF Held
  <2>2. GoodOf(disk, mine, w.script, w.job, w.mem, w.seen)
    BY DEF WorkInv, Good
  <2>3. \A f \in mine : disk'[f] = disk[f]
    BY <1>3
  <2>4. "passwd" \in mine => Rows(disk', "shadow") \subseteq Rows(disk, "shadow")
    BY <1>3
  <2> HIDE DEF w, mine
  <2>5. GoodOf(disk', mine, w.script, w.job, w.mem, w.seen)
    BY <2>2, <2>3, <2>4, GoodOther
  <2> QED BY <2>1, <2>5 DEF Good
<1>4. Good(disk', Held(p)', work'[p])
  <2>1. CASE v.script = <<>>
    BY <1>2, <2>1, GoodIdle DEF Good
  <2>2. CASE v.script # <<>>
    BY <1>2, <2>2 DEF Good
  <2> QED BY <2>1, <2>2
<1>5. \A q \in Procs : Good(disk', Held(q)', work'[q])
  BY <1>3, <1>4
<1> QED BY <1>5 DEF WorkInv

\* A step that writes nothing.
LEMMA StepReads ==
  ASSUME WorkInv, LocksInv', disk' = disk, NEW p \in Procs, NEW v, Becomes(p, v),
         GoodOf(disk, Held(p)', v.script, v.job, v.mem, v.seen),
         \A q \in Procs \ {p}, f \in Files : owner'[f] = q <=> owner[f] = q
  PROVE  WorkInv'
<1>1. DiskOK(disk') /\ GoodOf(disk', Held(p)', v.script, v.job, v.mem, v.seen)
  BY DEF WorkInv
<1>2. \A q \in Procs \ {p} : \A f \in Held(q) : disk'[f] = disk[f]
  OBVIOUS
<1>3. Rows(disk', "shadow") = Rows(disk, "shadow")
  OBVIOUS
<1> QED BY <1>1, <1>2, <1>3, StepWork

\* A tool that ends.
LEMMA StepEnds ==
  ASSUME WorkInv, LocksInv', disk' = disk, NEW p \in Procs, Becomes(p, Idle),
         \A q \in Procs \ {p}, f \in Files : owner'[f] = q <=> owner[f] = q
  PROVE  WorkInv'
<1>1. GoodOf(disk, Held(p)', Idle.script, Idle.job, Idle.mem, Idle.seen)
  BY GoodIdle
<1> QED BY <1>1, StepReads

\* The next call, which writes nothing and neither locks nor unlocks.
LEMMA ProceedReads ==
  ASSUME WorkInv, LocksInv', disk' = disk, owner' = owner, NEW p \in Procs,
         NEW v, IsWork(v), Proceed(p, v), v.script = work[p].script,
         GoodOf(disk, Held(p), Tail(work[p].script), v.job, v.mem, v.seen)
  PROVE  WorkInv'
<1> DEFINE u == [v EXCEPT !.script = Tail(@)]
<1>1. Becomes(p, u)
  BY DEF Proceed
<1>2. /\ u.script = Tail(work[p].script) /\ u.job = v.job /\ u.mem = v.mem /\ u.seen = v.seen
  BY DEF IsWork
<1> HIDE DEF u
<1>3. Held(p)' = Held(p)
  BY DEF Held
<1>4. GoodOf(disk, Held(p)', u.script, u.job, u.mem, u.seen)
  BY <1>2, <1>3
<1> QED BY <1>1, <1>4, StepReads

\* The call that a process makes.
LEMMA DoingNow ==
  ASSUME WorkInv, NEW p \in Procs, NEW do, Doing(p, do)
  PROVE  LET w == work[p]
         IN  /\ w.script # <<>> /\ Head(w.script) = Call(do, Now(p)) /\ WellFormed(w.job)
             /\ IF do \in {"check", "edit"} THEN Now(p) = None ELSE Now(p) \in Files
             /\ GoodOf(disk, Held(p), w.script, w.job, w.mem, w.seen) /\ IsWork(w)
<1> DEFINE w == work[p]
           n == Now(p)
<1>1. w.script # <<>> /\ Head(w.script) = Call(do, n) /\ IsWork(w)
  BY CallNow, ProcWork DEF WorkInv
<1>2. GoodOf(disk, Held(p), w.script, w.job, w.mem, w.seen)
  BY DEF WorkInv, Good
<1>3. WellFormed(w.job) /\ PlanOf({Call(do, n)} \cup Range(Tail(w.script)), w.job, w.mem, w.seen, Held(p))
  <2> HIDE DEF w, n
  <2> QED BY <1>1, <1>2, GoodHead
<1>4. IF do \in {"check", "edit"} THEN n = None ELSE n \in Files
  <2> HIDE DEF w, n
  <2> QED BY <1>3, SameCall DEF PlanOf, KnownFiles
<1> QED BY <1>1, <1>2, <1>3, <1>4

LEMMA DiskHolds == ASSUME NEW d, DiskOK(d), NEW f \in Files, d[f] # Absent PROVE Holds(f, d[f])
BY DEF DiskOK, Files

\* What gpasswd finds.
LEMMA LookEntry ==
  ASSUME DiskOK(disk), NEW f \in Files, disk[f] # Absent, NEW job, job.tool = "gpasswd"
  PROVE  Look(job, f) \in EntryOf(f) \cup {None}
<1>1. \A n \in DOMAIN disk[f] : disk[f][n] \in EntryOf(f)
  BY DiskHolds, OfTable DEF Holds
<1> QED BY <1>1 DEF Look

LEMMA TestWork ==
  ASSUME WorkInv, LocksInv', NEW p \in Procs, TestFile(p) PROVE WorkInv'
<1> DEFINE w == work[p]
           n == Now(p)
<1>1. Doing(p, "test") /\ owner' = owner /\ disk' = disk
  BY DEF TestFile
<1>2. /\ w.script # <<>> /\ Head(w.script) = Call("test", n) /\ n \in Files /\ IsWork(w)
      /\ GoodOf(disk, Held(p), w.script, w.job, w.mem, w.seen)
  BY <1>1, DoingNow
<1>3. Held(p)' = Held(p)
  BY <1>1 DEF Held
<1>4. CASE Becomes(p, Idle)
  BY <1>1, <1>4, StepEnds
<1>5. CASE ~ Becomes(p, Idle)
  <2> DEFINE there == disk[n] # Absent
             x == IF w.job.tool = "passwd" THEN w.seen[n] ELSE Look(w.job, n)
             script == IF there THEN Tail(w.script) ELSE Without(Tail(w.script), n)
             v == [w EXCEPT !.seen[n] = x, !.script = script]
             now == [w.seen EXCEPT ![n] = x]
  <2>1. Becomes(p, v) /\ (there \/ w.job.tool \notin Needs)
    BY <1>5 DEF TestFile
  <2>2. v.job = w.job /\ v.mem = w.mem /\ v.seen = now /\ v.script = script
    BY <1>2 DEF IsWork
  <2> HIDE DEF v
  <2>3. GoodOf(disk, Held(p), script, w.job, w.mem, now)
    <3>1. CASE there
      <4>1. w.job.tool = "gpasswd" => x \in EntryOf(n) \cup {None}
        BY <1>2, <3>1, LookEntry DEF WorkInv
      <4>2. w.job.tool \in {"pwck", "grpck"} => x # FALSE
        BY <3>1 DEF Look
      <4> HIDE DEF w, n, x
      <4> QED BY <1>2, <3>1, <4>1, <4>2, GoodTest
    <3>2. CASE ~there
      <4>1. w.job.tool \in {"pwck", "grpck"} => x = FALSE
        BY <3>2 DEF Look
      <4>2. w.seen = [f \in Files |-> w.seen[f]]
        BY <1>2 DEF GoodOf
      <4>3. disk[n] = Absent /\ w.job.tool \notin Needs
        BY <2>1, <3>2
      <4> HIDE DEF w, n, x
      <4>4. now = [f \in Files |-> now[f]] /\ now[n] = x /\ \A f \in Files \ {n} : now[f] = w.seen[f]
        BY <1>2, <4>2
      <4> HIDE DEF now
      <4> QED BY <1>2, <3>2, <4>1, <4>3, <4>4, GoodDrop
    <3> QED BY <3>1, <3>2
  <2> HIDE DEF script, now
  <2> QED BY <1>1, <1>3, <2>1, <2>2, <2>3, StepReads
<1> QED BY <1>4, <1>5

LEMMA ReadWork ==
  ASSUME WorkInv, LocksInv', NEW p \in Procs, ReadFile(p) PROVE WorkInv'
<1> DEFINE w == work[p]
           n == Now(p)
           x == Look(w.job, n)
           v == [w EXCEPT !.seen[n] = x]
           now == [w.seen EXCEPT ![n] = x]
<1>1. Doing(p, "read") /\ owner' = owner /\ disk' = disk
  BY DEF ReadFile
<1>2. /\ w.script # <<>> /\ Head(w.script) = Call("read", n) /\ n \in Files /\ IsWork(w)
      /\ GoodOf(disk, Held(p), w.script, w.job, w.mem, w.seen)
  BY <1>1, DoingNow
<1>3. CASE Becomes(p, Idle)
  BY <1>1, <1>3, StepEnds
<1>4. CASE disk[n] # Absent /\ Proceed(p, v)
  <2>1. IsWork(v) /\ v.job = w.job /\ v.mem = w.mem /\ v.seen = now /\ v.script = w.script
    BY <1>2 DEF IsWork
  <2>2. w.job.tool = "gpasswd" => x \in EntryOf(n) \cup {None}
    BY <1>2, <1>4, LookEntry DEF WorkInv
  <2> HIDE DEF v, x
  <2>3. GoodOf(disk, Held(p), Tail(w.script), w.job, w.mem, now)
    <3> HIDE DEF w, n
    <3> QED BY <1>2, <2>2, GoodRead
  <2> HIDE DEF now
  <2> QED BY <1>1, <1>4, <2>1, <2>3, ProceedReads
<1> QED BY <1>3, <1>4 DEF ReadFile

\* What the checks let pass.
LEMMA AllowedFacts ==
  ASSUME DiskOK(disk), NEW job, WellFormed(job), NEW seen, Allowed(job, seen)
  PROVE  /\ job.tool = "chfn" => Look(job, "passwd") \in [GecosFields -> STRING]
         /\ job.tool = "gpasswd" => seen["group"] # None
<1>1. ASSUME job.tool = "chfn" PROVE Look(job, "passwd") \in [GecosFields -> STRING]
  <2>1. job.name \in DOMAIN disk["passwd"]
    BY <1>1 DEF Allowed, ChfnAllowed, OwnOrRoot
  <2>2. disk["passwd"][job.name] \in EntryOf("passwd")
    BY <2>1, OfTable DEF DiskOK, Holds
  <2>3. disk["passwd"][job.name].gecos \in [GecosFields -> STRING]
    BY <2>2, PasswdEntries
  <2> QED BY <1>1, <2>3 DEF Look, Account
<1>2. job.tool = "gpasswd" => seen["group"] # None
  BY DEF Allowed, GpasswdAllowed
<1> QED BY <1>1, <1>2

\* usermod leaves out the ageing that would stay as it is.
LEMMA ChangingJob ==
  ASSUME NEW job, WellFormed(job), NEW new, NEW age,
         age = job.age \/ age = [f \in Changing(job) |-> job.age[f]],
         new = [job EXCEPT !.age = age]
  PROVE  WellFormed(new) /\ new.tool = job.tool /\ new.flags = job.flags
<1>1. IsTable(job.age, AgeFields, Int)
  BY DEF WellFormed
<1>2. IsTable(age, AgeFields, Int)
  <2>1. CASE age = job.age
    BY <1>1, <2>1
  <2>2. CASE age = [f \in Changing(job) |-> job.age[f]]
    <3>1. DOMAIN job.age \subseteq AgeFields /\ \A f \in DOMAIN job.age : job.age[f] \in Int
      BY <1>1, OfTable
    <3>2. Changing(job) \subseteq DOMAIN job.age
      BY DEF Changing
    <3> DEFINE N == Changing(job)
    <3>3. N \subseteq AgeFields /\ age = [f \in N |-> age[f]] /\ \A f \in N : age[f] \in Int
      BY <2>2, <3>1, <3>2
    <3> HIDE DEF N
    <3> QED BY <3>3, NewTable
  <2> QED BY <2>1, <2>2
<1>3. /\ DOMAIN new = DOMAIN job /\ new.age = age /\ new.tool = job.tool /\ new.name = job.name
      /\ new.flags = job.flags /\ new.pw = job.pw /\ new.gecos = job.gecos
      /\ new.shell = job.shell /\ new.users = job.users /\ new.admins = job.admins
  BY DEF WellFormed
<1> QED BY <1>2, <1>3 DEF WellFormed

LEMMA CheckWork ==
  ASSUME WorkInv, LocksInv', NEW p \in Procs, CheckJob(p) PROVE WorkInv'
<1> DEFINE w == work[p]
           n == Now(p)
<1>1. Doing(p, "check") /\ owner' = owner /\ disk' = disk
  BY DEF CheckJob
<1>2. /\ w.script # <<>> /\ Head(w.script) = Call("check", n) /\ IsWork(w) /\ WellFormed(w.job)
      /\ GoodOf(disk, Held(p), w.script, w.job, w.mem, w.seen)
  BY <1>1, DoingNow
<1>3. CASE Becomes(p, Idle)
  BY <1>1, <1>3, StepEnds
<1>4. CASE ~ Becomes(p, Idle)
  <2>1. PICK x, age :
             /\ x = (IF w.job.tool = "chfn" THEN Look(w.job, "passwd") ELSE w.seen["passwd"])
             /\ age = (IF w.job.tool = "usermod" THEN [f \in Changing(w.job) |-> w.job.age[f]]
                       ELSE w.job.age)
    OBVIOUS
  <2> DEFINE v == [w EXCEPT !.seen["passwd"] = x, !.job.age = age]
             now == [w.seen EXCEPT !["passwd"] = x]
             new == [w.job EXCEPT !.age = age]
  <2>2. Allowed(w.job, w.seen) /\ Proceed(p, v)
    BY <1>4, <2>1 DEF CheckJob
  <2>3. IsWork(v) /\ v.job = new /\ v.mem = w.mem /\ v.seen = now /\ v.script = w.script
    BY <1>2 DEF IsWork
  <2> HIDE DEF v
  <2>4. WellFormed(new) /\ new.tool = w.job.tool /\ new.flags = w.job.flags
    BY <1>2, <2>1, ChangingJob
  <2>5. /\ w.job.tool # "chfn" => x = w.seen["passwd"]
        /\ w.job.tool = "chfn" => x \in [GecosFields -> STRING]
        /\ w.job.tool = "gpasswd" => w.seen["group"] # None
    BY <1>2, <2>1, <2>2, AllowedFacts DEF WorkInv
  <2> HIDE DEF new
  <2>6. GoodOf(disk, Held(p), Tail(w.script), new, w.mem, now)
    <3> HIDE DEF w, n
    <3> QED BY <1>2, <2>4, <2>5, GoodCheck
  <2> HIDE DEF now
  <2> QED BY <1>1, <2>2, <2>3, <2>6, ProceedReads
<1> QED BY <1>3, <1>4

LEMMA LockWork ==
  ASSUME WorkInv, LocksInv', NEW p \in Procs, LockFile(p) PROVE WorkInv'
<1> DEFINE w == work[p]
           n == Now(p)
           u == [w EXCEPT !.script = Tail(@)]
<1>1. /\ Doing(p, "lock") /\ owner' = [owner EXCEPT ![n] = p] /\ disk' = disk /\ owner[n] = None
      /\ Becomes(p, u)
  BY DEF LockFile, Proceed
<1>2. /\ w.script # <<>> /\ Head(w.script) = Call("lock", n) /\ n \in Files /\ IsWork(w)
      /\ GoodOf(disk, Held(p), w.script, w.job, w.mem, w.seen)
  BY <1>1, DoingNow
<1>3. u.script = Tail(w.script) /\ u.job = w.job /\ u.mem = w.mem /\ u.seen = w.seen
  BY <1>2 DEF IsWork
<1>4. owner \in [Files -> Procs \cup {None}]
  BY DEF WorkInv, LocksInv, Shape
<1>5. Held(p)' = Held(p) \cup {n}
  BY <1>1, <1>2, <1>4 DEF Held
<1>6. \A q \in Procs \ {p}, f \in Files : owner'[f] = q <=> owner[f] = q
  BY <1>1, <1>4, PasswordToolsAssumption DEF PasswordToolsAssumption
<1> HIDE DEF u
<1>7. GoodOf(disk, Held(p) \cup {n}, Tail(w.script), w.job, w.mem, w.seen)
  <2> HIDE DEF w, n
  <2> QED BY <1>2, GoodLock
<1> QED BY <1>1, <1>3, <1>5, <1>6, <1>7, StepReads

LEMMA OpenWork ==
  ASSUME WorkInv, LocksInv', NEW p \in Procs, OpenFile(p) PROVE WorkInv'
<1> DEFINE w == work[p]
           n == Now(p)
           t == Content(disk, n)
           v == [w EXCEPT !.mem[n] = t]
           mem == With(w.mem, n, t)
<1>1. Doing(p, "open") /\ owner' = owner /\ disk' = disk /\ owner[n] = p /\ Proceed(p, v)
  BY DEF OpenFile, Content
<1>2. /\ w.script # <<>> /\ Head(w.script) = Call("open", n) /\ n \in Files /\ IsWork(w)
      /\ GoodOf(disk, Held(p), w.script, w.job, w.mem, w.seen)
  BY <1>1, DoingNow
<1>3. IsWork(v) /\ v.job = w.job /\ v.mem = mem /\ v.seen = w.seen /\ v.script = w.script
  BY <1>2 DEF IsWork, With
<1>4. n \in Held(p) /\ DiskOK(disk)
  BY <1>1, <1>2 DEF Held, WorkInv
<1> HIDE DEF v
<1>5. GoodOf(disk, Held(p), Tail(w.script), w.job, mem, w.seen)
  <2> HIDE DEF w, n
  <2> QED BY <1>2, <1>4, GoodOpen
<1> HIDE DEF mem, t
<1> QED BY <1>1, <1>3, <1>5, ProceedReads

\* fail_exit.
LEMMA FailWork ==
  ASSUME WorkInv, LocksInv', NEW p \in Procs, work[p].script # <<>>, FailExit(p),
         owner' = owner, disk' = disk
  PROVE  WorkInv'
<1> DEFINE w == work[p]
<1>1. PICK s : s = UnlockHeld(UnlockOrder(w.job), owner, p)
  OBVIOUS
<1> DEFINE u == [w EXCEPT !.script = s]
<1>2. Becomes(p, u)
  BY <1>1 DEF FailExit
<1>3. IsWork(w) /\ GoodOf(disk, Held(p), w.script, w.job, w.mem, w.seen)
  BY ProcWork DEF WorkInv, Good
<1>4. u.script = s /\ u.job = w.job /\ u.mem = w.mem /\ u.seen = w.seen
  BY <1>3 DEF IsWork
<1> DEFINE S == {Call("unlock", f) : f \in Files}
<1>5. s \in Seq(S) /\ \A c \in Range(s) : c.do = "unlock"
  <2>1. UnlockOrder(w.job) \in Seq(Files)
    BY <1>3, UnlockOrders DEF GoodOf, WellFormed
  <2>2. \A f \in Files : Call("unlock", f) \in S
    OBVIOUS
  <2> DEFINE order == UnlockOrder(w.job)
  <2> HIDE DEF S, order
  <2>3. order \in Seq(Files) /\ s = UnlockHeld(order, owner, p)
    BY <1>1, <2>1 DEF order
  <2>4. "unlock" \notin {}
    OBVIOUS
  <2> QED BY <2>2, <2>3, <2>4, UnlockHeldCalls
<1>6. \A c \in S : c \in Calls /\ c.file \in Files
  BY KnownCalls, SameCall
<1> HIDE DEF S
<1>7. s \in Seq(Calls) /\ \A c \in Range(s) : c.do = "unlock" /\ c.file \in Files
  <2>1. Range(s) \subseteq S /\ s \in Seq(Calls)
    BY <1>5, <1>6, LenProperties DEF Range
  <2> QED BY <1>5, <1>6, <2>1
<1>8. GoodOf(disk, Held(p), s, w.job, w.mem, w.seen)
  <2> HIDE DEF w
  <2>1. w.script # <<>>
    BY DEF w
  <2> QED BY <1>3, <1>7, <2>1, GoodUnlocks
<1>9. Held(p)' = Held(p)
  BY DEF Held
<1> HIDE DEF u
<1> QED BY <1>2, <1>4, <1>8, <1>9, StepReads

LEMMA EditWork ==
  ASSUME WorkInv, LocksInv', NEW p \in Procs, EditFiles(p) PROVE WorkInv'
<1> DEFINE w == work[p]
           n == Now(p)
<1>1. Doing(p, "edit") /\ owner' = owner /\ disk' = disk
  BY DEF EditFiles
<1>2. /\ w.script # <<>> /\ Head(w.script) = Call("edit", n) /\ n = None /\ IsWork(w)
      /\ GoodOf(disk, Held(p), w.script, w.job, w.mem, w.seen)
  BY <1>1, DoingNow
<1>3. CASE FailExit(p)
  BY <1>1, <1>2, <1>3, FailWork
<1>4. CASE ~ FailExit(p)
  <2>1. PICK mem \in EditsOf(w.job, w.mem, w.seen) : Proceed(p, [w EXCEPT !.mem = mem])
    BY <1>4 DEF EditFiles
  <2> DEFINE v == [w EXCEPT !.mem = mem]
  <2>2. IsWork(v) /\ v.job = w.job /\ v.mem = mem /\ v.seen = w.seen /\ v.script = w.script
    BY <1>2 DEF IsWork
  <2>3. Proceed(p, v)
    BY <2>1
  <2> HIDE DEF v
  <2>4. Head(w.script) = Editing /\ DiskOK(disk)
    BY <1>2 DEF Editing, WorkInv
  <2>5. GoodOf(disk, Held(p), Tail(w.script), w.job, mem, w.seen)
    <3> HIDE DEF w, n
    <3> QED BY <1>2, <2>1, <2>4, GoodEdit
  <2> QED BY <1>1, <2>2, <2>3, <2>5, ProceedReads
<1> QED BY <1>3, <1>4

\* A step that writes a file.
LEMMA StepWrites ==
  ASSUME WorkInv, LocksInv', owner' = owner, NEW p \in Procs, NEW v, Becomes(p, v),
         NEW f \in Held(p), \A g \in Files \ {f} : disk'[g] = disk[g], DiskOK(disk'),
         GoodOf(disk', Held(p), v.script, v.job, v.mem, v.seen),
         f = "shadow" /\ "passwd" \notin Held(p) => Rows(disk', "shadow") \subseteq Rows(disk, "shadow")
  PROVE  WorkInv'
<1>1. Held(p)' = Held(p)
  BY DEF Held
<1>2. \A q \in Procs \ {p} : f \notin Held(q) /\ ("passwd" \in Held(q) => "passwd" \notin Held(p))
  BY DEF Held
<1>3. \A q \in Procs \ {p} : \A g \in Held(q) : disk'[g] = disk[g]
  BY <1>2 DEF Held
<1>4. f # "shadow" => Rows(disk', "shadow") = Rows(disk, "shadow")
  <2>1. "shadow" \in Files
    BY DEF Files
  <2> QED BY <2>1 DEF Rows
<1>5. \A q \in Procs \ {p} : "passwd" \in Held(q) => Rows(disk', "shadow") \subseteq Rows(disk, "shadow")
  BY <1>2, <1>4
<1>6. GoodOf(disk', Held(p)', v.script, v.job, v.mem, v.seen)
  BY <1>1
<1> QED BY <1>3, <1>5, <1>6, StepWork

\* What a process does with a file: disk becomes e.
LEMMA CloseFacts ==
  ASSUME WorkInv, NEW p \in Procs, CloseFile(p)
  PROVE  LET w == work[p]
             n == Now(p)
         IN  /\ w.script # <<>> /\ Head(w.script) = Call("close", n) /\ n \in Files /\ IsWork(w)
             /\ GoodOf(disk, Held(p), w.script, w.job, w.mem, w.seen)
             /\ disk' = [f \in Files |-> disk'[f]] /\ (\A f \in Files \ {n} : disk'[f] = disk[f])
             /\ \/ disk'[n] = w.mem[n]
                \/ disk[n] = Absent /\ w.mem[n] = <<>> /\ disk'[n] = disk[n]
             /\ owner' = owner /\ DiskOK(disk)
             /\ work'[p] = IF Tail(w.script) = <<>> THEN Idle
                           ELSE [w EXCEPT !.mem[n] = Closed, !.written = @ \cup {n}, !.script = Tail(@)]
<1> DEFINE w == work[p]
           n == Now(p)
<1>1. Doing(p, "close") /\ owner' = owner
  BY DEF CloseFile
<1>2. /\ w.script # <<>> /\ Head(w.script) = Call("close", n) /\ n \in Files /\ IsWork(w)
      /\ GoodOf(disk, Held(p), w.script, w.job, w.mem, w.seen)
  BY <1>1, DoingNow
<1>3. DiskOK(disk) /\ disk = [f \in Files |-> disk[f]]
  BY DEF WorkInv, DiskOK
<1>4. disk' = [disk EXCEPT ![n] = IF @ = Absent /\ w.mem[n] = <<>> THEN @ ELSE w.mem[n]]
  BY DEF CloseFile
<1>5. /\ disk' = [f \in Files |-> disk'[f]] /\ (\A f \in Files \ {n} : disk'[f] = disk[f])
      /\ \/ disk'[n] = w.mem[n]
         \/ disk[n] = Absent /\ w.mem[n] = <<>> /\ disk'[n] = disk[n]
  BY <1>2, <1>3, <1>4
<1>6. work'[p] = IF Tail(w.script) = <<>> THEN Idle
                 ELSE [w EXCEPT !.mem[n] = Closed, !.written = @ \cup {n}, !.script = Tail(@)]
  <2>1. work = [q \in Procs |-> work[q]]
    BY DEF WorkInv, LocksInv, Shape
  <2> DEFINE u == [w EXCEPT !.mem[n] = Closed, !.written = @ \cup {n}, !.script = Tail(@)]
  <2>2. Becomes(p, u)
    BY <1>2 DEF CloseFile, Proceed, IsWork
  <2>3. u.script = Tail(w.script)
    BY <1>2 DEF IsWork
  <2> HIDE DEF u
  <2>4. work'[p] = IF u.script = <<>> THEN Idle ELSE u
    BY <2>1, <2>2 DEF Becomes
  <2> QED BY <2>3, <2>4 DEF u
<1> QED BY <1>1, <1>2, <1>3, <1>5, <1>6

LEMMA CloseWork ==
  ASSUME WorkInv, LocksInv', NEW p \in Procs, CloseFile(p) PROVE WorkInv'
<1> DEFINE w == work[p]
           n == Now(p)
           mem == With(w.mem, n, Closed)
           v == [w EXCEPT !.mem[n] = Closed, !.written = @ \cup {n}]
           u == [v EXCEPT !.script = Tail(@)]
<1>1. /\ w.script # <<>> /\ Head(w.script) = Call("close", n) /\ n \in Files /\ IsWork(w)
      /\ GoodOf(disk, Held(p), w.script, w.job, w.mem, w.seen)
      /\ disk' = [f \in Files |-> disk'[f]] /\ (\A f \in Files \ {n} : disk'[f] = disk[f])
      /\ \/ disk'[n] = w.mem[n]
         \/ disk[n] = Absent /\ w.mem[n] = <<>> /\ disk'[n] = disk[n]
      /\ owner' = owner /\ DiskOK(disk)
  BY CloseFacts
<1>2. Becomes(p, u)
  BY DEF CloseFile, Proceed
<1>3. IsWork(v) /\ v.job = w.job /\ v.mem = mem /\ v.seen = w.seen /\ v.script = w.script
  BY <1>1 DEF IsWork, With
<1> HIDE DEF v
<1>4. u.script = Tail(w.script) /\ u.job = w.job /\ u.mem = mem /\ u.seen = w.seen
  BY <1>3 DEF IsWork
<1> HIDE DEF u
<1>5. GoodOf(disk', Held(p), Tail(w.script), w.job, mem, w.seen) /\ DiskOK(disk')
  <2>1. PICK e : e = disk'
    OBVIOUS
  <2>2. /\ e = [f \in Files |-> e[f]] /\ (\A f \in Files \ {n} : e[f] = disk[f])
        /\ e[n] = w.mem[n] \/ (disk[n] = Absent /\ w.mem[n] = <<>> /\ e[n] = disk[n])
    BY <1>1, <2>1
  <2> HIDE DEF w, n
  <2>3. /\ w.script # <<>> /\ Head(w.script) = Call("close", n) /\ n \in Files
        /\ GoodOf(disk, Held(p), w.script, w.job, w.mem, w.seen) /\ DiskOK(disk)
    BY <1>1
  <2>4. GoodOf(e, Held(p), Tail(w.script), w.job, mem, w.seen) /\ DiskOK(e)
    BY <2>2, <2>3, GoodClose
  <2> QED BY <2>1, <2>4
<1>6. n \in Held(p)
  <2>1. Head(w.script) \in Writes(n)
    BY <1>1 DEF Writes
  <2> HIDE DEF w, n
  <2> QED BY <1>1, <2>1, GoodWrites
<1>7. n = "shadow" /\ "passwd" \notin Held(p) => Rows(disk', "shadow") \subseteq Rows(disk, "shadow")
  <2> SUFFICES ASSUME n = "shadow", "passwd" \notin Held(p)
               PROVE  Rows(disk', "shadow") \subseteq Rows(disk, "shadow")
    OBVIOUS
  <2>1. \A f \in Files \ {"shadow"} : disk'[f] = disk[f]
    BY <1>1
  <2>2. Head(w.script) = Call("close", "shadow") /\ disk'["shadow"] \in {w.mem["shadow"], disk["shadow"]}
    BY <1>1
  <2> HIDE DEF w, n
  <2> QED BY <1>1, <2>1, <2>2, ShadowKept
<1> HIDE DEF mem
<1> QED BY <1>1, <1>2, <1>4, <1>5, <1>6, <1>7, StepWrites

LEMMA UnlinkWork ==
  ASSUME WorkInv, LocksInv', NEW p \in Procs, UnlinkFile(p) PROVE WorkInv'
<1> DEFINE w == work[p]
           n == Now(p)
           mem == With(w.mem, n, Closed)
           v == [w EXCEPT !.mem[n] = Closed]
           u == [v EXCEPT !.script = Tail(@)]
<1>1. /\ Doing(p, "unlink") /\ owner' = owner /\ disk' = [disk EXCEPT ![n] = Absent]
      /\ Becomes(p, u)
  BY DEF UnlinkFile, Proceed
<1>2. /\ w.script # <<>> /\ Head(w.script) = Call("unlink", n) /\ n \in Files /\ IsWork(w)
      /\ GoodOf(disk, Held(p), w.script, w.job, w.mem, w.seen) /\ DiskOK(disk)
  BY <1>1, DoingNow DEF WorkInv
<1>3. IsWork(v) /\ v.job = w.job /\ v.mem = mem /\ v.seen = w.seen /\ v.script = w.script
  BY <1>2 DEF IsWork, With
<1> HIDE DEF v
<1>4. u.script = Tail(w.script) /\ u.job = w.job /\ u.mem = mem /\ u.seen = w.seen
  BY <1>3 DEF IsWork
<1> HIDE DEF u
<1>5. GoodOf(disk', Held(p), Tail(w.script), w.job, mem, w.seen) /\ DiskOK(disk')
  <2> HIDE DEF w, n
  <2> QED BY <1>1, <1>2, GoodUnlink
<1>6. n \in Held(p)
  <2>1. Head(w.script) \in Writes(n)
    BY <1>2 DEF Writes
  <2> HIDE DEF w, n
  <2> QED BY <1>2, <2>1, GoodWrites
<1>7. disk'[n] = Absent /\ \A f \in Files \ {n} : disk'[f] = disk[f]
  BY <1>1, <1>2 DEF DiskOK
<1>8. n = "shadow" => Rows(disk', "shadow") \subseteq Rows(disk, "shadow")
  BY <1>7 DEF Rows
<1> HIDE DEF mem
<1> QED BY <1>1, <1>4, <1>5, <1>6, <1>7, <1>8, StepWrites

LEMMA UnlockWork ==
  ASSUME WorkInv, LocksInv', NEW p \in Procs, UnlockFile(p) PROVE WorkInv'
<1> DEFINE w == work[p]
           n == Now(p)
           mem == With(w.mem, n, Closed)
           v == [w EXCEPT !.mem[n] = Closed]
           u == [v EXCEPT !.script = Tail(@)]
<1>1. /\ Doing(p, "unlock") /\ disk' = disk /\ Becomes(p, u)
      /\ owner' = [owner EXCEPT ![n] = IF @ = p THEN None ELSE @]
  BY DEF UnlockFile, Proceed
<1>2. /\ w.script # <<>> /\ Head(w.script) = Call("unlock", n) /\ n \in Files /\ IsWork(w)
      /\ GoodOf(disk, Held(p), w.script, w.job, w.mem, w.seen)
  BY <1>1, DoingNow
<1>3. IsWork(v) /\ v.job = w.job /\ v.mem = mem /\ v.seen = w.seen /\ v.script = w.script
  BY <1>2 DEF IsWork, With
<1> HIDE DEF v
<1>4. u.script = Tail(w.script) /\ u.job = w.job /\ u.mem = mem /\ u.seen = w.seen
  BY <1>3 DEF IsWork
<1> HIDE DEF u
<1>5. owner \in [Files -> Procs \cup {None}]
  BY DEF WorkInv, LocksInv, Shape
<1>6. Held(p)' = Held(p) \ {n}
  BY <1>1, <1>2, <1>5, NobodyIsNone DEF Held
<1>7. \A q \in Procs \ {p}, f \in Files : owner'[f] = q <=> owner[f] = q
  BY <1>1, <1>5, UnlockOwner
<1>8. GoodOf(disk, Held(p) \ {n}, Tail(w.script), w.job, mem, w.seen)
  <2> HIDE DEF w, n
  <2> QED BY <1>2, GoodUnlock
<1> HIDE DEF mem
<1> QED BY <1>1, <1>4, <1>6, <1>7, <1>8, StepReads

LEMMA StartWork ==
  ASSUME WorkInv, LocksInv', NEW p \in Procs, Start(p) PROVE WorkInv'
<1>1. PICK job \in Jobs : Becomes(p, [Idle EXCEPT !.job = job, !.script = Script(job)])
  BY DEF Start
<1>2. PICK script : script = Script(job)
  OBVIOUS
<1> DEFINE v == [Idle EXCEPT !.job = job, !.script = script]
<1>3. v.job = job /\ v.script = script /\ v.mem = Idle.mem /\ v.seen = Idle.seen
  BY DEF Idle
<1>4. Becomes(p, v)
  BY <1>1, <1>2
<1> HIDE DEF v
<1>5. owner' = owner /\ disk' = disk /\ work[p] = Idle
  BY DEF Start
<1>6. Held(p) = {} /\ Held(p)' = Held(p)
  BY <1>5, EndedGivesBack DEF WorkInv, LocksInv, Idle, Held
<1>7. WellFormed(job)
  BY PasswordToolsAssumption DEF PasswordToolsAssumption
<1>8. GoodOf(disk, {}, script, job, Idle.mem, Idle.seen)
  BY <1>2, <1>7, GoodStart
<1> QED BY <1>3, <1>4, <1>5, <1>6, <1>8, StepReads

LEMMA KilledWork ==
  ASSUME WorkInv, LocksInv', NEW p \in Procs, Killed(p) PROVE WorkInv'
<1>1. /\ work' = [work EXCEPT ![p] = Idle] /\ disk' = disk
      /\ owner' = [f \in Files |-> IF owner[f] = p THEN None ELSE owner[f]]
  BY DEF Killed
<1>2. \A q \in Procs \ {p}, f \in Files : owner'[f] = q <=> owner[f] = q
  BY <1>1, NobodyIsNone DEF WorkInv, LocksInv, Shape
<1>3. Becomes(p, Idle)
  BY <1>1 DEF Becomes, Idle
<1> QED BY <1>1, <1>2, <1>3, StepEnds

LEMMA WorkStep ==
  ASSUME WorkInv, [Next]_vars PROVE WorkInv'
<1>1. LocksInv'
  BY LocksStep DEF WorkInv
<1>2. CASE UNCHANGED vars
  BY <1>1, <1>2 DEF vars, WorkInv, Good, Held
<1>3. CASE Next
  <2>1. PICK p \in Procs : Start(p) \/ Step(p) \/ Killed(p)
    BY <1>3 DEF Next
  <2>2. CASE CallFails(p)
    <3>1. owner' = owner /\ disk' = disk /\ FailExit(p) /\ work[p].script # <<>>
      BY <2>2 DEF CallFails, Doing
    <3> QED BY <1>1, <3>1, FailWork
  <2> QED
    BY <1>1, <2>1, <2>2, StartWork, KilledWork, TestWork, ReadWork, CheckWork, LockWork, OpenWork,
       EditWork, CloseWork, UnlinkWork, UnlockWork
    DEF Step
<1> QED BY <1>2, <1>3

LEMMA WorkInit == ASSUME Init PROVE WorkInv
<1>1. LocksInv
  BY LocksInit
<1>2. DiskOK(disk)
  BY PasswordToolsAssumption DEF PasswordToolsAssumption, Init, DiskOK
<1>3. \A p \in Procs : Good(disk, Held(p), work[p])
  BY GoodIdle DEF Init, Good
<1> QED BY <1>1, <1>2, <1>3 DEF WorkInv

(***************************************************************************)
(* What the checkers leave behind, and whose password stays.               *)
(***************************************************************************)
\* What is locked is still to be given back.
LEMMA CloseNotLast ==
  ASSUME WorkInv, NEW p \in Procs, CloseFile(p) PROVE Tail(work[p].script) # <<>>
<1> DEFINE w == work[p]
           n == Now(p)
<1>1. /\ w.script # <<>> /\ Head(w.script) = Call("close", n) /\ n \in Files
      /\ GoodOf(disk, Held(p), w.script, w.job, w.mem, w.seen)
  BY CloseFacts
<1>2. n \in Held(p)
  <2>1. Head(w.script) \in Writes(n)
    BY <1>1 DEF Writes
  <2> HIDE DEF w, n
  <2> QED BY <1>1, <2>1, GoodWrites
<1>3. /\ w.script \in Seq(Calls)
      /\ \A f \in Held(p) : Covers(w.script, 1, f, Quits(w.job))
  BY DEF WorkInv, LocksInv, GivesBack
<1>4. \A f : Head(w.script) # Call("unlock", f)
  BY <1>1, SameCall
<1> HIDE DEF n
<1>5. Covers(Tail(w.script), 1, n, Quits(w.job)) /\ Tail(w.script) \in Seq(Calls)
  BY <1>1, <1>2, <1>3, <1>4, CoversTail, HeadAndTail
<1> QED BY <1>5, CoversTail

\* The last file is written.
LEMMA LastClose ==
  ASSUME WorkInv, NEW p \in Procs, CloseFile(p), ~ToWrite(Tail(work[p].script)),
         work[p].job.tool \in Checkers, Fellow(work[p].job.tool, work[p].seen)
  PROVE  LET tool == work[p].job.tool
         IN  Fits(tool, Content(disk', TableOf(tool)), Content(disk', ShadowOf(tool)))
<1> DEFINE w == work[p]
           n == Now(p)
           tool == w.job.tool
           R == Range(Tail(w.script))
           c == Head(w.script)
<1>1. /\ w.script # <<>> /\ c = Call("close", n) /\ n \in Files
      /\ GoodOf(disk, Held(p), w.script, w.job, w.mem, w.seen)
      /\ (\A f \in Files \ {n} : disk'[f] = disk[f]) /\ DiskOK(disk)
      /\ \/ disk'[n] = w.mem[n]
         \/ disk[n] = Absent /\ w.mem[n] = <<>> /\ disk'[n] = disk[n]
  BY CloseFacts
<1>2. \A f : Call("close", f) \notin R
  <2>1. \A e \in R : e.do # "close"
    BY DEF Range, ToWrite
  <2> QED BY <2>1, SameCall
<1>3. Mends(disk, {c} \cup R, w.mem, Held(p), tool, w.seen)
  <2> HIDE DEF w, c
  <2>1. w.script # <<>>
    BY <1>1
  <2>2. StateOf(disk, Held(p), {c} \cup R, w.job, w.mem, w.seen)
    BY <1>1, GoodHead DEF c
  <2> QED BY <2>2 DEF StateOf
<1>4. c \in Writes(n)
  BY <1>1 DEF Writes
<1>5. /\ Holds(n, w.mem[n]) /\ Editing \notin {c} \cup R
  <2> HIDE DEF w, n
  <2> QED BY <1>1, <1>4, GoodWrites DEF c, R
<1>6. Writing({c} \cup R)
  BY <1>1, SameCall DEF Writing
<1>7. Fits(tool, Final(disk, {c} \cup R, w.mem, TableOf(tool)), Final(disk, {c} \cup R, w.mem, ShadowOf(tool)))
  BY <1>3, <1>5, <1>6 DEF Mends
<1>8. \A f \in Files : Final(disk, {c} \cup R, w.mem, f) = Content(disk', f)
  <2>1. w.mem[n] # Absent
    BY <1>1, <1>5, NotClosed
  <2>2. \A f : Call("close", f) \in {c} \cup R <=> f = n
    BY <1>1, <1>2, SameCall
  <2> HIDE DEF w, n, R, c
  <2> QED BY <1>1, <2>1, <2>2 DEF Final, Content
<1>9. TableOf(tool) \in Files /\ ShadowOf(tool) \in Files
  BY DEF TableOf, ShadowOf, Files
<1> QED BY <1>7, <1>8, <1>9

LEMMA RepairStep ==
  ASSUME WorkInv, WorkInv', NEW p \in Procs, CloseFile(p), ~ToWrite(Tail(work[p].script))
  PROVE  Repaired(work[p])'
<1> DEFINE w == work[p]
           tool == w.job.tool
<1>1. IsWork(w) /\ DiskOK(disk')
  BY CloseFacts DEF WorkInv
<1>2. work'[p].job = w.job /\ work'[p].seen = w.seen
  BY <1>1, CloseFacts, CloseNotLast DEF IsWork
<1>3. \A f \in Files : Entries(f)' = DOMAIN Content(disk', f)
  <2>1. \A f \in Files : DOMAIN Content(disk', f) = Rows(disk', f)
    BY <1>1, ContentHolds
  <2> QED BY <2>1 DEF Entries, Rows
<1>4. \A f \in Files : Entries(f)' # {} => Content(disk', f) = disk'[f]
  BY DEF Entries, Content
<1>5. /\ "passwd" \in Files /\ "shadow" \in Files /\ "group" \in Files /\ "gshadow" \in Files
  BY DEF Files
<1>6. ASSUME tool \in Checkers, Fellow(tool, w.seen)
      PROVE  Fits(tool, Content(disk', TableOf(tool)), Content(disk', ShadowOf(tool)))
  BY <1>6, LastClose
<1> HIDE DEF w, tool
<1>7. ASSUME tool = "pwconv" \/ (tool = "pwck" /\ w.seen["shadow"])
      PROVE  Fits(tool, Content(disk', "passwd"), Content(disk', "shadow"))
  <2>1. TableOf(tool) = "passwd" /\ ShadowOf(tool) = "shadow" /\ tool \in Checkers
    BY <1>7 DEF TableOf, ShadowOf, UserTools, Checkers
  <2>2. Fellow(tool, w.seen)
    BY <1>7, <2>1 DEF Fellow
  <2> QED BY <1>6, <2>1, <2>2
<1>8. ASSUME tool = "grpconv" \/ (tool = "grpck" /\ w.seen["gshadow"])
      PROVE  Fits(tool, Content(disk', "group"), Content(disk', "gshadow"))
  <2>1. TableOf(tool) = "group" /\ ShadowOf(tool) = "gshadow" /\ tool \in Checkers
    BY <1>8 DEF TableOf, ShadowOf, UserTools, Checkers
  <2>2. Fellow(tool, w.seen)
    BY <1>8, <2>1 DEF Fellow
  <2> QED BY <1>6, <2>1, <2>2
<1>9. tool = "pwconv" \/ (tool = "pwck" /\ w.seen["shadow"]) => Entries("passwd")' = Entries("shadow")'
  BY <1>3, <1>5, <1>7 DEF Fits
<1>10. tool = "pwconv" => \A n \in Entries("passwd")' : disk'["passwd"][n].pw = Shadow
  BY <1>3, <1>4, <1>5, <1>7 DEF Fits
<1>11. tool = "grpconv" \/ (tool = "grpck" /\ w.seen["gshadow"]) => Entries("group")' = Entries("gshadow")'
  BY <1>3, <1>5, <1>8 DEF Fits
<1>12. tool = "grpconv" =>
         \A g \in Entries("group")' : /\ disk'["group"][g].pw = Shadow
                                      /\ disk'["group"][g].members = disk'["gshadow"][g].members
  <2> SUFFICES ASSUME tool = "grpconv", NEW g \in Entries("group")'
               PROVE  /\ disk'["group"][g].pw = Shadow
                      /\ disk'["group"][g].members = disk'["gshadow"][g].members
    OBVIOUS
  <2>1. Content(disk', "group") = disk'["group"] /\ Content(disk', "gshadow") = disk'["gshadow"]
    BY <1>4, <1>5, <1>11
  <2> QED BY <1>3, <1>5, <1>8, <2>1 DEF Fits
<1>13. work'[p].job.tool = tool /\ work'[p].seen = w.seen
  BY <1>2 DEF tool
<1> QED BY <1>9, <1>10, <1>11, <1>12, <1>13 DEF Repaired

\* The password of a user, by what the files hold.
PasswordIn(d, n) == Password(d["passwd"][n], d["shadow"], n)
AgeIn(d, n) == IF d["shadow"] # Absent /\ n \in DOMAIN d["shadow"] THEN d["shadow"][n].age ELSE NoAge

LEMMA NoAgeNeverExpires == ~AccountExpired(NoAge, Today)
<1>1. "expire" \in AgeFields
  BY DEF AgeFields
<1>2. NoAge["expire"] = -1
  BY <1>1 DEF NoAge
<1> QED BY <1>2 DEF AccountExpired

\* One that the file written bars stays what it is.
LEMMA BarKeeps ==
  ASSUME NEW d, DiskOK(d), NEW e, DiskOK(e), NEW f \in Files, NEW mem, mem[f] # Absent,
         \A g \in Files \ {f} : e[g] = d[g],
         e[f] = mem[f] \/ (d[f] = Absent /\ mem[f] = <<>> /\ e[f] = d[f]),
         NEW calls, Call("close", f) \in calls, Editing \notin calls,
         NEW job, job.tool = "passwd", job.by # Root, Bars(d, calls, mem, job),
         NEW n \in DOMAIN d["passwd"],
         PasswordIn(d, n).locked \/ AccountExpired(AgeIn(d, n), Today)
  PROVE  n \in DOMAIN e["passwd"] /\ PasswordIn(e, n) = PasswordIn(d, n)
<1>1. "passwd" \in Files /\ "shadow" \in Files
  BY DEF Files
<1>2. d["passwd"] # Absent /\ e["passwd"] # Absent
  BY <1>1, NotClosed DEF DiskOK
<1>3. CASE f \notin {"passwd", "shadow"}
  BY <1>1, <1>3 DEF PasswordIn
<1>4. CASE f = "shadow"
  <2>1. /\ DOMAIN mem["shadow"] = Rows(d, "shadow")
        /\ \A k \in Rows(d, "shadow") :
             \/ mem["shadow"][k] = d["shadow"][k]
             \/ ~d["shadow"][k].pw.locked /\ ~AccountExpired(d["shadow"][k].age, Today)
    BY <1>4 DEF Bars
  <2>2. e["passwd"] = d["passwd"]
    BY <1>1, <1>4
  <2>3. CASE d["passwd"][n].pw # Shadow
    BY <2>2, <2>3 DEF PasswordIn, Password
  <2>4. CASE d["passwd"][n].pw = Shadow /\ n \notin Rows(d, "shadow")
    <3>1. PasswordIn(d, n) = Shadow
      BY <2>4 DEF PasswordIn, Password, Rows
    <3>2. PasswordIn(e, n) = Shadow
      BY <1>4, <2>1, <2>2, <2>4 DEF PasswordIn, Password
    <3> QED BY <2>2, <3>1, <3>2
  <2>5. CASE d["passwd"][n].pw = Shadow /\ n \in Rows(d, "shadow")
    <3>1. d["shadow"] # Absent /\ n \in DOMAIN d["shadow"]
      BY <2>5 DEF Rows
    <3>2. PasswordIn(d, n) = d["shadow"][n].pw /\ AgeIn(d, n) = d["shadow"][n].age
      BY <2>5, <3>1 DEF PasswordIn, AgeIn, Password
    <3>3. mem["shadow"][n] = d["shadow"][n]
      BY <2>1, <2>5, <3>2
    <3>4. e["shadow"] = mem["shadow"]
      BY <1>4, <3>1
    <3>5. n \in DOMAIN e["shadow"] /\ e["shadow"][n] = d["shadow"][n]
      BY <2>1, <2>5, <3>3, <3>4
    <3>6. e["shadow"] # Absent
      BY <1>4, <3>4
    <3> QED BY <2>2, <2>5, <3>2, <3>5, <3>6 DEF PasswordIn, Password
  <2> QED BY <2>3, <2>4, <2>5
<1>5. CASE f = "passwd"
  <2>1. /\ DOMAIN mem["passwd"] = DOMAIN d["passwd"]
        /\ \A k \in DOMAIN d["passwd"] :
             \/ mem["passwd"][k] = d["passwd"][k]
             \/ ~d["passwd"][k].pw.locked /\ k \notin Rows(d, "shadow")
    BY <1>5 DEF Bars
  <2>2. e["passwd"] = mem["passwd"] /\ e["shadow"] = d["shadow"]
    BY <1>1, <1>2, <1>5
  <2>3. CASE mem["passwd"][n] = d["passwd"][n]
    BY <2>1, <2>2, <2>3 DEF PasswordIn
  <2>4. CASE ~d["passwd"][n].pw.locked /\ n \notin Rows(d, "shadow")
    <3>1. PasswordIn(d, n) = d["passwd"][n].pw
      BY <2>4 DEF PasswordIn, Password, Rows
    <3>2. AgeIn(d, n) = NoAge
      BY <2>4 DEF AgeIn, Rows
    <3> QED BY <2>4, <3>1, <3>2, NoAgeNeverExpires
  <2> QED BY <2>1, <2>3, <2>4
<1> QED BY <1>3, <1>4, <1>5

LEMMA NewPassword ==
  ASSUME NEW d, DiskOK(d), NEW n \in DOMAIN d["passwd"], NEW pw
  PROVE  [d["passwd"][n] EXCEPT !.pw = pw].pw = pw
<1>1. d["passwd"][n] \in EntryOf("passwd")
  BY OfTable DEF DiskOK, Holds
<1> QED BY <1>1 DEF EntryOf

\* Whatever passwd writes for a user.
LEMMA BarStep ==
  ASSUME WorkInv, WorkInv', NEW p \in Procs, CloseFile(p),
         work[p].job.tool = "passwd", work[p].job.by # Root,
         NEW n \in DOMAIN disk["passwd"],
         UserNow(n).pw.locked \/ AccountExpired(Aged(n).age, Today)
  PROVE  UserNow(n)'.pw = UserNow(n).pw
<1> DEFINE w == work[p]
           f == Now(p)
           calls == {Head(w.script)} \cup Range(Tail(w.script))
<1>1. /\ w.script # <<>> /\ Head(w.script) = Call("close", f) /\ f \in Files
      /\ GoodOf(disk, Held(p), w.script, w.job, w.mem, w.seen)
      /\ (\A g \in Files \ {f} : disk'[g] = disk[g])
      /\ \/ disk'[f] = w.mem[f]
         \/ disk[f] = Absent /\ w.mem[f] = <<>> /\ disk'[f] = disk[f]
  BY CloseFacts
<1>2. DiskOK(disk) /\ DiskOK(disk')
  BY DEF WorkInv
<1>3. w.job.tool = "passwd" /\ w.job.by # Root
  OBVIOUS
<1>4. PasswordIn(disk, n).locked \/ AccountExpired(AgeIn(disk, n), Today)
  <2>1. UserNow(n).pw = PasswordIn(disk, n)
    BY <1>2, NewPassword DEF UserNow, Account, PasswordIn
  <2>2. Aged(n).age = AgeIn(disk, n)
    BY DEF Aged, AgeIn
  <2> QED BY <2>1, <2>2
<1>5. Head(w.script) \in Writes(f)
  BY <1>1 DEF Writes
<1> HIDE DEF w, f
<1>6. Editing \notin calls /\ w.mem[f] # Absent
  <2> DEFINE s == w.script
             m == w.mem
             h == Held(p)
             j == w.job
             o == w.seen
  <2>1. s # <<>> /\ f \in Files /\ GoodOf(disk, h, s, j, m, o) /\ Head(s) \in Writes(f)
    BY <1>1, <1>5
  <2>2. calls = {Head(s)} \cup Range(Tail(s))
    OBVIOUS
  <2> HIDE DEF s, m, h, j, o
  <2>3. Holds(f, m[f]) /\ Editing \notin {Head(s)} \cup Range(Tail(s))
    BY <2>1, GoodWrites
  <2>4. m[f] # Absent
    BY <2>1, <2>3, NotClosed
  <2> QED BY <2>2, <2>3, <2>4 DEF m
<1>7. Bars(disk, calls, w.mem, w.job)
  <2>1. StateOf(disk, Held(p), calls, w.job, w.mem, w.seen)
    BY <1>1, GoodHead
  <2> QED BY <2>1 DEF StateOf
<1>8. Call("close", f) \in calls
  BY <1>1
<1> HIDE DEF calls
<1>9. n \in DOMAIN disk'["passwd"] /\ PasswordIn(disk', n) = PasswordIn(disk, n)
  <2>1. PICK e : e = disk'
    OBVIOUS
  <2>2. n \in DOMAIN e["passwd"] /\ PasswordIn(e, n) = PasswordIn(disk, n)
    BY <1>1, <1>2, <1>3, <1>4, <1>6, <1>7, <1>8, <2>1, BarKeeps
  <2> QED BY <2>1, <2>2
<1>10. UserNow(n)'.pw = PasswordIn(disk', n)
  <2>1. PICK e : e = disk'
    OBVIOUS
  <2>2. [e["passwd"][n] EXCEPT !.pw = PasswordIn(e, n)].pw = PasswordIn(e, n)
    BY <1>2, <1>9, <2>1, NewPassword
  <2> QED BY <2>1, <2>2 DEF UserNow, Account, PasswordIn
<1>11. UserNow(n).pw = PasswordIn(disk, n)
  BY <1>2, NewPassword DEF UserNow, Account, PasswordIn
<1> QED BY <1>9, <1>10, <1>11

\* A process that closes a file does this and nothing else.
LEMMA WhileClosing ==
  ASSUME WorkInv, Next, NEW p \in Procs, Doing(p, "close"), work'[p] # work[p]
  PROVE  CloseFile(p) \/ disk' = disk
<1>1. PICK q \in Procs : Start(q) \/ Step(q) \/ Killed(q)
  BY DEF Next
<1>2. CASE q = p
  <2>1. ~Start(p)
    <3>1. Start(p) => work[p] = Idle
      BY DEF Start
    <3> QED BY <3>1 DEF Doing, Idle
  <2>2. CASE CallFails(p) \/ Killed(p)
    BY <2>2 DEF CallFails, Killed
  <2>3. CASE Step(p) /\ ~CallFails(p)
    BY <2>3 DEF Step, TestFile, ReadFile, CheckJob, LockFile, OpenFile, EditFiles, UnlinkFile,
       UnlockFile, Doing
  <2> QED BY <1>1, <1>2, <2>1, <2>2, <2>3 DEF Step
<1>3. CASE q # p
  <2>1. work = [r \in Procs |-> work[r]]
    BY DEF WorkInv, LocksInv, Shape
  <2>2. ASSUME NEW v, Becomes(q, v) PROVE work'[p] = work[p]
    BY <1>3, <2>1, <2>2 DEF Becomes
  <2>3. CASE Killed(q)
    BY <1>3, <2>1, <2>3 DEF Killed
  <2>4. CASE Start(q)
    BY <2>2, <2>4 DEF Start
  <2>5. CASE CallFails(q) \/ EditFiles(q)
    BY <2>2, <2>5 DEF CallFails, EditFiles, FailExit, Proceed
  <2>6. CASE TestFile(q) \/ ReadFile(q) \/ CheckJob(q) \/ LockFile(q)
    BY <2>2, <2>6 DEF TestFile, ReadFile, CheckJob, LockFile, Proceed
  <2>7. CASE OpenFile(q) \/ CloseFile(q) \/ UnlinkFile(q) \/ UnlockFile(q)
    BY <2>2, <2>7 DEF OpenFile, CloseFile, UnlinkFile, UnlockFile, Proceed
  <2> QED BY <1>1, <2>3, <2>4, <2>5, <2>6, <2>7 DEF Step
<1> QED BY <1>2, <1>3

(***************************************************************************)
(* The theorems.                                                           *)
(***************************************************************************)
\* What the converters and checkers leave behind when they write the last of
\* their files: no entry without its fellow and, after a conversion, no
\* password outside the shadow file and the same members in both, whatever
\* the other tools did meanwhile (main of pwconv and grpconv, check_pw_file
\* and check_spw_file of pwck, check_grp_file and check_sgr_file of grpck).
THEOREM CheckersLeaveWholeFiles ==
  ASSUME PasswordToolsAssumption PROVE Spec => CheckersRepair
<1>1. Init => WorkInv
  BY WorkInit
<1>2. WorkInv /\ [Next]_vars => WorkInv'
  BY WorkStep
<1> DEFINE A == \A p \in Procs :
                  CloseFile(p) /\ ~ToWrite(Tail(work[p].script)) => Repaired(work[p])'
<1>3. WorkInv /\ WorkInv' /\ [Next]_vars => [A]_vars
  <2> SUFFICES ASSUME WorkInv, WorkInv' PROVE A
    OBVIOUS
  <2> QED BY RepairStep
<1> HIDE DEF A
<1>4. Spec => [][A]_vars
  BY <1>1, <1>2, <1>3, PTL DEF Spec
<1> QED BY <1>4 DEF CheckersRepair, A

\* A user who changes the own password with passwd changes none that is
\* locked and none of an account that has expired, even when that was done
\* while the new password was typed (check_password, called by update_shadow
\* and update_noshadow of passwd once the files are locked).
THEOREM BarredPasswordsStay ==
  ASSUME PasswordToolsAssumption PROVE Spec => BarredStays
<1>1. Init => WorkInv
  BY WorkInit
<1>2. WorkInv /\ [Next]_vars => WorkInv'
  BY WorkStep
<1> DEFINE A == \A p \in Procs, n \in DOMAIN disk["passwd"] :
                  /\ Doing(p, "close") /\ work'[p] # work[p]
                  /\ work[p].job.tool = "passwd" /\ work[p].job.by # Root
                  /\ UserNow(n).pw.locked \/ AccountExpired(Aged(n).age, Today)
                  => UserNow(n)'.pw = UserNow(n).pw
<1>3. WorkInv /\ WorkInv' /\ [Next]_vars => [A]_vars
  <2> SUFFICES ASSUME WorkInv, WorkInv', Next,
                      NEW p \in Procs, NEW n \in DOMAIN disk["passwd"],
                      Doing(p, "close"), work'[p] # work[p],
                      work[p].job.tool = "passwd", work[p].job.by # Root,
                      UserNow(n).pw.locked \/ AccountExpired(Aged(n).age, Today)
               PROVE  UserNow(n)'.pw = UserNow(n).pw
    OBVIOUS
  <2>1. CASE CloseFile(p)
    BY <2>1, BarStep
  <2>2. CASE disk' = disk
    BY <2>2 DEF UserNow, Account
  <2> QED BY <2>1, <2>2, WhileClosing
<1> HIDE DEF A
<1>4. Spec => [][A]_vars
  BY <1>1, <1>2, <1>3, PTL DEF Spec
<1> QED BY <1>4 DEF BarredStays, A
=============================================================================
