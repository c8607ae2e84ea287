------------------------- MODULE AccountToolsProofs -------------------------
(***************************************************************************)
(* Proofs about AccountTools, for every number of processes, every set of  *)
(* command lines and every initial content of the files: the tools never   *)
(* lose each other's updates, a tool that has come to its end holds no     *)
(* lock, every file holds a table of its kind, no two users get the same   *)
(* uid unless somebody asked for it, and passwd and group agree with their *)
(* shadow files unless somebody is between the two, or was stopped there.  *)
(*                                                                         *)
(* For the first, the invariant is NoLostUpdate together with the shape of *)
(* the state.  It is inductive because an open copy goes with the lock:    *)
(* commonio_open wants the lock, and commonio_unlock closes what is open.  *)
(* So the proof does not look at the scripts, and holds for any order of   *)
(* calls.                                                                  *)
(*                                                                         *)
(* The second is about the scripts: what a process has still to call gives *)
(* back every lock that it has or will take.  The lemmas of                *)
(* ToolScriptsProofs say so of each part of a script.                      *)
(*                                                                         *)
(* The others need the first and the order of the calls.  A tool edits     *)
(* once, and until then its copies are what it has read, which is what the *)
(* files still hold; useradd picks its uid with passwd open and edits      *)
(* after that, so the uid is free in the copy that it writes.              *)
(*                                                                         *)
(* For the last, AgreeInv says what the copies of a process have to do     *)
(* with each other and with the files, by which of the two files of a pair *)
(* it has written and which it has yet to write. Only one process at a     *)
(* time is half way through a pair: it had the locks of both when it wrote *)
(* the first, and keeps that of the second. Meanwhile the first is written *)
(* again only by groupmod, or by usermod, taking it alone, and then no     *)
(* name and no member in it comes or goes.                                 *)
(***************************************************************************)
EXTENDS AccountTools, ToolScriptsProofs, WellFoundedInduction

\* The record of a process, whatever is in its fields.
IsWork(w) ==
  /\ w \in [job : {w.job}, script : {w.script}, mem : {w.mem}, base : {w.base},
            written : {w.written}]
  /\ w.mem = [f \in Files |-> w.mem[f]]
  /\ w.base = [f \in Files |-> w.base[f]]

\* The parts of the state are functions and records of the right domain.
Shape ==
  /\ owner \in [Files -> Procs \cup {None}]
  /\ disk = [f \in Files |-> disk[f]]
  /\ work = [p \in Procs |-> work[p]]
  /\ \A p \in Procs : IsWork(work[p])

ToolsInv == Shape /\ NoLostUpdate

\* An idle process has nothing open (the state of a tool before main).
LEMMA IdleIsClosed == IsWork(Idle) /\ \A f \in Files : Idle.mem[f] = Closed
BY DEF IsWork, Idle

\* A process with another script (Proceed, fail_exit).
LEMMA NewScript ==
  ASSUME NEW w, NEW script, IsWork(w)
  PROVE  LET v == [w EXCEPT !.script = script]
         IN  IsWork(v) /\ v.mem = w.mem /\ v.base = w.base
BY DEF IsWork

\* A process with another job and script (the checks without a lock).
LEMMA NewJob ==
  ASSUME NEW w, NEW job, NEW script, IsWork(w)
  PROVE  LET v == [w EXCEPT !.job = job, !.script = script]
         IN  IsWork(v) /\ v.mem = w.mem /\ v.base = w.base
BY DEF IsWork

\* A process that has read the file n (commonio_open).
LEMMA NewCopy ==
  ASSUME NEW w, NEW n, NEW c, IsWork(w)
  PROVE  LET v == [w EXCEPT !.mem[n] = c, !.base[n] = c]
         IN  /\ IsWork(v)
             /\ v.mem = [w.mem EXCEPT ![n] = c]
             /\ v.base = [w.base EXCEPT ![n] = c]
BY DEF IsWork

\* A process that has written the file n (commonio_close).
LEMMA CopyWritten ==
  ASSUME NEW w, NEW n, IsWork(w)
  PROVE  LET v == [w EXCEPT !.mem[n] = Closed, !.written = @ \cup {n}]
         IN  IsWork(v) /\ v.base = w.base /\ v.mem = [w.mem EXCEPT ![n] = Closed]
BY DEF IsWork

\* What a step makes of the processes: p is w or has ended, the others are
\* as before (the helper all steps are written with).
LEMMA BecomesWork ==
  ASSUME Shape, NEW p \in Procs, NEW w, IsWork(w), Becomes(p, w)
  PROVE  /\ work' = [q \in Procs |-> work'[q]]
         /\ work'[p] \in {w, Idle}
         /\ \A q \in Procs \ {p} : work'[q] = work[q]
BY DEF Shape, Becomes

\* Proceeding keeps all but the script (the next call of a tool).
LEMMA ProceedWork ==
  ASSUME Shape, NEW p \in Procs, NEW w, IsWork(w), Proceed(p, w)
  PROVE  /\ work' = [q \in Procs |-> work'[q]]
         /\ IsWork(work'[p])
         /\ \/ work'[p] = Idle
            \/ work'[p].mem = w.mem /\ work'[p].base = w.base
         /\ \A q \in Procs \ {p} : work'[q] = work[q]
<1> DEFINE v == [w EXCEPT !.script = Tail(@)]
<1>1. Becomes(p, v)
  BY DEF Proceed
<1>2. IsWork(v) /\ v.mem = w.mem /\ v.base = w.base
  BY NewScript
<1> HIDE DEF v
<1> QED BY <1>1, <1>2, BecomesWork, IdleIsClosed

\* fail_exit keeps all but the script.
LEMMA FailExitWork ==
  ASSUME Shape, NEW p \in Procs, FailExit(p)
  PROVE  /\ work' = [q \in Procs |-> work'[q]]
         /\ IsWork(work'[p])
         /\ \/ work'[p] = Idle
            \/ work'[p].mem = work[p].mem /\ work'[p].base = work[p].base
         /\ \A q \in Procs \ {p} : work'[q] = work[q]
<1>1. PICK s : Becomes(p, [work[p] EXCEPT !.script = s])
  BY DEF FailExit
<1> DEFINE v == [work[p] EXCEPT !.script = s]
<1>2. IsWork(v) /\ v.mem = work[p].mem /\ v.base = work[p].base
  BY NewScript DEF Shape
<1>3. Becomes(p, v)
  BY <1>1
<1> HIDE DEF v
<1> QED BY <1>2, <1>3, BecomesWork, IdleIsClosed

\* The edits keep the set of files (the updates of the seven tools).
LEMMA EditsKeepFiles ==
  ASSUME NEW job, NEW mem, mem = [f \in Files |-> mem[f]], NEW new \in EditsOf(job, mem)
  PROVE  new = [f \in Files |-> new[f]]
<1>1. CASE job.tool = "useradd"
  BY <1>1 DEF EditsOf, UseraddEdit
<1>2. CASE job.tool = "userdel"
  BY <1>2 DEF EditsOf, UserdelEdit
<1>3. CASE job.tool = "groupadd"
  BY <1>3 DEF EditsOf, GroupaddEdit
<1>4. CASE job.tool = "groupdel"
  BY <1>4 DEF EditsOf, GroupdelEdit
<1>5. CASE job.tool = "usermod"
  BY <1>5 DEF EditsOf, UsermodEdit
<1>6. CASE job.tool = "newusers"
  BY <1>6 DEF EditsOf
<1>7. CASE job.tool \notin {"useradd", "usermod", "userdel", "groupadd", "groupdel", "newusers"}
  BY <1>7 DEF EditsOf, GroupmodEdit
<1> QED BY <1>1, <1>2, <1>3, <1>4, <1>5, <1>6, <1>7

\* The groups that a line of newusers finds or makes (add_group).
LEMMA AddGroupKeepsFiles ==
  ASSUME NEW line, NEW uid, NEW mem, NEW job, mem = [f \in Files |-> mem[f]],
         NEW new \in AddGroup(line, uid, mem, job)
  PROVE  new.mem = [f \in Files |-> new.mem[f]]
<1>1. PICK i, g, s : new \in {[gid |-> i, mem |-> mem],
                             [gid |-> i, mem |-> [mem EXCEPT !["group"] = g, !["gshadow"] = s]]}
  BY DEF AddGroup
<1> QED BY <1>1

\* So does a line of newusers.
LEMMA LinesKeepFiles ==
  ASSUME NEW line, NEW mem, NEW job, mem = [f \in Files |-> mem[f]],
         NEW new \in AddLine(line, mem, job)
  PROVE  new = [f \in Files |-> new[f]]
<1> DEFINE uid == LineUid(line, mem["passwd"], job)
<1>1. CASE line.name \in DOMAIN mem["passwd"]
  BY <1>1 DEF AddLine
<1>2. CASE line.name \notin DOMAIN mem["passwd"]
  <2> DEFINE all == IF uid = 0 THEN {} ELSE AddGroup(line, uid, mem, job)
  <2>1. PICK m : /\ new = [m EXCEPT !["shadow"] = WithPassword(@, line.name)]
                 /\ m \in {[made.mem EXCEPT !["passwd"] =
                            Put(@, line.name, [uid |-> uid, gid |-> made.gid])] : made \in all}
    BY <1>2 DEF AddLine
  <2>2. PICK made, c : /\ made \in AddGroup(line, uid, mem, job)
                       /\ m = [made.mem EXCEPT !["passwd"] = c]
    BY <2>1
  <2>3. made.mem = [f \in Files |-> made.mem[f]]
    BY <2>2, AddGroupKeepsFiles
  <2> QED BY <2>1, <2>2, <2>3
<1> QED BY <1>1, <1>2

\* A process that has read a line.
LEMMA NewLineRead ==
  ASSUME NEW w, NEW mem, NEW job, IsWork(w), mem = [f \in Files |-> mem[f]]
  PROVE  LET v == [w EXCEPT !.mem = mem, !.job = job]
         IN  /\ IsWork(v) /\ v.mem = mem /\ v.base = w.base /\ v.script = w.script
             /\ v.written = w.written /\ v.job = job
BY DEF IsWork

(***************************************************************************)
(* The invariant.                                                          *)
(***************************************************************************)
\* A step that leaves owner and disk alone keeps the invariant when the
\* copies of p are as before or closed.
LEMMA LocalStep ==
  ASSUME ToolsInv, NEW p \in Procs, UNCHANGED <<disk, owner>>,
         work' = [q \in Procs |-> work'[q]], IsWork(work'[p]),
         \A q \in Procs \ {p} : work'[q] = work[q],
         \A f \in Files : \/ work'[p].mem[f] = Closed
                          \/ /\ work[p].mem[f] # Closed
                             /\ work'[p].base[f] = work[p].base[f]
  PROVE  ToolsInv'
<1>1. Shape'
  BY DEF ToolsInv, Shape
<1>2. NoLostUpdate'
  <2> SUFFICES ASSUME NEW q \in Procs, NEW f \in Files, work'[q].mem[f] # Closed
               PROVE  owner[f] = q /\ disk[f] = work'[q].base[f]
    BY DEF NoLostUpdate
  <2>1. CASE q = p
    BY <2>1 DEF ToolsInv, NoLostUpdate
  <2>2. CASE q # p
    BY <2>2 DEF ToolsInv, NoLostUpdate
  <2> QED BY <2>1, <2>2
<1> QED BY <1>1, <1>2 DEF ToolsInv

\* Main is entered with nothing open and nothing locked.
LEMMA ToolsInit == Init => ToolsInv
<1> SUFFICES ASSUME Init PROVE ToolsInv
  OBVIOUS
<1>1. owner \in [Files -> Procs \cup {None}]
  BY DEF Init
<1> DEFINE first(f) == CASE f = "passwd"  -> Passwd0
                         [] f = "shadow"  -> DOMAIN Passwd0
                         [] f = "group"   -> Group0
                         [] f = "gshadow" -> [g \in DOMAIN Group0 |-> Group0[g].members]
<1>2. disk = [f \in Files |-> first(f)]
  BY DEF Init
<1> HIDE DEF first
<1>3. \A p \in Procs : work[p] = Idle
  BY DEF Init
<1>4. Shape
  BY <1>1, <1>2, <1>3, IdleIsClosed DEF Init, Shape
<1>5. NoLostUpdate
  BY <1>3, IdleIsClosed DEF NoLostUpdate
<1> QED BY <1>4, <1>5 DEF ToolsInv

\* The record of every process (the state of a tool).
LEMMA ProcWork == ASSUME Shape, NEW p \in Procs PROVE IsWork(work[p])
BY DEF Shape

\* What userdel leaves when it exits in update_groups is what a tool that is
\* killed leaves.
LEMMA QuitIsDeath == ASSUME NEW p \in Procs, UserdelQuits(p) PROVE Killed(p)
BY DEF UserdelQuits

\* No step of a tool, nor its death, loses the invariant.
LEMMA ToolsStep == ASSUME ToolsAssumption, ToolsInv, [Next]_vars PROVE ToolsInv'
<1>1. Shape /\ NoLostUpdate
  BY DEF ToolsInv
<1>2. CASE UNCHANGED vars
  BY <1>2 DEF vars, ToolsInv, Shape, NoLostUpdate
<1>3. CASE Next
  <2>1. PICK p \in Procs : Start(p) \/ Step(p) \/ Killed(p)
    BY <1>3, QuitIsDeath DEF Next
  <2> DEFINE w == work[p]
  <2>2. IsWork(w)
    BY <1>1, ProcWork
  <2>3. CASE Start(p)
    <3>1. PICK job, script : Becomes(p, [Idle EXCEPT !.job = job, !.script = script])
      BY <2>3 DEF Start
    <3> DEFINE v == [Idle EXCEPT !.job = job, !.script = script]
    <3>2. IsWork(v) /\ \A f \in Files : v.mem[f] = Closed
      BY DEF Idle, IsWork
    <3>3. Becomes(p, v)
      BY <3>1
    <3> HIDE DEF v
    <3>4. UNCHANGED <<disk, owner>>
      BY <2>3 DEF Start
    <3> QED BY <1>1, <3>2, <3>3, <3>4, BecomesWork, IdleIsClosed, LocalStep
  <2>4. CASE Lookup(p)
    <3>1. UNCHANGED <<disk, owner>>
      BY <2>4 DEF Lookup
    <3>2. CASE Proceed(p, w)
      BY <1>1, <2>2, <3>1, <3>2, ProceedWork, IdleIsClosed, LocalStep
    <3>3. CASE Becomes(p, [w EXCEPT !.script = Each("unlock", GroupFiles)])
      <4> DEFINE v == [w EXCEPT !.script = Each("unlock", GroupFiles)]
      <4>1. IsWork(v) /\ v.mem = w.mem /\ v.base = w.base
        BY <2>2, NewScript
      <4>2. Becomes(p, v)
        BY <3>3
      <4> HIDE DEF v
      <4> QED BY <1>1, <3>1, <4>1, <4>2, BecomesWork, IdleIsClosed, LocalStep
    <3> QED BY <2>4, <3>2, <3>3 DEF Lookup
  <2>5. CASE Check(p)
    <3>1. UNCHANGED <<disk, owner>>
      BY <2>5 DEF Check
    <3>2. CASE Becomes(p, Idle)
      BY <1>1, <3>1, <3>2, BecomesWork, IdleIsClosed, LocalStep
    <3>3. CASE \E job : Becomes(p, [w EXCEPT !.job = job, !.script = Script(job)])
      <4>1. PICK job : Becomes(p, [w EXCEPT !.job = job, !.script = Script(job)])
        BY <3>3
      <4> DEFINE v == [w EXCEPT !.job = job, !.script = Script(job)]
      <4>2. IsWork(v) /\ v.mem = w.mem /\ v.base = w.base
        <5> DEFINE new == Script(job)
        <5> HIDE DEF w, new
        <5> QED BY <2>2, NewJob
      <4>3. Becomes(p, v)
        BY <4>1
      <4> HIDE DEF v
      <4> QED BY <1>1, <3>1, <4>2, <4>3, BecomesWork, IdleIsClosed, LocalStep
    <3> QED BY <2>5, <3>2, <3>3 DEF Check
  <2>6. CASE Lock(p)
    <3>1. /\ owner' = [owner EXCEPT ![Now(p)] = p]
          /\ owner[Now(p)] = None
          /\ disk' = disk
          /\ Proceed(p, w)
      BY <2>6 DEF Lock
    <3>2. /\ work' = [q \in Procs |-> work'[q]]
          /\ IsWork(work'[p])
          /\ \A q \in Procs \ {p} : work'[q] = work[q]
          /\ \A f \in Files : \/ work'[p].mem[f] = Closed
                              \/ /\ work'[p].mem[f] = w.mem[f]
                                 /\ work'[p].base[f] = w.base[f]
      BY <1>1, <2>2, <3>1, ProceedWork, IdleIsClosed
    <3>3. \A q \in Procs, f \in Files : owner[f] = q => owner'[f] = q
      BY <1>1, <3>1, ToolsAssumption DEF Shape
    <3>4. Shape'
      BY <1>1, <3>1, <3>2 DEF Shape
    <3>5. NoLostUpdate'
      BY <1>1, <3>1, <3>2, <3>3 DEF NoLostUpdate
    <3> QED BY <3>4, <3>5 DEF ToolsInv
  <2>7. CASE Open(p)
    <3>0. PICK n, c : n = Now(p) /\ c = disk[n]
      OBVIOUS
    <3> DEFINE v == [w EXCEPT !.mem[n] = c, !.base[n] = c]
    <3>1. /\ owner[Now(p)] = p
          /\ UNCHANGED <<disk, owner>>
          /\ Proceed(p, v)
      BY <2>7, <3>0 DEF Open
    <3>2. /\ IsWork(v)
          /\ \A f \in Files : /\ v.mem[f] = IF f = Now(p) THEN disk[f] ELSE w.mem[f]
                              /\ v.base[f] = IF f = Now(p) THEN disk[f] ELSE w.base[f]
      <4>1. /\ IsWork(v)
            /\ v.mem = [w.mem EXCEPT ![n] = c]
            /\ v.base = [w.base EXCEPT ![n] = c]
        BY <2>2 DEF IsWork
      <4> HIDE DEF v
      <4> QED BY <2>2, <3>0, <4>1 DEF IsWork
    <3> HIDE DEF v
    <3>3. /\ work' = [q \in Procs |-> work'[q]]
          /\ IsWork(work'[p])
          /\ \A q \in Procs \ {p} : work'[q] = work[q]
          /\ \A f \in Files : \/ work'[p].mem[f] = Closed
                              \/ /\ work'[p].mem[f] = v.mem[f]
                                 /\ work'[p].base[f] = v.base[f]
      BY <1>1, <3>1, <3>2, ProceedWork, IdleIsClosed
    <3>4. Shape'
      BY <1>1, <3>1, <3>3 DEF Shape
    <3>5. NoLostUpdate'
      <4> SUFFICES ASSUME NEW q \in Procs, NEW f \in Files, work'[q].mem[f] # Closed
                   PROVE  owner[f] = q /\ disk[f] = work'[q].base[f]
        BY <3>1 DEF NoLostUpdate
      <4>1. CASE q # p
        BY <1>1, <3>3, <4>1 DEF NoLostUpdate
      <4>2. CASE q = p /\ f = Now(p)
        BY <3>1, <3>2, <3>3, <4>2
      <4>3. CASE q = p /\ f # Now(p)
        BY <1>1, <3>2, <3>3, <4>3 DEF NoLostUpdate
      <4> QED BY <4>1, <4>2, <4>3
    <3> QED BY <3>4, <3>5 DEF ToolsInv
  <2>8. CASE Pick(p)
    <3>1. UNCHANGED <<disk, owner>>
      BY <2>8 DEF Pick
    <3>2. CASE FailExit(p)
      BY <1>1, <3>1, <3>2, FailExitWork, IdleIsClosed, LocalStep
    <3>3. CASE \E uid : Proceed(p, [w EXCEPT !.job.uid = uid])
      <4>1. PICK uid : Proceed(p, [w EXCEPT !.job.uid = uid])
        BY <3>3
      <4> DEFINE v == [w EXCEPT !.job.uid = uid]
      <4>2. v = [job |-> [w.job EXCEPT !.uid = uid], script |-> w.script, mem |-> w.mem,
                 base |-> w.base, written |-> w.written]
        BY <2>2 DEF IsWork
      <4>3. IsWork(v) /\ v.mem = w.mem /\ v.base = w.base
        BY <2>2, <4>2 DEF IsWork
      <4>4. Proceed(p, v)
        BY <4>1
      <4> HIDE DEF v
      <4> QED BY <1>1, <3>1, <4>3, <4>4, ProceedWork, IdleIsClosed, LocalStep
    <3> QED BY <2>8, <3>2, <3>3 DEF Pick
  <2>9. CASE Edit(p)
    <3>1. UNCHANGED <<disk, owner>>
      BY <2>9 DEF Edit
    <3>2. CASE FailExit(p)
      BY <1>1, <3>1, <3>2, FailExitWork, IdleIsClosed, LocalStep
    <3>3. CASE \E mem \in Edited(w.job, w.mem) : Proceed(p, [w EXCEPT !.mem = mem])
      <4>1. PICK mem \in Edited(w.job, w.mem) : Proceed(p, [w EXCEPT !.mem = mem])
        BY <3>3
      <4>2. /\ mem = [f \in Files |-> mem[f]]
            /\ \A f \in Files : w.mem[f] = Closed => mem[f] = Closed
        BY <2>2, EditsKeepFiles DEF Edited, IsWork
      <4> DEFINE v == [w EXCEPT !.mem = mem]
      <4>3. v = [job |-> w.job, script |-> w.script, mem |-> mem,
                 base |-> w.base, written |-> w.written]
        BY <2>2 DEF IsWork
      <4>4. IsWork(v) /\ v.mem = mem /\ v.base = w.base
        BY <2>2, <4>2, <4>3 DEF IsWork
      <4>5. Proceed(p, v)
        BY <4>1
      <4> HIDE DEF v
      <4>6. /\ work' = [q \in Procs |-> work'[q]]
            /\ IsWork(work'[p])
            /\ \A q \in Procs \ {p} : work'[q] = work[q]
            /\ \A f \in Files : \/ work'[p].mem[f] = Closed
                                \/ /\ work'[p].mem[f] = mem[f]
                                   /\ work'[p].base[f] = w.base[f]
        BY <1>1, <4>4, <4>5, ProceedWork, IdleIsClosed
      <4> QED BY <3>1, <4>2, <4>6, LocalStep
    <3> QED BY <2>9, <3>2, <3>3 DEF Edit
  <2>14. CASE EditLine(p)
    <3>1. UNCHANGED <<disk, owner>>
      BY <2>14 DEF EditLine
    <3>2. CASE FailExit(p)
      BY <1>1, <3>1, <3>2, FailExitWork, IdleIsClosed, LocalStep
    <3> DEFINE line == Head(w.job.lines)
    <3>3. CASE \E mem \in AddLine(line, w.mem, w.job) :
                 /\ \A f \in Files : w.mem[f] # Closed
                 /\ Becomes(p, [w EXCEPT !.mem = mem, !.job = LineRead(@)])
      <4>1. PICK mem \in AddLine(line, w.mem, w.job) :
                 /\ \A f \in Files : w.mem[f] # Closed
                 /\ Becomes(p, [w EXCEPT !.mem = mem, !.job = LineRead(@)])
        BY <3>3
      <4>2. mem = [f \in Files |-> mem[f]]
        BY <2>2, LinesKeepFiles DEF IsWork
      <4>3. PICK job : job = LineRead(w.job)
        OBVIOUS
      <4> DEFINE v == [w EXCEPT !.mem = mem, !.job = job]
      <4>4. IsWork(v) /\ v.mem = mem /\ v.base = w.base
        <5> HIDE DEF w
        <5> QED BY <2>2, <4>2 DEF IsWork
      <4>5. Becomes(p, v)
        BY <4>1, <4>3
      <4> HIDE DEF v
      <4>6. /\ work' = [q \in Procs |-> work'[q]]
            /\ IsWork(work'[p])
            /\ \A q \in Procs \ {p} : work'[q] = work[q]
            /\ \A f \in Files : \/ work'[p].mem[f] = Closed
                                \/ work'[p].base[f] = w.base[f]
        BY <1>1, <4>4, <4>5, BecomesWork, IdleIsClosed
      <4> QED BY <3>1, <4>1, <4>6, LocalStep
    <3> QED BY <2>14, <3>2, <3>3 DEF EditLine
  <2>10. CASE Close(p)
    <3> DEFINE v == [w EXCEPT !.mem[Now(p)] = Closed, !.written = @ \cup {Now(p)}]
    <3>1. /\ w.mem[Now(p)] # Closed
          /\ owner' = owner
          /\ disk' = [disk EXCEPT ![Now(p)] = w.mem[Now(p)]]
          /\ Proceed(p, v)
      BY <2>10 DEF Close
    <3>2. /\ IsWork(v)
          /\ v.base = w.base
          /\ \A f \in Files : v.mem[f] = IF f = Now(p) THEN Closed ELSE w.mem[f]
      <4>1. IsWork(v) /\ v.base = w.base /\ v.mem = [w.mem EXCEPT ![Now(p)] = Closed]
        BY <2>2, CopyWritten
      <4> HIDE DEF v
      <4> QED BY <2>2, <4>1 DEF IsWork
    <3> HIDE DEF v
    <3>3. /\ work' = [q \in Procs |-> work'[q]]
          /\ IsWork(work'[p])
          /\ \A q \in Procs \ {p} : work'[q] = work[q]
          /\ \A f \in Files : \/ work'[p].mem[f] = Closed
                              \/ /\ work'[p].mem[f] = v.mem[f]
                                 /\ work'[p].base[f] = v.base[f]
      BY <1>1, <3>1, <3>2, ProceedWork, IdleIsClosed
    <3>4. Shape'
      BY <1>1, <3>1, <3>3 DEF Shape
    <3>5. NoLostUpdate'
      <4> SUFFICES ASSUME NEW q \in Procs, NEW f \in Files, work'[q].mem[f] # Closed
                   PROVE  owner[f] = q /\ disk'[f] = work'[q].base[f]
        BY <3>1 DEF NoLostUpdate
      <4>1. CASE q = p
        <5>1. f # Now(p) /\ w.mem[f] # Closed /\ work'[p].base[f] = w.base[f]
          BY <3>2, <3>3, <4>1
        <5>2. disk'[f] = disk[f]
          BY <1>1, <3>1, <5>1 DEF Shape
        <5> QED BY <1>1, <4>1, <5>1, <5>2 DEF NoLostUpdate
      <4>2. CASE q # p
        <5>1. owner[f] = q /\ disk[f] = work'[q].base[f]
          BY <1>1, <3>3, <4>2 DEF NoLostUpdate
        <5>2. f # Now(p)
          BY <1>1, <3>1, <4>2, <5>1 DEF NoLostUpdate
        <5>3. disk'[f] = disk[f]
          BY <1>1, <3>1, <5>2 DEF Shape
        <5> QED BY <5>1, <5>3
      <4> QED BY <4>1, <4>2
    <3> QED BY <3>4, <3>5 DEF ToolsInv
  <2>11. CASE Unlock(p)
    <3> DEFINE v == [w EXCEPT !.mem[Now(p)] = Closed]
    <3>1. /\ owner' = [owner EXCEPT ![Now(p)] = IF @ = p THEN None ELSE @]
          /\ disk' = disk
          /\ Proceed(p, v)
      BY <2>11 DEF Unlock
    <3>2. /\ IsWork(v)
          /\ v.base = w.base
          /\ \A f \in Files : v.mem[f] = IF f = Now(p) THEN Closed ELSE w.mem[f]
      <4>1. v = [job |-> w.job, script |-> w.script,
                 mem |-> [w.mem EXCEPT ![Now(p)] = Closed],
                 base |-> w.base, written |-> w.written]
        BY <2>2 DEF IsWork
      <4> QED BY <2>2, <4>1 DEF IsWork
    <3> HIDE DEF v
    <3>3. /\ work' = [q \in Procs |-> work'[q]]
          /\ IsWork(work'[p])
          /\ \A q \in Procs \ {p} : work'[q] = work[q]
          /\ \A f \in Files : \/ work'[p].mem[f] = Closed
                              \/ /\ work'[p].mem[f] = v.mem[f]
                                 /\ work'[p].base[f] = v.base[f]
      BY <1>1, <3>1, <3>2, ProceedWork, IdleIsClosed
    <3>4. Shape'
      BY <1>1, <3>1, <3>3 DEF Shape
    <3>5. NoLostUpdate'
      <4> SUFFICES ASSUME NEW q \in Procs, NEW f \in Files, work'[q].mem[f] # Closed
                   PROVE  owner'[f] = q /\ disk[f] = work'[q].base[f]
        BY <3>1 DEF NoLostUpdate
      <4>1. CASE q = p
        <5>1. f # Now(p) /\ w.mem[f] # Closed /\ work'[p].base[f] = w.base[f]
          BY <3>2, <3>3, <4>1
        <5>2. owner'[f] = owner[f]
          BY <1>1, <3>1, <5>1 DEF Shape
        <5> QED BY <1>1, <4>1, <5>1, <5>2 DEF NoLostUpdate
      <4>2. CASE q # p
        <5>1. owner[f] = q /\ disk[f] = work'[q].base[f]
          BY <1>1, <3>3, <4>2 DEF NoLostUpdate
        <5>2. owner'[f] = owner[f]
          BY <1>1, <3>1, <4>2, <5>1 DEF Shape
        <5> QED BY <5>1, <5>2
      <4> QED BY <4>1, <4>2
    <3> QED BY <3>4, <3>5 DEF ToolsInv
  <2>12. CASE CallFails(p)
    <3>1. UNCHANGED <<disk, owner>> /\ FailExit(p)
      BY <2>12 DEF CallFails
    <3> QED BY <1>1, <3>1, FailExitWork, IdleIsClosed, LocalStep
  <2>13. CASE Killed(p)
    <3>1. /\ work' = [work EXCEPT ![p] = Idle]
          /\ owner' = [f \in Files |-> IF owner[f] = p THEN None ELSE owner[f]]
          /\ disk' = disk
      BY <2>13 DEF Killed
    <3>2. Shape'
      BY <1>1, <3>1, IdleIsClosed DEF Shape
    <3>3. NoLostUpdate'
      BY <1>1, <3>1, IdleIsClosed DEF Shape, NoLostUpdate
    <3> QED BY <3>2, <3>3 DEF ToolsInv
  <2> QED
    BY <2>1, <2>3, <2>4, <2>5, <2>6, <2>7, <2>8, <2>9, <2>10, <2>11, <2>12, <2>13, <2>14
    DEF Step
<1> QED BY <1>2, <1>3

(***************************************************************************)
(* Theorems.                                                               *)
(***************************************************************************)
\* The invariant holds in every state (useradd, usermod, userdel, groupadd,
\* groupmod and groupdel on the same files).
THEOREM ToolsInvariant == ASSUME ToolsAssumption PROVE Spec => []ToolsInv
<1>1. Init => ToolsInv
  BY ToolsInit
<1>2. ToolsInv /\ [Next]_vars => ToolsInv'
  BY ToolsAssumption, ToolsStep
<1> QED BY <1>1, <1>2, PTL DEF Spec

\* No tool loses the update of another: what it has open it has locked, and
\* the file is still what it read (open_files and close_files of the tools).
THEOREM ToolsNoLostUpdate == ASSUME ToolsAssumption PROVE Spec => []NoLostUpdate
<1>1. ToolsInv => NoLostUpdate
  BY DEF ToolsInv
<1> QED BY <1>1, ToolsInvariant, PTL

\* A file is written only from a copy of what it holds now, by the tool that
\* has its lock (commonio_close).
WrittenFromCurrent ==
  \A f \in Files : disk'[f] # disk[f] =>
    \E p \in Procs : /\ owner[f] = p
                     /\ disk[f] = work[p].base[f]
                     /\ disk'[f] = work[p].mem[f]

\* Every change of a file is such a write (commonio_close is the only call
\* of a tool that writes).
THEOREM ToolsWriteFromCurrent ==
  ASSUME ToolsAssumption PROVE Spec => [][WrittenFromCurrent]_vars
<1>1. ASSUME ToolsInv, [Next]_vars PROVE [WrittenFromCurrent]_vars
  <2>1. CASE UNCHANGED vars
    BY <2>1
  <2>2. CASE \E p \in Procs : Close(p)
    <3>1. PICK p \in Procs : Close(p)
      BY <2>2
    <3> SUFFICES ASSUME NEW f \in Files, disk'[f] # disk[f]
                 PROVE  \E q \in Procs : /\ owner[f] = q
                                         /\ disk[f] = work[q].base[f]
                                         /\ disk'[f] = work[q].mem[f]
      BY DEF WrittenFromCurrent
    <3>2. f = Now(p) /\ work[p].mem[f] # Closed /\ disk'[f] = work[p].mem[f]
      BY <1>1, <3>1 DEF Close, ToolsInv, Shape
    <3> QED BY <1>1, <3>2 DEF ToolsInv, NoLostUpdate
  <2>3. CASE disk' = disk
    BY <2>3 DEF WrittenFromCurrent
  <2> QED
    BY <1>1, <2>1, <2>2, <2>3
    DEF Next, Step, Start, Lookup, Check, Lock, Open, Pick, EditLine, Edit, Unlock, CallFails,
        Killed, UserdelQuits
<1> QED BY <1>1, ToolsInvariant, PTL DEF Spec

(***************************************************************************)
(* No lock is left behind.                                                 *)
(***************************************************************************)
\* A tool that has not locked anything may end at a check (the checks before
\* open_files exit without a clean-up).
Quits == {"check"}

LocksOf(script) == {f \in Files : Call("lock", f) \in Range(script)}

\* The process w, which holds these locks, will give all of them back, even
\* if it fails: each is unlocked later in its script, and by its fail_exit.
\* The groups of useradd -G are looked up with the group files locked only.
GivesBack(held, w) ==
  /\ w.script \in Seq(Calls)
  /\ Balanced(w.script, Quits)
  /\ \A f \in held : Covers(w.script, 1, f, Quits)
  /\ held \cup LocksOf(w.script) \subseteq Range(UnlockOrder(w.job))
  /\ (\E f : Call("lookup", f) \in Range(w.script)) =>
       held \cup LocksOf(w.script) \subseteq Range(GroupFiles)
  /\ w.script # <<>> => "tool" \in DOMAIN w.job

Held(p) == {f \in Files : owner[f] = p}

LocksInv == \A p \in Procs : GivesBack(Held(p), work[p])

\* The lists of files that the scripts are made of.
LEMMA FileLists ==
  /\ GroupFiles \in Seq(Files) /\ Range(GroupFiles) = {"group", "gshadow"}
  /\ <<"passwd">> \in Seq(Files) /\ Range(<<"passwd">>) = {"passwd"}
  /\ <<"shadow">> \in Seq(Files) /\ Range(<<"shadow">>) = {"shadow"}
  /\ <<"group">> \in Seq(Files) /\ Range(<<"group">>) = {"group"}
  /\ <<"gshadow">> \in Seq(Files) /\ Range(<<"gshadow">>) = {"gshadow"}
  /\ <<"passwd", "shadow">> \in Seq(Files) /\ Range(<<"passwd", "shadow">>) = {"passwd", "shadow"}
  /\ <<"shadow", "passwd">> \in Seq(Files) /\ Range(<<"shadow", "passwd">>) = {"passwd", "shadow"}
<1>1. "passwd" \in Files /\ "shadow" \in Files /\ "group" \in Files /\ "gshadow" \in Files
  BY DEF Files
<1> QED
  BY <1>1, Single, Pair DEF GroupFiles

\* No files at all.
LEMMA NoFiles == <<>> \in Seq(Files) /\ Range(<<>>) = {}
BY EmptySeq DEF Range

\* One list of files after another.
LEMMA FilesThen ==
  ASSUME NEW a \in Seq(Files), NEW b \in Seq(Files)
  PROVE  a \o b \in Seq(Files) /\ Range(a \o b) = Range(a) \cup Range(b)
BY ConcatProperties, RangeConcatenation

\* The files that each tool unlocks in fail_exit.
LEMMA UnlockOrders ==
  ASSUME NEW job
  PROVE  /\ UnlockOrder(job) \in Seq(Files)
         /\ Range(UnlockOrder(job)) =
              CASE job.tool \in {"useradd", "usermod", "userdel", "newusers"} -> Files
                [] job.tool = "groupmod" -> {"passwd", "group", "gshadow"}
                [] OTHER -> {"group", "gshadow"}
<1>1. CASE job.tool \in {"useradd", "newusers"}
  <2>1. UnlockOrder(job) = <<"shadow", "passwd">> \o GroupFiles
    BY <1>1 DEF UnlockOrder
  <2> DEFINE a == <<"shadow", "passwd">>
  <2>2. a \in Seq(Files) /\ Range(a) = {"passwd", "shadow"} /\ UnlockOrder(job) = a \o GroupFiles
    BY <2>1, FileLists
  <2>3. GroupFiles \in Seq(Files) /\ Range(GroupFiles) = {"group", "gshadow"}
    BY FileLists
  <2> HIDE DEF a
  <2>4. UnlockOrder(job) \in Seq(Files)
    BY <2>2, <2>3, FilesThen
  <2>5. Range(UnlockOrder(job)) = Range(a) \cup Range(GroupFiles)
    BY <2>2, <2>3, FilesThen
  <2>6. Range(UnlockOrder(job)) = Files
    BY <2>2, <2>3, <2>5 DEF Files
  <2> QED BY <1>1, <2>4, <2>6
<1>2. CASE job.tool = "usermod"
  <2>1. UnlockOrder(job) = Reverse(<<"passwd", "shadow">> \o GroupFiles)
    BY <1>2 DEF UnlockOrder
  <2> DEFINE a == <<"passwd", "shadow">>
             b == a \o GroupFiles
  <2>2. a \in Seq(Files) /\ Range(a) = {"passwd", "shadow"}
    BY FileLists
  <2>3. GroupFiles \in Seq(Files) /\ Range(GroupFiles) = {"group", "gshadow"}
    BY FileLists
  <2>4. UnlockOrder(job) = Reverse(b)
    BY <2>1
  <2> HIDE DEF a
  <2>5. b \in Seq(Files) /\ Range(b) = Range(a) \cup Range(GroupFiles)
    BY <2>2, <2>3, FilesThen
  <2> HIDE DEF b
  <2>6. UnlockOrder(job) \in Seq(Files) /\ Range(UnlockOrder(job)) = Files
    BY <2>2, <2>3, <2>4, <2>5, ReverseCalls DEF Files
  <2> QED BY <1>2, <2>6
<1>3. CASE job.tool = "userdel"
  <2>1. UnlockOrder(job) = <<"passwd", "group", "shadow", "gshadow">>
    BY <1>3 DEF UnlockOrder
  <2>2. UnlockOrder(job) = [i \in 1 .. 4 |-> CASE i = 1 -> "passwd" [] i = 2 -> "group"
                                              [] i = 3 -> "shadow" [] OTHER -> "gshadow"]
    BY <2>1
  <2>3. UnlockOrder(job) \in Seq(Files) /\ Range(UnlockOrder(job)) = Files
    BY <2>2 DEF Files, Range
  <2> QED BY <1>3, <2>3
<1>4. CASE job.tool = "groupmod"
  <2> DEFINE a == <<"passwd">>
             b == Reverse(GroupFiles)
  <2>1. UnlockOrder(job) = a \o b
    BY <1>4 DEF UnlockOrder
  <2>2. a \in Seq(Files) /\ Range(a) = {"passwd"}
    BY FileLists
  <2>4. b \in Seq(Files) /\ Range(b) = {"group", "gshadow"}
    BY FileLists, ReverseCalls
  <2> HIDE DEF a, b
  <2>5. a \o b \in Seq(Files) /\ Range(a \o b) = Range(a) \cup Range(b)
    BY <2>2, <2>4, FilesThen
  <2>3. /\ UnlockOrder(job) \in Seq(Files)
        /\ Range(UnlockOrder(job)) = {"passwd", "group", "gshadow"}
    BY <2>1, <2>2, <2>4, <2>5
  <2> QED BY <1>4, <2>3
<1>5. CASE job.tool \notin {"useradd", "newusers", "usermod", "userdel", "groupmod"}
  <2>1. UnlockOrder(job) = Reverse(GroupFiles)
    BY <1>5 DEF UnlockOrder
  <2>2. UnlockOrder(job) \in Seq(Files) /\ Range(UnlockOrder(job)) = {"group", "gshadow"}
    BY <2>1, FileLists, ReverseCalls
  <2> QED BY <1>5, <2>2
<1> QED BY <1>1, <1>2, <1>3, <1>4, <1>5

\* The script does no other calls than these, and locks no other files.
Does(script, calls, files) ==
  /\ script \in Seq(Calls)
  /\ \A c \in Range(script) : c.do \in calls /\ (c.do = "lock" => c.file \in files)

Working   == {"lock", "open", "pick", "edit", "close", "unlock"}
Finishing == {"close", "unlock"}

\* Two parts of a script, one after the other.
LEMMA DoesThen ==
  ASSUME NEW s, NEW t, NEW calls, NEW files, Does(s, calls, files), Does(t, calls, files)
  PROVE  Does(s \o t, calls, files)
<1>1. s \in Seq(Calls) /\ t \in Seq(Calls)
  BY DEF Does
<1>2. s \o t \in Seq(Calls) /\ Range(s \o t) = Range(s) \cup Range(t)
  BY <1>1, ConcatProperties, RangeConcatenation
<1> QED BY <1>2 DEF Does

\* No call, and a call that is not on a file.
LEMMA DoesNothing == ASSUME NEW calls, NEW files PROVE Does(<<>>, calls, files)
BY EmptySeq DEF Does, Range

LEMMA DoesOne ==
  ASSUME NEW do \in {"lookup", "check", "pick", "edit"}, NEW calls, do \in calls, NEW files
  PROVE  Does(<<Call(do, None)>>, calls, files)
<1>1. Call(do, None) \in Calls
  BY DEF Call, Calls
<1> DEFINE c == Call(do, None)
<1>2. c.do = do /\ c.do # "lock"
  BY DEF Call
<1> HIDE DEF c
<1>3. <<c>> \in Seq(Calls) /\ Range(<<c>>) = {c}
  BY <1>1, Single DEF c
<1>4. Does(<<c>>, calls, files)
  BY <1>2, <1>3 DEF Does
<1> QED BY <1>4 DEF c

\* The same call on each of some files.
LEMMA DoesEach ==
  ASSUME NEW do \in {"lock", "open", "close", "unlock"}, NEW calls, do \in calls, NEW files,
         NEW list \in Seq(Files), do = "lock" => Range(list) \subseteq files
  PROVE  /\ Does(Each(do, list), calls, files)
         /\ \A f \in Range(list) : Call(do, f) \in Range(Each(do, list))
<1>1. \A f \in Files : Call(do, f) \in Calls
  BY DEF Call, Calls
<1>2. /\ Each(do, list) \in Seq(Calls)
      /\ Range(Each(do, list)) = {Call(do, f) : f \in Range(list)}
  BY <1>1, EachCalls
<1> QED BY <1>2 DEF Does, Call

\* Each file locked and opened in its turn.
LEMMA DoesLockAndOpen ==
  ASSUME NEW calls, {"lock", "open"} \subseteq calls, NEW files,
         NEW list \in Seq(Files), Range(list) \subseteq files
  PROVE  Does(LockAndOpen(list), calls, files)
<1>1. \A f \in Files : Call("lock", f) \in Calls /\ Call("open", f) \in Calls
  BY DEF Call, Calls
<1> DEFINE t == EachTwo("lock", "open", list)
<1>2. t \in Seq(Calls)
  BY <1>1, EachTwoCalls
<1>3. \A c : c \in Range(t) <=>
             \E f \in Range(list) : c = Call("lock", f) \/ c = Call("open", f)
  BY <1>1, EachTwoCalls
<1>4. t = LockAndOpen(list)
  BY DEF LockAndOpen
<1> HIDE DEF t
<1> QED BY <1>2, <1>3, <1>4 DEF Does, Call

\* Each file written and unlocked in its turn.
LEMMA DoesCloseAndUnlock ==
  ASSUME NEW calls, {"close", "unlock"} \subseteq calls, NEW files, NEW list \in Seq(Files)
  PROVE  /\ Does(CloseAndUnlock(list), calls, files)
         /\ \A f \in Range(list) : Call("unlock", f) \in Range(CloseAndUnlock(list))
         /\ \A f : Call("close", f) \in Range(CloseAndUnlock(list)) <=> f \in Range(list)
<1>1. \A f \in Files : Call("close", f) \in Calls /\ Call("unlock", f) \in Calls
  BY DEF Call, Calls
<1> DEFINE t == EachTwo("close", "unlock", list)
<1>2. t \in Seq(Calls)
  BY <1>1, EachTwoCalls
<1>3. \A c : c \in Range(t) <=>
             \E f \in Range(list) : c = Call("close", f) \/ c = Call("unlock", f)
  BY <1>1, EachTwoCalls
<1>4. t = CloseAndUnlock(list)
  BY DEF CloseAndUnlock
<1> HIDE DEF t
<1>5. \A f : Call("close", f) \in Range(t) <=> f \in Range(list)
  BY <1>3 DEF Call
<1> QED BY <1>2, <1>3, <1>4, <1>5 DEF Does, Call

\* A script that works, and then unlocks what it has locked.
LEMMA WorkThenUnlock ==
  ASSUME NEW s, NEW t, NEW calls, NEW files, calls \cap {"check", "test"} = {},
         Does(s, calls, files), Does(t, Finishing, {}),
         \A f \in files : Call("unlock", f) \in Range(t)
  PROVE  Balanced(s \o t, Quits) /\ \A f \in files : Covers(t, 1, f, Quits)
<1>1. s \in Seq(Calls) /\ t \in Seq(Calls)
  BY DEF Does
<1>2. \A c \in Range(t) : /\ c.do \notin Quits /\ c.do # "lock"
                          /\ \A f : c # Call("test", f)
  BY DEF Does, Finishing, Quits, Call
<1>3. \A f \in files : Covers(t, 1, f, Quits)
  BY <1>1, <1>2, CoversAll
<1>4. Balanced(t, Quits)
  BY <1>1, <1>2, NoLocksBalanced
<1>5. \A c \in Range(s) : /\ c.do = "lock" => Covers(t, 1, c.file, Quits)
                          /\ c.do \notin Quits
                          /\ \A f : c # Call("test", f)
  BY <1>3 DEF Does, Quits, Call
<1> QED BY <1>1, <1>3, <1>4, <1>5, BalancedAfter

\* The files that usermod and groupmod open.
LEMMA UsermodLists ==
  ASSUME NEW job PROVE UsermodFiles(job) \in Seq(Files)
<1> DEFINE a == <<"passwd">>
           b == IF job.newName # Unset THEN <<"shadow">> ELSE <<>>
           c == IF job.newName # Unset \/ "G" \in job.flags THEN GroupFiles ELSE <<>>
<1>1. a \in Seq(Files) /\ b \in Seq(Files) /\ c \in Seq(Files)
  BY FileLists, NoFiles
<1>2. UsermodFiles(job) = (a \o b) \o c
  BY DEF UsermodFiles
<1> HIDE DEF a, b, c
<1>3. a \o b \in Seq(Files)
  BY <1>1, FilesThen
<1> QED BY <1>1, <1>2, <1>3, FilesThen

\* The files of groupmod (open_files).
LEMMA GroupmodLists ==
  ASSUME NEW job
  PROVE  /\ GroupmodFiles(job) \in Seq(Files)
         /\ Range(GroupmodFiles(job)) \subseteq {"passwd", "group", "gshadow"}
<1> DEFINE a == <<"group">>
           b == IF job.newName # Unset \/ job.users # Unset THEN <<"gshadow">> ELSE <<>>
           c == IF job.gid # 0 THEN <<"passwd">> ELSE <<>>
<1>1. a \in Seq(Files) /\ b \in Seq(Files) /\ c \in Seq(Files)
  BY FileLists, NoFiles
<1>2. Range(a) = {"group"} /\ Range(b) \subseteq {"gshadow"} /\ Range(c) \subseteq {"passwd"}
  BY FileLists, NoFiles
<1>3. GroupmodFiles(job) = (a \o b) \o c
  BY DEF GroupmodFiles
<1> HIDE DEF a, b, c
<1>4. a \o b \in Seq(Files) /\ Range(a \o b) = Range(a) \cup Range(b)
  BY <1>1, FilesThen
<1>5. (a \o b) \o c \in Seq(Files) /\ Range((a \o b) \o c) = Range(a \o b) \cup Range(c)
  BY <1>1, <1>4, FilesThen
<1> QED BY <1>2, <1>3, <1>4, <1>5

\* The lists of two lists that hold all files.
LEMMA AllFiles ==
  LET list == <<"passwd", "shadow">> \o GroupFiles
      back == <<"shadow", "passwd">> \o GroupFiles
  IN  /\ list \in Seq(Files) /\ Range(list) = Files
      /\ back \in Seq(Files) /\ Range(back) = Files
<1> DEFINE a == <<"passwd", "shadow">>
           b == <<"shadow", "passwd">>
<1>1. /\ a \in Seq(Files) /\ Range(a) = {"passwd", "shadow"}
      /\ b \in Seq(Files) /\ Range(b) = {"passwd", "shadow"}
      /\ GroupFiles \in Seq(Files) /\ Range(GroupFiles) = {"group", "gshadow"}
  BY FileLists
<1> HIDE DEF a, b
<1>2. a \o GroupFiles \in Seq(Files) /\ Range(a \o GroupFiles) = Range(a) \cup Range(GroupFiles)
  BY <1>1, FilesThen
<1>3. b \o GroupFiles \in Seq(Files) /\ Range(b \o GroupFiles) = Range(b) \cup Range(GroupFiles)
  BY <1>1, FilesThen
<1>4. Range(a \o GroupFiles) = Files /\ Range(b \o GroupFiles) = Files
  BY <1>1, <1>2, <1>3 DEF Files
<1> QED BY <1>2, <1>3, <1>4 DEF a, b

\* A tool that locks all it will open, edits, and closes and unlocks the
\* files one by one.
LEMMA LockEditClose ==
  ASSUME NEW s, NEW list \in Seq(Files), NEW back \in Seq(Files),
         Range(back) = Range(list), Does(s, Working, Range(list))
  PROVE  LET t == s \o <<EditCall>> \o CloseAndUnlock(back)
         IN  Does(t, Working, Range(list)) /\ Balanced(t, Quits)
<1> DEFINE e == <<EditCall>>
           u == CloseAndUnlock(back)
           files == Range(list)
<1>1. Does(e, Working, files)
  BY DoesOne DEF EditCall, Working
<1>2. /\ Does(u, Working, files) /\ Does(u, Finishing, {})
      /\ \A f \in files : Call("unlock", f) \in Range(u)
  BY DoesCloseAndUnlock DEF Working, Finishing
<1> HIDE DEF e, u, files
<1>3. Does(s \o e, Working, files)
  BY <1>1, DoesThen DEF files
<1>4. Does((s \o e) \o u, Working, files)
  BY <1>2, <1>3, DoesThen
<1>5. Working \cap {"check", "test"} = {}
  BY DEF Working
<1>6. Balanced((s \o e) \o u, Quits)
  BY <1>2, <1>3, <1>5, WorkThenUnlock
<1> QED BY <1>4, <1>6 DEF e, u, files

\* All tools but useradd are like this: locks and opens in turn, or all
\* locks before the first open.
LEMMA InTurn ==
  ASSUME NEW list \in Seq(Files), NEW back \in Seq(Files), Range(back) = Range(list)
  PROVE  LET t == LockAndOpen(list) \o <<EditCall>> \o CloseAndUnlock(back)
         IN  Does(t, Working, Range(list)) /\ Balanced(t, Quits)
<1>1. Does(LockAndOpen(list), Working, Range(list))
  BY DoesLockAndOpen DEF Working
<1> QED BY <1>1, LockEditClose

\* A tool that locks all its files before it opens them.
LEMMA LocksFirst ==
  ASSUME NEW list \in Seq(Files)
  PROVE  LET t == Each("lock", list) \o Each("open", list) \o <<EditCall>>
                    \o CloseAndUnlock(list)
         IN  Does(t, Working, Range(list)) /\ Balanced(t, Quits)
<1>1. Does(Each("lock", list), Working, Range(list)) /\ Does(Each("open", list), Working, Range(list))
  BY DoesEach DEF Working
<1>2. Does(Each("lock", list) \o Each("open", list), Working, Range(list))
  BY <1>1, DoesThen
<1> QED BY <1>2, LockEditClose

\* useradd opens shadow after it has picked the uid.
LEMMA UseraddPays ==
  ASSUME NEW job
  PROVE  Does(UseraddScript(job), Working, Files) /\ Balanced(UseraddScript(job), Quits)
<1> DEFINE first == <<"passwd">> \o GroupFiles
           lock  == LockAndOpen(first)
           pick  == <<Call("pick", None)>>
           shad  == LockAndOpen(<<"shadow">>)
           edit  == <<EditCall>>
           users == Each("close", <<"passwd", "shadow">>)
           group == IF "usergroup" \in job.flags \/ job.groups # {}
                    THEN Each("close", GroupFiles) ELSE <<>>
           back  == <<"shadow", "passwd">> \o GroupFiles
           free  == Each("unlock", back)
           begin == ((((lock \o pick) \o shad) \o edit) \o users) \o group
<1>1. Does(lock, Working, Files)
  <2> DEFINE a == <<"passwd">>
  <2>1. a \in Seq(Files) /\ GroupFiles \in Seq(Files)
    BY FileLists
  <2> HIDE DEF a
  <2>2. a \o GroupFiles \in Seq(Files)
    BY <2>1, FilesThen
  <2>3. first \in Seq(Files)
    BY <2>2 DEF a
  <2> HIDE DEF first
  <2>4. Range(first) \subseteq Files
    BY <2>3, RangeOfSeq
  <2> QED BY <2>3, <2>4, DoesLockAndOpen DEF Working
<1>2. Does(pick, Working, Files) /\ Does(edit, Working, Files)
  BY DoesOne DEF EditCall, Working
<1>3. Does(shad, Working, Files)
  <2> DEFINE a == <<"shadow">>
  <2>1. a \in Seq(Files) /\ Range(a) \subseteq Files
    BY FileLists DEF Files
  <2> HIDE DEF a
  <2>2. Does(LockAndOpen(a), Working, Files)
    BY <2>1, DoesLockAndOpen DEF Working
  <2> QED BY <2>2 DEF a
<1>4. Does(users, Working, Files)
  <2> DEFINE a == <<"passwd", "shadow">>
  <2>1. a \in Seq(Files)
    BY FileLists
  <2> HIDE DEF a
  <2>2. Does(Each("close", a), Working, Files)
    BY <2>1, DoesEach DEF Working
  <2> QED BY <2>2 DEF a
<1>5. Does(group, Working, Files)
  BY FileLists, DoesEach, DoesNothing DEF Working
<1>6. /\ Does(free, Working, Files) /\ Does(free, Finishing, {})
      /\ \A f \in Files : Call("unlock", f) \in Range(free)
  <2>1. back \in Seq(Files) /\ Range(back) = Files
    BY AllFiles
  <2> HIDE DEF back
  <2>2. Does(Each("unlock", back), Working, Files) /\ Does(Each("unlock", back), Finishing, {})
    BY <2>1, DoesEach DEF Working, Finishing
  <2>3. \A f \in Range(back) : Call("unlock", f) \in Range(Each("unlock", back))
    BY <2>1, DoesEach DEF Working
  <2> QED BY <2>1, <2>2, <2>3
<1>7. UseraddScript(job) = begin \o free
  BY DEF UseraddScript
<1> HIDE DEF lock, pick, shad, edit, users, group, free
<1>8. Does(begin, Working, Files)
  <2>1. Does(lock \o pick, Working, Files)
    BY <1>1, <1>2, DoesThen
  <2>2. Does((lock \o pick) \o shad, Working, Files)
    BY <1>3, <2>1, DoesThen
  <2>3. Does(((lock \o pick) \o shad) \o edit, Working, Files)
    BY <1>2, <2>2, DoesThen
  <2>4. Does((((lock \o pick) \o shad) \o edit) \o users, Working, Files)
    BY <1>4, <2>3, DoesThen
  <2> QED BY <1>5, <2>4, DoesThen
<1>9. Working \cap {"check", "test"} = {}
  BY DEF Working
<1> HIDE DEF begin
<1>10. Does(begin \o free, Working, Files) /\ Balanced(begin \o free, Quits)
  BY <1>6, <1>8, <1>9, DoesThen, WorkThenUnlock
<1> QED BY <1>7, <1>10

\* What each tool does after its check: it locks no file that its fail_exit
\* does not unlock.
LEMMA ScriptPays ==
  ASSUME NEW job
  PROVE  /\ Does(Script(job), Working, Range(UnlockOrder(job)))
         /\ Balanced(Script(job), Quits)
<1>0. \A s, a, b : Does(s, Working, a) /\ a \subseteq b => Does(s, Working, b)
  BY DEF Does
<1>1. CASE job.tool = "useradd"
  <2>1. Script(job) = UseraddScript(job) /\ Range(UnlockOrder(job)) = Files
    BY <1>1, UnlockOrders DEF Script
  <2> QED BY <2>1, UseraddPays
<1>2. CASE job.tool = "usermod"
  <2> DEFINE list == UsermodFiles(job)
  <2>1. Script(job) = LockAndOpen(list) \o <<EditCall>> \o CloseAndUnlock(Reverse(list))
    BY <1>2 DEF Script, UsermodScript
  <2>2. Range(UnlockOrder(job)) = Files
    BY <1>2, UnlockOrders
  <2>3. list \in Seq(Files)
    BY UsermodLists
  <2> HIDE DEF list
  <2>4. Range(list) \subseteq Files
    BY <2>3, RangeOfSeq
  <2>5. Reverse(list) \in Seq(Files) /\ Range(Reverse(list)) = Range(list)
    BY <2>3, ReverseCalls
  <2>6. Does(Script(job), Working, Range(list)) /\ Balanced(Script(job), Quits)
    BY <2>1, <2>3, <2>5, InTurn
  <2> QED BY <1>0, <2>2, <2>4, <2>6
<1>3. CASE job.tool = "userdel"
  <2> DEFINE list == <<"passwd", "shadow">> \o GroupFiles
  <2>1. Script(job) = LockAndOpen(list) \o <<EditCall>> \o CloseAndUnlock(list)
    BY <1>3 DEF Script, UserdelScript
  <2>2. Range(UnlockOrder(job)) = Files
    BY <1>3, UnlockOrders
  <2>3. list \in Seq(Files) /\ Range(list) = Files
    BY AllFiles
  <2> HIDE DEF list
  <2>4. Does(Script(job), Working, Range(list)) /\ Balanced(Script(job), Quits)
    BY <2>1, <2>3, InTurn
  <2> QED BY <2>2, <2>3, <2>4
<1>4. CASE job.tool = "groupmod"
  <2> DEFINE list == GroupmodFiles(job)
  <2>1. Script(job) = Each("lock", list) \o Each("open", list) \o <<EditCall>>
                        \o CloseAndUnlock(list)
    BY <1>4 DEF Script, GroupmodScript
  <2>2. Range(UnlockOrder(job)) = {"passwd", "group", "gshadow"}
    BY <1>4, UnlockOrders
  <2>3. list \in Seq(Files) /\ Range(list) \subseteq {"passwd", "group", "gshadow"}
    BY GroupmodLists
  <2> HIDE DEF list
  <2>4. Does(Script(job), Working, Range(list)) /\ Balanced(Script(job), Quits)
    BY <2>1, <2>3, LocksFirst
  <2> QED BY <1>0, <2>2, <2>3, <2>4
<1>5. CASE job.tool \notin {"useradd", "usermod", "userdel", "groupmod"}
  <2> DEFINE list == GroupFiles
  <2>1. Script(job) = Each("lock", list) \o Each("open", list) \o <<EditCall>>
                        \o CloseAndUnlock(list)
    BY <1>5 DEF Script, GroupScript
  <2>2. {"group", "gshadow"} \subseteq Range(UnlockOrder(job))
    BY <1>5, UnlockOrders DEF Files
  <2>3. list \in Seq(Files) /\ Range(list) = {"group", "gshadow"}
    BY FileLists
  <2> HIDE DEF list
  <2>4. Does(Script(job), Working, Range(list)) /\ Balanced(Script(job), Quits)
    BY <2>1, <2>3, LocksFirst
  <2> QED BY <1>0, <2>2, <2>3, <2>4
<1> QED BY <1>1, <1>2, <1>3, <1>4, <1>5

\* The calls before the check.
Preparing == Working \cup {"lookup", "check"}

\* useradd -G looks the groups up with the group files locked, unlocks them,
\* and only then checks.
LEMMA LookupPays ==
  LET t == LockAndOpen(GroupFiles) \o <<Call("lookup", None)>> \o Each("unlock", GroupFiles)
             \o <<CheckCall>>
  IN  Does(t, Preparing, Range(GroupFiles)) /\ Balanced(t, Quits)
<1> DEFINE lock  == LockAndOpen(GroupFiles)
           look  == <<Call("lookup", None)>>
           free  == Each("unlock", GroupFiles)
           check == <<CheckCall>>
           files == Range(GroupFiles)
           early == Working \cup {"lookup"}
<1>1. Does(lock, Preparing, files) /\ Does(lock, early, files)
  BY FileLists, DoesLockAndOpen DEF Preparing, Working
<1>2. Does(look, Preparing, files) /\ Does(look, early, files)
  BY DoesOne DEF Preparing
<1>3. /\ Does(free, Preparing, files) /\ Does(free, Finishing, {})
      /\ \A f \in files : Call("unlock", f) \in Range(free)
  BY FileLists, DoesEach DEF Preparing, Working, Finishing
<1>4. Does(check, Preparing, files) /\ Does(check, {"check"}, {})
  BY DoesOne DEF CheckCall, Preparing
<1> HIDE DEF lock, look, free, check, files
<1>5. Does(lock \o look, Preparing, files) /\ Does(lock \o look, early, files)
  BY <1>1, <1>2, DoesThen
<1>6. Does((lock \o look) \o free, Preparing, files)
  BY <1>3, <1>5, DoesThen
<1>7. Does(((lock \o look) \o free) \o check, Preparing, files)
  BY <1>4, <1>6, DoesThen
<1>8. Balanced((lock \o look) \o free, Quits)
  BY <1>3, <1>5, WorkThenUnlock DEF Working
<1>9. Balanced(((lock \o look) \o free) \o check, Quits)
  <2>1. \A c \in Range(check) : c.do # "lock"
    BY <1>4 DEF Does
  <2>2. (lock \o look) \o free \in Seq(Calls) /\ check \in Seq(Calls)
    BY <1>4, <1>6 DEF Does
  <2> DEFINE s == (lock \o look) \o free
  <2> HIDE DEF s
  <2>3. s \in Seq(Calls) /\ Balanced(s, Quits)
    BY <1>8, <2>2 DEF s
  <2>4. Balanced(s \o check, Quits)
    BY <2>1, <2>2, <2>3, BalancedThen
  <2> QED BY <2>4 DEF s
<1> QED BY <1>7, <1>9 DEF lock, look, free, check, files

\* The calls that a tool starts with.
LEMMA PreludePays ==
  ASSUME NEW job
  PROVE  /\ Does(Prelude(job), Preparing, Range(UnlockOrder(job)))
         /\ Balanced(Prelude(job), Quits)
         /\ \/ Does(Prelude(job), Working \cup {"check"}, Files)
            \/ Does(Prelude(job), Preparing, Range(GroupFiles))
<1>0. \A s, x, y, a, b : Does(s, x, a) /\ x \subseteq y /\ a \subseteq b => Does(s, y, b)
  BY DEF Does
<1>1. CASE job.tool = "newusers"
  <2> DEFINE list == NewusersFiles
  <2>1. Prelude(job) = Each("lock", list) \o Each("open", list) \o <<EditCall>>
                         \o CloseAndUnlock(list)
    BY <1>1 DEF Prelude, NewusersScript
  <2>2. Range(UnlockOrder(job)) = Files
    BY <1>1, UnlockOrders
  <2>3. list \in Seq(Files) /\ Range(list) = Files
    BY AllFiles DEF NewusersFiles
  <2> HIDE DEF list
  <2>4. Does(Prelude(job), Working, Files) /\ Balanced(Prelude(job), Quits)
    BY <2>1, <2>3, LocksFirst
  <2> QED BY <1>0, <2>2, <2>4 DEF Preparing
<1> DEFINE check == <<CheckCall>>
<1>2. Does(check, {"check"}, {})
  BY DoesOne DEF CheckCall
<1>3. check \in Seq(Calls) /\ Balanced(check, Quits)
  BY <1>2, NoLocksBalanced DEF Does
<1>4. CASE job.tool # "newusers" /\ (job.tool # "useradd" \/ job.groups = {})
  <2>1. Prelude(job) = check
    <3>1. Prelude(job) \in {check, <<>> \o check}
      BY <1>4 DEF Prelude
    <3> HIDE DEF check
    <3>2. <<>> \o check = check
      BY <1>3, ConcatEmptySeq
    <3> QED BY <3>1, <3>2
  <2> HIDE DEF check
  <2> QED BY <1>0, <1>2, <1>3, <2>1 DEF Preparing
<1>5. CASE job.tool = "useradd" /\ job.groups # {}
  <2>1. Prelude(job) = LockAndOpen(GroupFiles) \o <<Call("lookup", None)>>
                         \o Each("unlock", GroupFiles) \o <<CheckCall>>
    BY <1>5 DEF Prelude
  <2>2. Does(Prelude(job), Preparing, Range(GroupFiles)) /\ Balanced(Prelude(job), Quits)
    BY <2>1, LookupPays
  <2>3. Range(GroupFiles) \subseteq Range(UnlockOrder(job))
    BY <1>5, UnlockOrders, FileLists DEF Files
  <2> QED BY <1>0, <2>2, <2>3
<1> QED BY <1>1, <1>4, <1>5

\* A process that has ended has given back everything.
LEMMA EndedGivesBack ==
  ASSUME NEW held, NEW w, GivesBack(held, w), w.script = <<>>
  PROVE  held = {}
BY DEF GivesBack, Covers

\* Nobody has a lock before main.
LEMMA IdleGivesBack == GivesBack({}, Idle)
<1>1. Idle.script = <<>>
  BY DEF Idle
<1>2. <<>> \in Seq(Calls) /\ Range(<<>>) = {} /\ Balanced(<<>>, Quits)
  BY EmptySeq DEF Range, Balanced
<1> QED BY <1>1, <1>2 DEF GivesBack, LocksOf

\* The next call is made: it may add its file to those locked, and an unlock
\* takes it away.
LEMMA ProceedGivesBack ==
  ASSUME NEW held, NEW w, GivesBack(held, w), w.script # <<>>,
         NEW new, NEW v, v.script = Tail(w.script), v.job.tool = w.job.tool,
         "tool" \in DOMAIN v.job,
         \A f \in new : f \in held \/ (f \in Files /\ Head(w.script) = Call("lock", f)),
         \A f \in new : Head(w.script) # Call("unlock", f)
  PROVE  GivesBack(new, v)
<1> DEFINE s == w.script
<1>1. s \in Seq(Calls) /\ s # <<>> /\ Balanced(s, Quits)
  BY DEF GivesBack
<1>2. Head(s) \in Calls /\ Tail(s) \in Seq(Calls) /\ Len(Tail(s)) = Len(s) - 1
  BY <1>1, HeadTailProperties
<1>3. Head(s) \in Range(s) /\ Range(Tail(s)) \subseteq Range(s)
  BY <1>1, <1>2, HeadTailProperties, LenProperties DEF Range
<1>4. /\ Balanced(Tail(s), Quits)
      /\ Head(s).do = "lock" => Covers(Tail(s), 1, Head(s).file, Quits)
  BY <1>1, BalancedTail
<1>5. ASSUME NEW f \in new PROVE Covers(Tail(s), 1, f, Quits)
  <2>1. CASE f \in held
    <3>1. Covers(s, 1, f, Quits)
      BY <2>1 DEF GivesBack
    <3> QED BY <1>1, <1>5, <3>1, CoversTail
  <2>2. CASE Head(s) = Call("lock", f)
    BY <1>4, <2>2 DEF Call
  <2> QED BY <1>5, <2>1, <2>2
<1>6. new \cup LocksOf(Tail(s)) \subseteq held \cup LocksOf(s)
  BY <1>3 DEF LocksOf
<1>7. UnlockOrder(v.job) = UnlockOrder(w.job)
  BY DEF UnlockOrder
<1> HIDE DEF s
<1>8. (\E f : Call("lookup", f) \in Range(Tail(s))) => (\E f : Call("lookup", f) \in Range(s))
  BY <1>3
<1>9. /\ held \cup LocksOf(s) \subseteq Range(UnlockOrder(w.job))
      /\ (\E f : Call("lookup", f) \in Range(s)) =>
           held \cup LocksOf(s) \subseteq Range(GroupFiles)
  BY DEF GivesBack, s
<1>10. v.script = Tail(s)
  BY DEF s
<1>11. new \cup LocksOf(v.script) \subseteq Range(UnlockOrder(v.job))
  BY <1>6, <1>7, <1>9, <1>10
<1>12. (\E f : Call("lookup", f) \in Range(v.script)) =>
         new \cup LocksOf(v.script) \subseteq Range(GroupFiles)
  BY <1>6, <1>8, <1>9, <1>10
<1> QED BY <1>2, <1>4, <1>5, <1>10, <1>11, <1>12 DEF GivesBack

\* fail_exit gives back all that is held.
LEMMA FailGivesBack ==
  ASSUME NEW p, GivesBack(Held(p), work[p]), NEW v, v.job = work[p].job,
         work[p].script # <<>>,
         v.script = UnlockHeld(UnlockOrder(work[p].job), owner, p)
  PROVE  GivesBack(Held(p), v)
<1> DEFINE s == v.script
           order == UnlockOrder(work[p].job)
<1>1. order \in Seq(Files)
  BY UnlockOrders
<1>2. \A f \in Files : Call("unlock", f) \in Calls
  BY DEF Call, Calls
<1> HIDE DEF order
<1>3. /\ s \in Seq(Calls)
      /\ \A c \in Range(s) : c.do = "unlock"
      /\ Balanced(s, Quits)
      /\ \A f \in Range(order) : owner[f] = p => Covers(s, 1, f, Quits)
  <2>1. "unlock" \notin Quits
    BY DEF Quits
  <2>2. v.script = UnlockHeld(order, owner, p)
    BY DEF order
  <2> QED BY <1>1, <1>2, <2>1, <2>2, UnlockHeldCalls
<1>4. Held(p) \subseteq Range(order)
  BY DEF GivesBack, order
<1>5. \A f \in Held(p) : Covers(s, 1, f, Quits)
  BY <1>3, <1>4 DEF Held
<1>6. LocksOf(s) = {} /\ ~ \E f : Call("lookup", f) \in Range(s)
  BY <1>3 DEF LocksOf, Call
<1>7. "tool" \in DOMAIN v.job /\ UnlockOrder(v.job) = order
  BY DEF GivesBack, order
<1> HIDE DEF s
<1> QED BY <1>3, <1>4, <1>5, <1>6, <1>7 DEF GivesBack, s

\* A step of p that leaves the locks of the others alone.
LEMMA StepLocks ==
  ASSUME Shape, LocksInv, NEW p \in Procs, NEW v, IsWork(v), Becomes(p, v),
         \A q \in Procs \ {p}, f \in Files : owner'[f] = q <=> owner[f] = q,
         GivesBack(Held(p)', v)
  PROVE  LocksInv'
<1>1. /\ work'[p] = IF v.script = <<>> THEN Idle ELSE v
      /\ \A q \in Procs \ {p} : work'[q] = work[q]
  BY DEF Becomes, Shape
<1>2. ASSUME NEW q \in Procs, q # p PROVE GivesBack(Held(q)', work'[q])
  <2>1. Held(q)' = Held(q)
    BY <1>2 DEF Held
  <2> QED BY <1>1, <1>2, <2>1 DEF LocksInv
<1>3. GivesBack(Held(p)', work'[p])
  <2>1. CASE v.script = <<>>
    BY <1>1, <2>1, EndedGivesBack, IdleGivesBack
  <2>2. CASE v.script # <<>>
    BY <1>1, <2>2
  <2> QED BY <2>1, <2>2
<1> QED BY <1>2, <1>3 DEF LocksInv

\* The next call.
LEMMA ProceedLocks ==
  ASSUME Shape, LocksInv, NEW p \in Procs, work[p].script # <<>>,
         NEW v, IsWork(v), Proceed(p, v), v.script = work[p].script,
         v.job.tool = work[p].job.tool, "tool" \in DOMAIN v.job,
         \A q \in Procs \ {p}, f \in Files : owner'[f] = q <=> owner[f] = q,
         \A f \in Files : owner'[f] = p =>
           /\ owner[f] = p \/ Head(work[p].script) = Call("lock", f)
           /\ Head(work[p].script) # Call("unlock", f)
  PROVE  LocksInv'
<1> DEFINE u == [v EXCEPT !.script = Tail(@)]
<1>1. Becomes(p, u)
  BY DEF Proceed
<1>2. IsWork(u)
  BY NewScript
<1>3. u.script = Tail(v.script) /\ u.job = v.job
  BY DEF IsWork
<1> HIDE DEF u
<1>4. GivesBack(Held(p), work[p])
  BY DEF LocksInv
<1>5. \A f \in Held(p)' : /\ f \in Held(p) \/ (f \in Files /\ Head(work[p].script) = Call("lock", f))
                          /\ Head(work[p].script) # Call("unlock", f)
  BY DEF Held
<1>6. GivesBack(Held(p)', u)
  BY <1>3, <1>4, <1>5, ProceedGivesBack
<1> QED BY <1>1, <1>2, <1>6, StepLocks

\* fail_exit.
LEMMA FailLocks ==
  ASSUME Shape, LocksInv, NEW p \in Procs, work[p].script # <<>>, FailExit(p), owner' = owner
  PROVE  LocksInv'
<1>1. PICK s : s = UnlockHeld(UnlockOrder(work[p].job), owner, p)
  OBVIOUS
<1> DEFINE v == [work[p] EXCEPT !.script = s]
<1>2. Becomes(p, v)
  BY <1>1 DEF FailExit
<1>3. IsWork(work[p])
  BY ProcWork
<1>4. IsWork(v)
  BY <1>3, NewScript
<1>5. v.script = s /\ v.job = work[p].job
  BY <1>3 DEF IsWork
<1> HIDE DEF v
<1>6. Held(p)' = Held(p)
  BY DEF Held
<1>7. GivesBack(Held(p), work[p])
  BY DEF LocksInv
<1>8. GivesBack(Held(p)', v)
  BY <1>1, <1>5, <1>6, <1>7, FailGivesBack
<1> QED BY <1>2, <1>4, <1>8, StepLocks

\* The checks keep the tool.
LEMMA CheckedKeepsTool ==
  ASSUME NEW job, "tool" \in DOMAIN job, NEW j \in Checked(job)
  PROVE  "tool" \in DOMAIN j /\ j.tool = job.tool
<1>1. CASE job.tool = "useradd"
  BY <1>1 DEF Checked, UseraddChecked
<1>2. CASE job.tool = "usermod"
  BY <1>2 DEF Checked, UsermodChecked
<1>3. CASE job.tool = "userdel"
  BY <1>3 DEF Checked, UserdelChecked
<1>4. CASE job.tool = "groupadd"
  BY <1>4 DEF Checked, GroupaddChecked
<1>5. CASE job.tool = "groupdel"
  BY <1>5 DEF Checked, GroupdelChecked
<1>6. CASE job.tool \notin {"useradd", "usermod", "userdel", "groupadd", "groupdel"}
  BY <1>6 DEF Checked, GroupmodChecked
<1> QED BY <1>1, <1>2, <1>3, <1>4, <1>5, <1>6

\* What a tool starts with, and what it goes on with, gives everything back.
LEMMA PreludeGivesBack ==
  ASSUME NEW v, v.script = Prelude(v.job), "tool" \in DOMAIN v.job
  PROVE  GivesBack({}, v)
<1>1. /\ Does(v.script, Preparing, Range(UnlockOrder(v.job)))
      /\ Balanced(v.script, Quits)
      /\ \/ Does(v.script, Working \cup {"check"}, Files)
         \/ Does(v.script, Preparing, Range(GroupFiles))
  BY PreludePays
<1>2. LocksOf(v.script) \subseteq Range(UnlockOrder(v.job))
  BY <1>1 DEF LocksOf, Does, Call
<1>3. ASSUME NEW f, Call("lookup", f) \in Range(v.script)
      PROVE  LocksOf(v.script) \subseteq Range(GroupFiles)
  <2>1. ~ Does(v.script, Working \cup {"check"}, Files)
    BY <1>3 DEF Does, Call, Working
  <2> QED BY <1>1, <2>1 DEF LocksOf, Does, Call
<1> QED BY <1>1, <1>2, <1>3 DEF GivesBack, Does

\* What a tool does after its checks without a lock.
LEMMA ScriptGivesBack ==
  ASSUME NEW v, v.script = Script(v.job), "tool" \in DOMAIN v.job
  PROVE  GivesBack({}, v)
<1>1. Does(v.script, Working, Range(UnlockOrder(v.job))) /\ Balanced(v.script, Quits)
  BY ScriptPays
<1>2. LocksOf(v.script) \subseteq Range(UnlockOrder(v.job))
  BY <1>1 DEF LocksOf, Does, Call
<1>3. ~ \E f : Call("lookup", f) \in Range(v.script)
  BY <1>1 DEF Does, Call, Working
<1> QED BY <1>1, <1>2, <1>3 DEF GivesBack, Does

\* The call that a process makes, and whether there is one.
LEMMA CallNow ==
  ASSUME LocksInv, NEW p \in Procs, NEW do, Doing(p, do)
  PROVE  /\ work[p].script # <<>> /\ "tool" \in DOMAIN work[p].job
         /\ Head(work[p].script) = Call(do, Now(p))
<1>1. work[p].script # <<>> /\ Head(work[p].script).do = do
  BY DEF Doing
<1>2. work[p].script \in Seq(Calls) /\ "tool" \in DOMAIN work[p].job
  BY <1>1 DEF LocksInv, GivesBack
<1>3. Head(work[p].script) \in Calls
  BY <1>1, <1>2, HeadTailProperties
<1> QED BY <1>1, <1>2, <1>3 DEF Calls, Call, Now

\* A call that neither locks nor unlocks.
LEMMA ProceedUnlocked ==
  ASSUME Shape, LocksInv, NEW p \in Procs, NEW do, Doing(p, do), do # "unlock",
         NEW v, IsWork(v), Proceed(p, v), v.script = work[p].script,
         v.job.tool = work[p].job.tool, "tool" \in DOMAIN v.job, owner' = owner
  PROVE  LocksInv'
<1>1. work[p].script # <<>> /\ Head(work[p].script) = Call(do, Now(p))
  BY CallNow
<1>2. \A f : Call(do, Now(p)) # Call("unlock", f)
  BY DEF Call
<1> QED BY <1>1, <1>2, ProceedLocks

\* Nothing is locked at a check, and only the group files at a lookup.
LEMMA NoneAtCheck ==
  ASSUME LocksInv, NEW p \in Procs, Doing(p, "check") PROVE Held(p) = {}
<1>1. work[p].script \in Seq(Calls) /\ \A f \in Held(p) : Covers(work[p].script, 1, f, Quits)
  BY DEF LocksInv, GivesBack
<1>2. \A f \in Held(p) : Head(work[p].script).do \notin Quits
  BY <1>1, CoversTail
<1> QED BY <1>2 DEF Doing, Quits

\* useradd that does not find the groups of -G ends by unlocking.
LEMMA LookupFails ==
  ASSUME LocksInv, NEW p \in Procs, Doing(p, "lookup"),
         NEW v, v.job = work[p].job, v.script = Each("unlock", GroupFiles)
  PROVE  GivesBack(Held(p), v)
<1> DEFINE s == work[p].script
           t == Each("unlock", GroupFiles)
<1>1. s # <<>> /\ "tool" \in DOMAIN work[p].job /\ Head(s) = Call("lookup", Now(p))
  BY CallNow
<1>2. s \in Seq(Calls) /\ Head(s) \in Range(s)
  <2>1. s \in Seq(Calls)
    BY DEF LocksInv, GivesBack
  <2> QED BY <1>1, <2>1, LenProperties DEF Range
<1>3. Held(p) \subseteq Range(GroupFiles) /\ Held(p) \subseteq Range(UnlockOrder(v.job))
  BY <1>1, <1>2 DEF LocksInv, GivesBack
<1>4. Does(t, Finishing, {}) /\ \A f \in Range(GroupFiles) : Call("unlock", f) \in Range(t)
  BY FileLists, DoesEach DEF Finishing
<1> HIDE DEF t
<1>5. t \in Seq(Calls) /\ \A c \in Range(t) : /\ c.do \notin Quits /\ c.do # "lock"
                                              /\ \A f : c # Call("test", f) /\ c # Call("lookup", f)
  BY <1>4 DEF Does, Finishing, Quits, Call
<1>6. Balanced(t, Quits)
  BY <1>5, NoLocksBalanced
<1>7. ASSUME NEW f \in Held(p) PROVE Covers(t, 1, f, Quits)
  <2>1. Call("unlock", f) \in Range(t)
    BY <1>3, <1>4
  <2> QED BY <1>5, <2>1, CoversAll
<1>8. LocksOf(t) = {} /\ ~ \E f : Call("lookup", f) \in Range(t)
  BY <1>5 DEF LocksOf, Call
<1>9. v.script = t
  BY DEF t
<1> QED BY <1>1, <1>3, <1>5, <1>6, <1>7, <1>8, <1>9 DEF GivesBack

\* No step of a tool, nor its death, leaves a lock that nobody gives back.
LEMMA LocksStep ==
  ASSUME ToolsAssumption, Shape, LocksInv, [Next]_vars PROVE LocksInv'
<1>1. CASE UNCHANGED vars
  BY <1>1 DEF vars, LocksInv, Held
<1>2. CASE Next
  <2>1. PICK p \in Procs : Start(p) \/ Step(p) \/ Killed(p)
    BY <1>2, QuitIsDeath DEF Next
  <2> DEFINE w == work[p]
  <2>2. IsWork(w)
    BY ProcWork
  <2>3. CASE Start(p)
    <3>1. PICK job \in Jobs : Becomes(p, [Idle EXCEPT !.job = job, !.script = Prelude(job)])
      BY <2>3 DEF Start
    <3>2. PICK script : script = Prelude(job)
      OBVIOUS
    <3> DEFINE v == [Idle EXCEPT !.job = job, !.script = script]
    <3>3. IsWork(v) /\ v.job = job /\ v.script = script
      BY DEF Idle, IsWork
    <3>4. Becomes(p, v)
      BY <3>1, <3>2
    <3> HIDE DEF v
    <3>5. "tool" \in DOMAIN job
      BY ToolsAssumption DEF ToolsAssumption, Job
    <3>6. GivesBack({}, v)
      BY <3>2, <3>3, <3>5, PreludeGivesBack
    <3>7. Held(p) = {}
      <4>1. w = Idle
        BY <2>3 DEF Start
      <4> QED BY <4>1, EndedGivesBack DEF LocksInv, Idle
    <3>8. owner' = owner /\ Held(p)' = {}
      BY <2>3, <3>7 DEF Start, Held
    <3> QED BY <3>3, <3>4, <3>6, <3>8, StepLocks
  <2>4. CASE Lookup(p)
    <3>1. Doing(p, "lookup") /\ owner' = owner
      BY <2>4 DEF Lookup
    <3>2. CASE Proceed(p, w)
      <4>1. "tool" \in DOMAIN w.job
        BY <3>1, CallNow
      <4> QED BY <2>2, <3>1, <3>2, <4>1, ProceedUnlocked
    <3>3. CASE Becomes(p, [w EXCEPT !.script = Each("unlock", GroupFiles)])
      <4>1. PICK script : script = Each("unlock", GroupFiles)
        OBVIOUS
      <4> DEFINE v == [w EXCEPT !.script = script]
      <4>2. IsWork(v)
        BY <2>2, NewScript
      <4>3. v.script = script /\ v.job = w.job
        BY <2>2 DEF IsWork
      <4>4. Becomes(p, v)
        BY <3>3, <4>1
      <4> HIDE DEF v
      <4>5. GivesBack(Held(p), v)
        BY <3>1, <4>1, <4>3, LookupFails
      <4>6. Held(p)' = Held(p)
        BY <3>1 DEF Held
      <4> QED BY <3>1, <4>2, <4>4, <4>5, <4>6, StepLocks
    <3> QED BY <2>4, <3>2, <3>3 DEF Lookup
  <2>5. CASE Check(p)
    <3>1. Doing(p, "check") /\ owner' = owner
      BY <2>5 DEF Check
    <3>2. Held(p) = {} /\ Held(p)' = {}
      <4>1. Held(p)' = Held(p)
        BY <3>1 DEF Held
      <4> QED BY <3>1, <4>1, NoneAtCheck
    <3>3. CASE Becomes(p, Idle)
      BY <3>1, <3>2, <3>3, IdleIsClosed, IdleGivesBack, StepLocks
    <3>4. CASE \E job \in Checked(w.job) :
                 Becomes(p, [w EXCEPT !.job = job, !.script = Script(job)])
      <4>1. PICK job \in Checked(w.job) :
                 Becomes(p, [w EXCEPT !.job = job, !.script = Script(job)])
        BY <3>4
      <4>2. PICK script : script = Script(job)
        OBVIOUS
      <4> DEFINE v == [w EXCEPT !.job = job, !.script = script]
      <4>3. IsWork(v)
        BY <2>2, NewJob
      <4>4. v.script = script /\ v.job = job
        BY <2>2 DEF IsWork
      <4>5. Becomes(p, v)
        BY <4>1, <4>2
      <4> HIDE DEF v
      <4>6. "tool" \in DOMAIN job
        BY <3>1, CallNow, CheckedKeepsTool
      <4>7. GivesBack({}, v)
        BY <4>2, <4>4, <4>6, ScriptGivesBack
      <4> QED BY <3>1, <3>2, <4>3, <4>5, <4>7, StepLocks
    <3> QED BY <2>5, <3>3, <3>4 DEF Check
  <2>6. CASE Lock(p)
    <3>1. /\ Doing(p, "lock") /\ owner[Now(p)] = None /\ Proceed(p, w)
          /\ owner' = [owner EXCEPT ![Now(p)] = p]
      BY <2>6 DEF Lock
    <3>2. /\ w.script # <<>> /\ "tool" \in DOMAIN w.job
          /\ Head(w.script) = Call("lock", Now(p))
      BY <3>1, CallNow
    <3>3. \A q \in Procs \ {p}, f \in Files : owner'[f] = q <=> owner[f] = q
      BY <3>1, ToolsAssumption DEF ToolsAssumption, Shape
    <3>4. \A f \in Files : owner'[f] = p =>
            /\ owner[f] = p \/ Head(w.script) = Call("lock", f)
            /\ Head(w.script) # Call("unlock", f)
      BY <3>1, <3>2 DEF Shape, Call
    <3> QED BY <2>2, <3>1, <3>2, <3>3, <3>4, ProceedLocks
  <2>7. CASE Open(p)
    <3>1. PICK n, c : n = Now(p) /\ c = disk[n]
      OBVIOUS
    <3> DEFINE v == [w EXCEPT !.mem[n] = c, !.base[n] = c]
    <3>2. Doing(p, "open") /\ owner' = owner /\ Proceed(p, v)
      BY <2>7, <3>1 DEF Open
    <3>3. IsWork(v)
      BY <2>2, NewCopy
    <3>4. v.script = w.script /\ v.job = w.job
      BY <2>2 DEF IsWork
    <3> HIDE DEF v
    <3>5. "tool" \in DOMAIN w.job
      BY <3>2, CallNow
    <3> QED BY <3>2, <3>3, <3>4, <3>5, ProceedUnlocked
  <2>8. CASE Pick(p)
    <3>1. Doing(p, "pick") /\ owner' = owner
      BY <2>8 DEF Pick
    <3>2. w.script # <<>> /\ "tool" \in DOMAIN w.job
      BY <3>1, CallNow
    <3>3. CASE FailExit(p)
      BY <3>1, <3>2, <3>3, FailLocks
    <3>4. CASE \E uid : Proceed(p, [w EXCEPT !.job.uid = uid])
      <4>1. PICK uid : Proceed(p, [w EXCEPT !.job.uid = uid])
        BY <3>4
      <4> DEFINE v == [w EXCEPT !.job.uid = uid]
      <4>2. v = [job |-> [w.job EXCEPT !.uid = uid], script |-> w.script, mem |-> w.mem,
                 base |-> w.base, written |-> w.written]
        BY <2>2 DEF IsWork
      <4>3. IsWork(v) /\ v.script = w.script
        BY <2>2, <4>2 DEF IsWork
      <4>4. v.job.tool = w.job.tool /\ "tool" \in DOMAIN v.job
        BY <3>2, <4>2
      <4>5. Proceed(p, v)
        BY <4>1
      <4> HIDE DEF v
      <4> QED BY <3>1, <4>3, <4>4, <4>5, ProceedUnlocked
    <3> QED BY <2>8, <3>3, <3>4 DEF Pick
  <2>9. CASE Edit(p)
    <3>1. Doing(p, "edit") /\ owner' = owner
      BY <2>9 DEF Edit
    <3>2. w.script # <<>> /\ "tool" \in DOMAIN w.job
      BY <3>1, CallNow
    <3>3. CASE FailExit(p)
      BY <3>1, <3>2, <3>3, FailLocks
    <3>4. CASE \E mem \in Edited(w.job, w.mem) : Proceed(p, [w EXCEPT !.mem = mem])
      <4>1. PICK mem \in Edited(w.job, w.mem) : Proceed(p, [w EXCEPT !.mem = mem])
        BY <3>4
      <4>2. mem = [f \in Files |-> mem[f]]
        BY <2>2, EditsKeepFiles DEF Edited, IsWork
      <4> DEFINE v == [w EXCEPT !.mem = mem]
      <4>3. v = [job |-> w.job, script |-> w.script, mem |-> mem,
                 base |-> w.base, written |-> w.written]
        BY <2>2 DEF IsWork
      <4>4. IsWork(v) /\ v.script = w.script /\ v.job = w.job
        BY <2>2, <4>2, <4>3 DEF IsWork
      <4>5. Proceed(p, v)
        BY <4>1
      <4> HIDE DEF v
      <4> QED BY <3>1, <3>2, <4>4, <4>5, ProceedUnlocked
    <3> QED BY <2>9, <3>3, <3>4 DEF Edit
  <2>14. CASE EditLine(p)
    <3>1. Doing(p, "edit") /\ owner' = owner
      BY <2>14 DEF EditLine
    <3>2. w.script # <<>> /\ "tool" \in DOMAIN w.job
      BY <3>1, CallNow
    <3>3. CASE FailExit(p)
      BY <3>1, <3>2, <3>3, FailLocks
    <3> DEFINE line == Head(w.job.lines)
    <3>4. CASE \E mem \in AddLine(line, w.mem, w.job) :
                 Becomes(p, [w EXCEPT !.mem = mem, !.job = LineRead(@)])
      <4>1. PICK mem \in AddLine(line, w.mem, w.job) :
                 Becomes(p, [w EXCEPT !.mem = mem, !.job = LineRead(@)])
        BY <3>4
      <4>2. mem = [f \in Files |-> mem[f]]
        BY <2>2, LinesKeepFiles DEF IsWork
      <4>3. PICK job : job = LineRead(w.job)
        OBVIOUS
      <4> DEFINE v == [w EXCEPT !.mem = mem, !.job = job]
      <4>4. IsWork(v) /\ v.script = w.script /\ v.job = job
        <5> HIDE DEF w
        <5> QED BY <2>2, <4>2 DEF IsWork
      <4>5. Becomes(p, v)
        BY <4>1, <4>3
      <4> HIDE DEF v
      <4>6. v.job.tool = w.job.tool /\ "tool" \in DOMAIN v.job
        BY <3>2, <4>3, <4>4 DEF LineRead
      <4>7. GivesBack(Held(p)', v)
        <5>1. GivesBack(Held(p), w) /\ Held(p)' = Held(p)
          BY <3>1 DEF LocksInv, Held
        <5>2. UnlockOrder(v.job) = UnlockOrder(w.job)
          BY <4>6 DEF UnlockOrder
        <5> QED BY <4>4, <4>6, <5>1, <5>2 DEF GivesBack
      <4> QED BY <3>1, <4>4, <4>5, <4>7, StepLocks
    <3> QED BY <2>14, <3>3, <3>4 DEF EditLine
  <2>10. CASE Close(p)
    <3> DEFINE v == [w EXCEPT !.mem[Now(p)] = Closed, !.written = @ \cup {Now(p)}]
    <3>1. Doing(p, "close") /\ owner' = owner /\ Proceed(p, v)
      BY <2>10 DEF Close
    <3>2. IsWork(v)
      BY <2>2, CopyWritten
    <3>3. v.script = w.script /\ v.job = w.job
      BY <2>2 DEF IsWork
    <3> HIDE DEF v
    <3>4. "tool" \in DOMAIN w.job
      BY <3>1, CallNow
    <3> QED BY <3>1, <3>2, <3>3, <3>4, ProceedUnlocked
  <2>11. CASE Unlock(p)
    <3> DEFINE v == [w EXCEPT !.mem[Now(p)] = Closed]
    <3>1. /\ Doing(p, "unlock") /\ Proceed(p, v)
          /\ owner' = [owner EXCEPT ![Now(p)] = IF @ = p THEN None ELSE @]
      BY <2>11 DEF Unlock
    <3>2. v = [job |-> w.job, script |-> w.script,
               mem |-> [w.mem EXCEPT ![Now(p)] = Closed],
               base |-> w.base, written |-> w.written]
      BY <2>2 DEF IsWork
    <3>3. IsWork(v) /\ v.script = w.script /\ v.job = w.job
      BY <2>2, <3>2 DEF IsWork
    <3> HIDE DEF v
    <3>4. /\ w.script # <<>> /\ "tool" \in DOMAIN w.job
          /\ Head(w.script) = Call("unlock", Now(p))
      BY <3>1, CallNow
    <3>5. \A q \in Procs \ {p}, f \in Files : owner'[f] = q <=> owner[f] = q
      BY <3>1, ToolsAssumption DEF ToolsAssumption, Shape
    <3>6. \A f \in Files : owner'[f] = p =>
            /\ owner[f] = p \/ Head(w.script) = Call("lock", f)
            /\ Head(w.script) # Call("unlock", f)
      BY <3>1, <3>4, ToolsAssumption DEF ToolsAssumption, Shape, Call
    <3> QED BY <3>1, <3>3, <3>4, <3>5, <3>6, ProceedLocks
  <2>12. CASE CallFails(p)
    <3>1. owner' = owner /\ FailExit(p) /\ w.script # <<>>
      BY <2>12 DEF CallFails, Doing
    <3> QED BY <3>1, FailLocks
  <2>13. CASE Killed(p)
    <3>1. /\ work' = [work EXCEPT ![p] = Idle]
          /\ owner' = [f \in Files |-> IF owner[f] = p THEN None ELSE owner[f]]
      BY <2>13 DEF Killed
    <3>2. Held(p)' = {}
      BY <3>1, ToolsAssumption DEF Held, ToolsAssumption
    <3>3. ASSUME NEW q \in Procs, q # p PROVE Held(q)' = Held(q) /\ work'[q] = work[q]
      BY <3>1, <3>3, ToolsAssumption DEF Held, ToolsAssumption, Shape
    <3>4. work'[p] = Idle
      BY <3>1 DEF Shape
    <3> QED BY <3>2, <3>3, <3>4, IdleGivesBack DEF LocksInv
  <2> QED
    BY <2>1, <2>3, <2>4, <2>5, <2>6, <2>7, <2>8, <2>9, <2>10, <2>11, <2>12, <2>13, <2>14
    DEF Step
<1> QED BY <1>1, <1>2

\* Main is entered without a lock.
LEMMA LocksInit == ASSUME ToolsAssumption, Init PROVE LocksInv
<1>1. \A p \in Procs : work[p] = Idle /\ Held(p) = {}
  BY ToolsAssumption DEF Init, Held, ToolsAssumption
<1> QED BY <1>1, IdleGivesBack DEF LocksInv

\* A tool that has ended by itself, well or not, has no lock: every path through
\* fail_exit and the clean-up functions unlocks what was locked (fail_exit of
\* useradd, usermod and userdel, the clean-up functions of the others).  The
\* exits in update_groups of userdel are not such paths: like the death of a
\* tool they leave the lock files, which count as free (UserdelQuits, Killed).
THEOREM ToolsLeaveNoLock == ASSUME ToolsAssumption PROVE Spec => []NothingHeldAtExit
<1>1. Init => LocksInv
  BY ToolsAssumption, LocksInit
<1>2. ToolsInv /\ LocksInv /\ [Next]_vars => LocksInv'
  BY ToolsAssumption, LocksStep DEF ToolsInv
<1>3. LocksInv => NothingHeldAtExit
  <2> SUFFICES ASSUME LocksInv, NEW p \in Procs, work[p] = Idle, NEW f \in Files
               PROVE  owner[f] # p
    BY DEF NothingHeldAtExit
  <2>1. Held(p) = {}
    BY EndedGivesBack DEF LocksInv, Idle
  <2> QED BY <2>1 DEF Held
<1> QED BY <1>1, <1>2, <1>3, ToolsInvariant, PTL DEF Spec

(***************************************************************************)
(* The identifiers that the tools find.                                    *)
(***************************************************************************)
\* Every non-empty set of naturals has a least element.
LEMMA NatMin ==
  ASSUME NEW T \in SUBSET Nat, T # {}
  PROVE  Min(T) \in T /\ \A y \in T : Min(T) <= y
<1> DEFINE R == OpToRel(<, Nat)
<1>1. IsWellFoundedOn(R, Nat)
  BY NatLessThanWellFounded
<1>2. \A x, y \in Nat : <<x, y>> \in R <=> x < y
  BY DEF OpToRel
<1> HIDE DEF R
<1>3. PICK x \in T : \A y \in T : ~ (<<y, x>> \in R)
  BY <1>1, WFMin
<1>4. \A y \in T : x <= y
  <2> TAKE y \in T
  <2>1. x \in Nat /\ y \in Nat
    OBVIOUS
  <2>2. ~ (<<y, x>> \in R)
    BY <1>3
  <2> QED BY <1>2, <2>1, <2>2
<1> QED BY <1>4 DEF Min

\* And a greatest one when it has a bound.
LEMMA NatMax ==
  ASSUME NEW hi \in Nat, NEW T \in SUBSET (0 .. hi), T # {}
  PROVE  Max(T) \in T /\ \A y \in T : y <= Max(T)
<1> DEFINE U == {hi - y : y \in T}
<1>0. \A y \in T : y \in Nat /\ hi - y \in Nat
  OBVIOUS
<1>1. U \in SUBSET Nat /\ U # {}
  BY <1>0
<1> HIDE DEF U
<1>2. Min(U) \in U /\ \A z \in U : Min(U) <= z
  BY <1>1, NatMin
<1>3. PICK x \in T : Min(U) = hi - x
  BY <1>2 DEF U
<1>4. \A y \in T : x >= y
  <2> TAKE y \in T
  <2>1. hi - y \in U
    BY DEF U
  <2>2. hi - x <= hi - y /\ x \in Nat /\ y \in Nat
    BY <1>0, <1>2, <1>3, <2>1
  <2> QED BY <2>2
<1>5. Max(T) \in T /\ \A y \in T : Max(T) >= y
  BY <1>4 DEF Max
<1> DEFINE m == Max(T)
<1> HIDE DEF m
<1>6. m \in T /\ \A y \in T : y <= m
  BY <1>0, <1>5 DEF m
<1> QED BY <1>6 DEF m

\* What find_new_uid and find_new_gid answer is in the range, not in use and
\* not reserved; it is 0 only when nothing is (lib/find_new_uid.c).
LEMMA NewIdIsFree ==
  ASSUME NEW used, NEW lo \in Nat, NEW hi \in Nat
  PROVE  \/ NewId(used, lo, hi) \in Free(used, lo, hi)
         \/ NewId(used, lo, hi) = 0 /\ Free(used, lo, hi) = {}
<1> DEFINE free  == Free(used, lo, hi)
           local == used \cap (lo .. hi)
           above == {id \in free : local # {} => id > Max(local)}
<1>1. free \in SUBSET Nat /\ above \subseteq free
  BY DEF Free
<1>2. NewId(used, lo, hi) = IF above # {} THEN Min(above)
                            ELSE IF free # {} THEN Min(free) ELSE 0
  BY DEF NewId
<1> HIDE DEF free, above
<1>3. CASE above # {}
  <2>1. above \in SUBSET Nat
    BY <1>1
  <2>2. Min(above) \in above
    BY <1>3, <2>1, NatMin
  <2> QED BY <1>1, <1>2, <1>3, <2>2 DEF free
<1>4. CASE above = {} /\ free # {}
  <2>1. Min(free) \in free
    BY <1>1, <1>4, NatMin
  <2> QED BY <1>2, <1>4, <2>1 DEF free
<1> QED BY <1>2, <1>3, <1>4 DEF free

\* The same of the search from the top that -r asks for (find_new_uid with
\* sys_user, find_new_gid with sys_group).
LEMMA NewSystemIdIsFree ==
  ASSUME NEW used, NEW lo \in Nat, NEW hi \in Nat
  PROVE  \/ NewSystemId(used, lo, hi) \in Free(used, lo, hi)
         \/ NewSystemId(used, lo, hi) = 0 /\ Free(used, lo, hi) = {}
<1> DEFINE free  == Free(used, lo, hi)
           local == used \cap (lo .. hi)
           below == {id \in free : local # {} => id < Min(local)}
<1>1. free \in SUBSET (0 .. hi) /\ below \subseteq free
  BY DEF Free
<1>2. NewSystemId(used, lo, hi) = IF below # {} THEN Max(below)
                                  ELSE IF free # {} THEN Max(free) ELSE 0
  BY DEF NewSystemId
<1> HIDE DEF free, below
<1>3. CASE below # {}
  <2>1. below \in SUBSET (0 .. hi)
    BY <1>1
  <2>2. Max(below) \in below
    BY <1>3, <2>1, NatMax
  <2> QED BY <1>1, <1>2, <1>3, <2>2 DEF free
<1>4. CASE below = {} /\ free # {}
  <2>1. Max(free) \in free
    BY <1>1, <1>4, NatMax
  <2> QED BY <1>2, <1>4, <2>1 DEF free
<1> QED BY <1>2, <1>3, <1>4 DEF free

\* An identifier that a tool has found is one of Ids that is not in use.
LEMMA FindNewIsFree ==
  ASSUME ToolsAssumption, NEW used, NEW job
  PROVE  FindNew(used, job) = 0 \/ FindNew(used, job) \in Ids \ used
<1>1. NewId(used, IdMin, IdMax) \in {0} \cup ((IdMin .. IdMax) \ used)
  BY ToolsAssumption, NewIdIsFree DEF ToolsAssumption, Free
<1>2. NewSystemId(used, SysIdMin, SysIdMax) \in {0} \cup ((SysIdMin .. SysIdMax) \ used)
  BY ToolsAssumption, NewSystemIdIsFree DEF ToolsAssumption, Free
<1> QED BY <1>1, <1>2, ToolsAssumption DEF ToolsAssumption, FindNew

\* So is the gid of a group, also when it is the uid of its user.
LEMMA FindNewUserGidIsFree ==
  ASSUME ToolsAssumption, NEW group, NEW uid, NEW job
  PROVE  FindNewUserGid(group, uid, job) \in Ids \cup {0} \cup {uid}
<1>1. FindNewGid(group, job) \in Ids \cup {0}
  BY FindNewIsFree DEF FindNewGid
<1> QED BY <1>1 DEF FindNewUserGid, PreferredOr

(***************************************************************************)
(* The order of the calls.                                                 *)
(***************************************************************************)
\* What does not come after an edit or a close, after an unlock, or after a
\* uid is picked.
Late(a, b) ==
  \/ a.do \in {"edit", "close"} /\ b.do \notin Finishing
  \/ a.do = "unlock" /\ (b.do = "edit" \/ b = Call("close", a.file))
  \/ a.do = "pick" /\ (b.do \in {"check", "pick"} \/ b = Call("open", "passwd"))

\* A script in which nothing comes late.
InOrder(s) == \A i, j \in 1 .. Len(s) : i < j => ~Late(s[i], s[j])

\* Every edit comes after a pick.
PickFirst(s) ==
  \A i \in 1 .. Len(s) : s[i].do = "edit" => \E k \in 1 .. i - 1 : s[k].do = "pick"

\* A script with a call of one of these kinds.
Makes(s, dos) == \E c \in Range(s) : c.do \in dos

\* Two parts of a script one after the other (the calls of main in order).
LEMMA InOrderThen ==
  ASSUME NEW S, NEW s \in Seq(S), NEW t \in Seq(S), InOrder(s), InOrder(t),
         \A a \in Range(s), b \in Range(t) : ~Late(a, b)
  PROVE  InOrder(s \o t)
<1> SUFFICES ASSUME NEW i \in 1 .. Len(s \o t), NEW j \in 1 .. Len(s \o t), i < j
             PROVE  ~Late((s \o t)[i], (s \o t)[j])
  BY DEF InOrder
<1>1. /\ Len(s) \in Nat /\ DOMAIN s = 1 .. Len(s)
      /\ Len(t) \in Nat /\ DOMAIN t = 1 .. Len(t)
  BY LenProperties
<1>2. /\ Len(s \o t) = Len(s) + Len(t)
      /\ \A n \in 1 .. Len(s) + Len(t) : (s \o t)[n] = IF n <= Len(s) THEN s[n] ELSE t[n - Len(s)]
  BY ConcatProperties
<1>3. CASE j <= Len(s)
  <2>1. i \in 1 .. Len(s) /\ j \in 1 .. Len(s) /\ (s \o t)[i] = s[i] /\ (s \o t)[j] = s[j]
    BY <1>1, <1>2, <1>3
  <2> QED BY <2>1 DEF InOrder
<1>4. CASE i <= Len(s) /\ ~ (j <= Len(s))
  <2>1. /\ i \in 1 .. Len(s) /\ j - Len(s) \in 1 .. Len(t)
        /\ (s \o t)[i] = s[i] /\ (s \o t)[j] = t[j - Len(s)]
    BY <1>1, <1>2, <1>4
  <2>2. s[i] \in Range(s) /\ t[j - Len(s)] \in Range(t)
    BY <1>1, <2>1 DEF Range
  <2> QED BY <2>1, <2>2
<1>5. CASE ~ (i <= Len(s))
  <2>1. /\ i - Len(s) \in 1 .. Len(t) /\ j - Len(s) \in 1 .. Len(t) /\ i - Len(s) < j - Len(s)
        /\ (s \o t)[i] = t[i - Len(s)] /\ (s \o t)[j] = t[j - Len(s)]
    BY <1>1, <1>2, <1>5
  <2> QED BY <2>1 DEF InOrder
<1> QED BY <1>1, <1>3, <1>4, <1>5

\* A part in which no call is late after another is in order.
LEMMA InOrderAll ==
  ASSUME NEW S, NEW s \in Seq(S), \A a, b \in Range(s) : ~Late(a, b)
  PROVE  InOrder(s)
<1>1. Len(s) \in Nat /\ DOMAIN s = 1 .. Len(s)
  BY LenProperties
<1> QED BY <1>1 DEF InOrder, Range

\* A single call too.
LEMMA InOrderOne == ASSUME NEW c PROVE InOrder(<<c>>)
BY DEF InOrder

\* Calls that edit nothing, or that come after a pick.
LEMMA PickFirstThen ==
  ASSUME NEW S, NEW s \in Seq(S), NEW t \in Seq(S), PickFirst(s),
         PickFirst(t) \/ Makes(s, {"pick"})
  PROVE  PickFirst(s \o t)
<1> SUFFICES ASSUME NEW i \in 1 .. Len(s \o t), (s \o t)[i].do = "edit"
             PROVE  \E k \in 1 .. i - 1 : (s \o t)[k].do = "pick"
  BY DEF PickFirst
<1>1. /\ Len(s) \in Nat /\ DOMAIN s = 1 .. Len(s)
      /\ Len(t) \in Nat /\ DOMAIN t = 1 .. Len(t)
  BY LenProperties
<1>2. /\ Len(s \o t) = Len(s) + Len(t)
      /\ \A n \in 1 .. Len(s) + Len(t) : (s \o t)[n] = IF n <= Len(s) THEN s[n] ELSE t[n - Len(s)]
  BY ConcatProperties
<1>3. CASE i <= Len(s)
  <2>1. i \in 1 .. Len(s) /\ (s \o t)[i] = s[i]
    BY <1>1, <1>2, <1>3
  <2>2. PICK k \in 1 .. i - 1 : s[k].do = "pick"
    BY <2>1 DEF PickFirst
  <2>3. (s \o t)[k] = s[k]
    BY <1>1, <1>2, <2>1, <2>2
  <2> QED BY <2>2, <2>3
<1>4. CASE ~ (i <= Len(s)) /\ Makes(s, {"pick"})
  <2>1. PICK k \in 1 .. Len(s) : s[k].do = "pick"
    BY <1>1, <1>4 DEF Makes, Range
  <2>2. (s \o t)[k] = s[k] /\ k \in 1 .. i - 1
    BY <1>1, <1>2, <1>4, <2>1
  <2> QED BY <2>1, <2>2
<1>5. CASE ~ (i <= Len(s)) /\ PickFirst(t)
  <2> DEFINE n == Len(s)
  <2>1. i - n \in 1 .. Len(t) /\ (s \o t)[i] = t[i - n]
    BY <1>1, <1>2, <1>5
  <2>2. PICK k \in 1 .. (i - n) - 1 : t[k].do = "pick"
    BY <1>5, <2>1 DEF PickFirst
  <2>3. n + k \in 1 .. i - 1 /\ (s \o t)[n + k] = t[k]
    BY <1>1, <1>2, <1>5, <2>1, <2>2
  <2> QED BY <2>2, <2>3
<1> QED BY <1>1, <1>3, <1>4, <1>5

\* A part without edits owes no pick.
LEMMA PickFirstAll ==
  ASSUME NEW S, NEW s \in Seq(S), ~Makes(s, {"edit"})
  PROVE  PickFirst(s)
<1>1. Len(s) \in Nat /\ DOMAIN s = 1 .. Len(s)
  BY LenProperties
<1> QED BY <1>1 DEF PickFirst, Makes, Range

\* After the first call.
LEMMA OrderTail ==
  ASSUME NEW S, NEW s \in Seq(S), s # <<>>, InOrder(s)
  PROVE  /\ Tail(s) \in Seq(S) /\ Range(Tail(s)) \subseteq Range(s) /\ Head(s) \in Range(s)
         /\ InOrder(Tail(s))
         /\ \A c \in Range(Tail(s)) : ~Late(Head(s), c)
         /\ PickFirst(s) => Head(s).do # "edit"
         /\ PickFirst(s) /\ Head(s).do # "pick" => PickFirst(Tail(s))
<1>1. Len(s) \in Nat /\ Len(s) # 0 /\ Head(s) = s[1] /\ DOMAIN s = 1 .. Len(s)
  BY LenProperties
<1>2. /\ Tail(s) \in Seq(S) /\ Len(Tail(s)) = Len(s) - 1
      /\ \A i \in 1 .. Len(Tail(s)) : Tail(s)[i] = s[i + 1]
  BY HeadTailProperties
<1>3. DOMAIN Tail(s) = 1 .. Len(Tail(s))
  BY <1>2, LenProperties
<1>4. \A i \in 1 .. Len(Tail(s)) : i + 1 \in 1 .. Len(s) /\ 1 < i + 1 /\ Tail(s)[i] = s[i + 1]
  BY <1>1, <1>2
<1>5. InOrder(Tail(s))
  <2> SUFFICES ASSUME NEW i \in 1 .. Len(Tail(s)), NEW j \in 1 .. Len(Tail(s)), i < j
               PROVE  ~Late(Tail(s)[i], Tail(s)[j])
    BY DEF InOrder
  <2>1. i + 1 \in 1 .. Len(s) /\ j + 1 \in 1 .. Len(s) /\ i + 1 < j + 1
    BY <1>4
  <2> QED BY <1>4, <2>1 DEF InOrder
<1>6. \A c \in Range(Tail(s)) : ~Late(Head(s), c)
  <2> SUFFICES ASSUME NEW i \in 1 .. Len(Tail(s)) PROVE ~Late(Head(s), Tail(s)[i])
    BY <1>3 DEF Range
  <2>1. 1 \in 1 .. Len(s)
    BY <1>1
  <2> QED BY <1>1, <1>4, <2>1 DEF InOrder
<1>7. PickFirst(s) => Head(s).do # "edit"
  BY <1>1 DEF PickFirst
<1>8. ASSUME PickFirst(s), Head(s).do # "pick" PROVE PickFirst(Tail(s))
  <2> SUFFICES ASSUME NEW i \in 1 .. Len(Tail(s)), Tail(s)[i].do = "edit"
               PROVE  \E k \in 1 .. i - 1 : Tail(s)[k].do = "pick"
    BY DEF PickFirst
  <2>1. i + 1 \in 1 .. Len(s) /\ s[i + 1].do = "edit"
    BY <1>4
  <2>2. PICK k \in 1 .. (i + 1) - 1 : s[k].do = "pick"
    BY <1>8, <2>1 DEF PickFirst
  <2>3. k # 1
    BY <1>1, <1>8, <2>2
  <2>4. k - 1 \in 1 .. i - 1 /\ k - 1 \in 1 .. Len(Tail(s)) /\ Tail(s)[k - 1] = s[k]
    BY <1>2, <2>2, <2>3
  <2> QED BY <2>2, <2>4
<1>9. Range(Tail(s)) \subseteq Range(s) /\ Head(s) \in Range(s)
  BY <1>1, <1>3, <1>4 DEF Range
<1> QED BY <1>2, <1>5, <1>6, <1>7, <1>8, <1>9

\* The calls that come before an edit.
Opening == {"lock", "open"}

\* A part of a script that does no edit and no pick.
LEMMA DoesNoEdit ==
  ASSUME NEW s, NEW calls, NEW files, Does(s, calls, files), calls \cap {"pick", "edit"} = {}
  PROVE  /\ s \in Seq(Calls) /\ ~Makes(s, {"pick"}) /\ PickFirst(s)
         /\ "close" \notin calls \/ calls = {"close"} => InOrder(s)
         /\ "close" \notin calls => ~Makes(s, {"close"})
<1>1. /\ s \in Seq(Calls) /\ ~Makes(s, {"edit"}) /\ ~Makes(s, {"pick"})
      /\ "close" \notin calls => ~Makes(s, {"close"})
  BY DEF Does, Makes
<1>2. ASSUME "close" \notin calls \/ calls = {"close"}
      PROVE  \A a, b \in Range(s) : ~Late(a, b)
  BY <1>2 DEF Does, Late, Finishing, Call
<1> QED BY <1>1, <1>2, InOrderAll, PickFirstAll

\* A list with no file twice.
Distinctly(list) == \A i, j \in 1 .. Len(list) : list[i] = list[j] => i = j

\* No file is closed after it is unlocked (close_files).
LEMMA CloseThenUnlock ==
  ASSUME NEW list \in Seq(Files), Distinctly(list)
  PROVE  InOrder(CloseAndUnlock(list))
<1> DEFINE t == CloseAndUnlock(list)
<1>1. /\ Len(list) \in Nat /\ Len(t) = 2 * Len(list)
      /\ \A i \in 1 .. 2 * Len(list) :
           t[i] = IF i % 2 = 1 THEN Call("close", list[(i + 1) \div 2])
                  ELSE Call("unlock", list[i \div 2])
  BY LenProperties DEF CloseAndUnlock, EachTwo
<1> HIDE DEF t
<1> SUFFICES ASSUME NEW i \in 1 .. Len(t), NEW j \in 1 .. Len(t), i < j, Late(t[i], t[j])
             PROVE  FALSE
  BY DEF InOrder, t
<1>2. t[i].do \in Finishing /\ t[j].do \in Finishing
  BY <1>1 DEF Call, Finishing
<1>3. t[i].do = "unlock" /\ t[j] = Call("close", t[i].file)
  BY <1>2 DEF Late, Finishing
<1>4. i % 2 # 1 /\ t[i].file = list[i \div 2]
  BY <1>1, <1>3 DEF Call
<1>5. j % 2 = 1 /\ t[j].file = list[(j + 1) \div 2]
  BY <1>1, <1>3 DEF Call
<1>6. list[i \div 2] = list[(j + 1) \div 2]
  BY <1>3, <1>4, <1>5 DEF Call
<1>7. /\ i \div 2 \in 1 .. Len(list) /\ (j + 1) \div 2 \in 1 .. Len(list)
      /\ i \div 2 # (j + 1) \div 2
  BY <1>1, <1>4, <1>5
<1> QED BY <1>6, <1>7 DEF Distinctly

\* Lists without a file in common, one after the other, and backwards.
LEMMA DistinctlyThen ==
  ASSUME NEW s \in Seq(Files), NEW t \in Seq(Files), Distinctly(s), Distinctly(t),
         Range(s) \cap Range(t) = {}
  PROVE  Distinctly(s \o t)
<1>1. /\ Len(s) \in Nat /\ DOMAIN s = 1 .. Len(s)
      /\ Len(t) \in Nat /\ DOMAIN t = 1 .. Len(t)
  BY LenProperties
<1>2. /\ Len(s \o t) = Len(s) + Len(t)
      /\ \A n \in 1 .. Len(s) + Len(t) : (s \o t)[n] = IF n <= Len(s) THEN s[n] ELSE t[n - Len(s)]
  BY ConcatProperties
<1>3. \A i \in 1 .. Len(s), j \in 1 .. Len(t) : s[i] # t[j]
  BY <1>1 DEF Range
<1> SUFFICES ASSUME NEW i \in 1 .. Len(s) + Len(t), NEW j \in 1 .. Len(s) + Len(t),
                    (s \o t)[i] = (s \o t)[j]
             PROVE  i = j
  BY <1>2 DEF Distinctly
<1>4. /\ i <= Len(s) => i \in 1 .. Len(s)
      /\ ~(i <= Len(s)) => i - Len(s) \in 1 .. Len(t)
      /\ j <= Len(s) => j \in 1 .. Len(s)
      /\ ~(j <= Len(s)) => j - Len(s) \in 1 .. Len(t)
  BY <1>1
<1>5. CASE i <= Len(s) /\ j <= Len(s)
  BY <1>2, <1>4, <1>5 DEF Distinctly
<1>6. CASE i <= Len(s) /\ ~(j <= Len(s))
  BY <1>2, <1>3, <1>4, <1>6
<1>7. CASE ~(i <= Len(s)) /\ j <= Len(s)
  BY <1>2, <1>3, <1>4, <1>7
<1>8. CASE ~(i <= Len(s)) /\ ~(j <= Len(s))
  <2>1. t[i - Len(s)] = t[j - Len(s)]
    BY <1>2, <1>8
  <2>2. i - Len(s) = j - Len(s)
    BY <1>4, <1>8, <2>1 DEF Distinctly
  <2> QED BY <1>1, <2>2
<1> QED BY <1>5, <1>6, <1>7, <1>8

\* The same files in reverse order.
LEMMA DistinctlyBack ==
  ASSUME NEW s \in Seq(Files), Distinctly(s) PROVE Distinctly(Reverse(s))
<1>1. /\ Len(s) \in Nat /\ Len(Reverse(s)) = Len(s)
      /\ \A i \in 1 .. Len(s) : Reverse(s)[i] = s[(Len(s) - i) + 1]
  BY LenProperties DEF Reverse
<1> SUFFICES ASSUME NEW i \in 1 .. Len(s), NEW j \in 1 .. Len(s), Reverse(s)[i] = Reverse(s)[j]
             PROVE  i = j
  BY <1>1 DEF Distinctly
<1>2. (Len(s) - i) + 1 \in 1 .. Len(s) /\ (Len(s) - j) + 1 \in 1 .. Len(s)
  BY <1>1
<1>3. (Len(s) - i) + 1 = (Len(s) - j) + 1
  BY <1>1, <1>2 DEF Distinctly
<1> QED BY <1>1, <1>3

\* The lists of the tools are like that.
LEMMA DistinctLists ==
  /\ Distinctly(<<>>) /\ Distinctly(<<"passwd">>) /\ Distinctly(<<"shadow">>)
  /\ Distinctly(<<"group">>) /\ Distinctly(<<"gshadow">>) /\ Distinctly(GroupFiles)
  /\ Distinctly(<<"passwd", "shadow">> \o GroupFiles)
  /\ \A job : Distinctly(UsermodFiles(job)) /\ Distinctly(GroupmodFiles(job))
<1>1. /\ Distinctly(<<>>) /\ Distinctly(<<"passwd">>) /\ Distinctly(<<"shadow">>)
      /\ Distinctly(<<"group">>) /\ Distinctly(<<"gshadow">>)
  BY DEF Distinctly
<1>2. Distinctly(GroupFiles) /\ Distinctly(<<"passwd", "shadow">>)
  BY DEF Distinctly, GroupFiles
<1>3. Distinctly(<<"passwd", "shadow">> \o GroupFiles)
  <2> DEFINE a == <<"passwd", "shadow">>
             b == GroupFiles
  <2>1. /\ a \in Seq(Files) /\ Range(a) = {"passwd", "shadow"} /\ Distinctly(a)
        /\ b \in Seq(Files) /\ Range(b) = {"group", "gshadow"} /\ Distinctly(b)
    BY <1>2, FileLists
  <2> HIDE DEF a, b
  <2>2. Range(a) \cap Range(b) = {}
    BY <2>1
  <2>3. Distinctly(a \o b)
    BY <2>1, <2>2, DistinctlyThen
  <2> QED BY <2>3 DEF a, b
<1>4. ASSUME NEW job PROVE Distinctly(UsermodFiles(job))
  <2> DEFINE a == <<"passwd">>
             b == IF job.newName # Unset THEN <<"shadow">> ELSE <<>>
             c == IF job.newName # Unset \/ "G" \in job.flags THEN GroupFiles ELSE <<>>
  <2>1. /\ a \in Seq(Files) /\ Range(a) = {"passwd"} /\ Distinctly(a)
        /\ b \in Seq(Files) /\ Range(b) \subseteq {"shadow"} /\ Distinctly(b)
        /\ c \in Seq(Files) /\ Range(c) \subseteq {"group", "gshadow"} /\ Distinctly(c)
    BY <1>1, <1>2, FileLists, NoFiles
  <2>2. UsermodFiles(job) = (a \o b) \o c
    BY DEF UsermodFiles
  <2> HIDE DEF a, b, c
  <2>3. a \o b \in Seq(Files) /\ Range(a \o b) = Range(a) \cup Range(b)
    BY <2>1, FilesThen
  <2>4. Range(a) \cap Range(b) = {} /\ Range(a \o b) \cap Range(c) = {}
    BY <2>1, <2>3
  <2>5. Distinctly(a \o b)
    BY <2>1, <2>4, DistinctlyThen
  <2> QED BY <2>1, <2>2, <2>3, <2>4, <2>5, DistinctlyThen
<1>5. ASSUME NEW job PROVE Distinctly(GroupmodFiles(job))
  <2> DEFINE a == <<"group">>
             b == IF job.newName # Unset \/ job.users # Unset THEN <<"gshadow">> ELSE <<>>
             c == IF job.gid # 0 THEN <<"passwd">> ELSE <<>>
  <2>1. /\ a \in Seq(Files) /\ Range(a) = {"group"} /\ Distinctly(a)
        /\ b \in Seq(Files) /\ Range(b) \subseteq {"gshadow"} /\ Distinctly(b)
        /\ c \in Seq(Files) /\ Range(c) \subseteq {"passwd"} /\ Distinctly(c)
    BY <1>1, FileLists, NoFiles
  <2>2. GroupmodFiles(job) = (a \o b) \o c
    BY DEF GroupmodFiles
  <2> HIDE DEF a, b, c
  <2>3. a \o b \in Seq(Files) /\ Range(a \o b) = Range(a) \cup Range(b)
    BY <2>1, FilesThen
  <2>4. Range(a) \cap Range(b) = {} /\ Range(a \o b) \cap Range(c) = {}
    BY <2>1, <2>3
  <2>5. Distinctly(a \o b)
    BY <2>1, <2>4, DistinctlyThen
  <2> QED BY <2>1, <2>2, <2>3, <2>4, <2>5, DistinctlyThen
<1> QED BY <1>1, <1>2, <1>3, <1>4, <1>5

\* The tools with one edit and no pick: what they open, they open before it.
LEMMA EditOrdered ==
  ASSUME NEW s, NEW u, Does(s, Opening, Files), Does(u, Finishing, {}), InOrder(u)
  PROVE  InOrder(s \o <<EditCall>> \o u) /\ ~Makes(s \o <<EditCall>> \o u, {"pick"})
<1> DEFINE e == <<EditCall>>
<1>1. Does(e, {"edit"}, {}) /\ InOrder(e)
  BY DoesOne, InOrderOne DEF EditCall
<1>2. s \in Seq(Calls) /\ InOrder(s) /\ u \in Seq(Calls)
  <2>1. Opening \cap {"pick", "edit"} = {} /\ "close" \notin Opening
    BY DEF Opening
  <2> QED BY <2>1, DoesNoEdit DEF Does
<1> HIDE DEF e
<1>3. e \in Seq(Calls)
  BY <1>1 DEF Does
<1>4. \A a \in Range(s), b \in Range(e) : ~Late(a, b)
  BY DEF Does, Opening, Late
<1>5. /\ s \o e \in Seq(Calls) /\ InOrder(s \o e)
      /\ Range(s \o e) = Range(s) \cup Range(e)
  BY <1>1, <1>2, <1>3, <1>4, InOrderThen, ConcatProperties, RangeConcatenation
<1>6. \A a \in Range(s \o e), b \in Range(u) : ~Late(a, b)
  <2>1. \A a \in Range(s \o e) : a.do \notin {"unlock", "pick"}
    BY <1>1, <1>5 DEF Does, Opening
  <2> QED BY <2>1 DEF Does, Late
<1> DEFINE t == s \o e
<1> HIDE DEF t
<1>7. InOrder(t \o u)
  BY <1>2, <1>5, <1>6, InOrderThen DEF t
<1>8. ~Makes(t \o u, {"pick"})
  <2>1. \A c \in Range(t) \cup Range(u) : c.do # "pick"
    BY <1>1, <1>5 DEF Does, Opening, Finishing, t
  <2>2. t \in Seq(Calls)
    BY <1>5 DEF t
  <2>3. Range(t \o u) = Range(t) \cup Range(u)
    BY <1>2, <2>2, RangeConcatenation
  <2> QED BY <2>1, <2>3 DEF Makes
<1> QED BY <1>7, <1>8 DEF t, e

\* usermod and userdel, which lock and open each file before the next.
LEMMA InTurnOrdered ==
  ASSUME NEW list \in Seq(Files), NEW back \in Seq(Files), Distinctly(back)
  PROVE  LET s == LockAndOpen(list) \o <<EditCall>> \o CloseAndUnlock(back)
         IN  InOrder(s) /\ ~Makes(s, {"pick"})
<1>1. Range(list) \subseteq Files
  BY RangeOfSeq
<1>2. Does(LockAndOpen(list), Opening, Files)
  BY <1>1, DoesLockAndOpen DEF Opening
<1>3. Does(CloseAndUnlock(back), Finishing, {}) /\ InOrder(CloseAndUnlock(back))
  BY DoesCloseAndUnlock, CloseThenUnlock DEF Finishing
<1> QED BY <1>2, <1>3, EditOrdered

\* The tools that lock all their files and then open them.
LEMMA LocksFirstOrdered ==
  ASSUME NEW list \in Seq(Files), Distinctly(list)
  PROVE  LET s == Each("lock", list) \o Each("open", list) \o <<EditCall>> \o CloseAndUnlock(list)
         IN  InOrder(s) /\ ~Makes(s, {"pick"})
<1>1. Range(list) \subseteq Files
  BY RangeOfSeq
<1>2. Does(Each("lock", list), Opening, Files) /\ Does(Each("open", list), Opening, Files)
  BY <1>1, DoesEach DEF Opening
<1>3. Does(CloseAndUnlock(list), Finishing, {}) /\ InOrder(CloseAndUnlock(list))
  BY DoesCloseAndUnlock, CloseThenUnlock DEF Finishing
<1>4. Does(Each("lock", list) \o Each("open", list), Opening, Files)
  BY <1>2, DoesThen
<1> QED BY <1>3, <1>4, EditOrdered

\* What is locked and opened.
LEMMA LockAndOpenCalls ==
  ASSUME NEW list \in Seq(Files)
  PROVE  \A c : c \in Range(LockAndOpen(list)) <=>
                \E f \in Range(list) : c = Call("lock", f) \/ c = Call("open", f)
<1>1. \A f \in Files : Call("lock", f) \in Calls /\ Call("open", f) \in Calls
  BY DEF Call, Calls
<1> QED BY <1>1, EachTwoCalls DEF LockAndOpen

\* useradd picks the uid with passwd open, and opens only shadow after that.
LEMMA UseraddOrdered ==
  ASSUME NEW job
  PROVE  InOrder(UseraddScript(job)) /\ PickFirst(UseraddScript(job))
<1> DEFINE first == <<"passwd">> \o GroupFiles
           lock  == LockAndOpen(first)
           pick  == <<Call("pick", None)>>
           shad  == LockAndOpen(<<"shadow">>)
           edit  == <<EditCall>>
           users == Each("close", <<"passwd", "shadow">>)
           group == IF "usergroup" \in job.flags \/ job.groups # {}
                    THEN Each("close", GroupFiles) ELSE <<>>
           back  == <<"shadow", "passwd">> \o GroupFiles
           free  == Each("unlock", back)
<1>1. Does(lock, Opening, Files)
  <2> DEFINE a == <<"passwd">>
  <2>1. a \in Seq(Files) /\ GroupFiles \in Seq(Files)
    BY FileLists
  <2> HIDE DEF a
  <2>2. a \o GroupFiles \in Seq(Files)
    BY <2>1, FilesThen
  <2>3. first \in Seq(Files)
    BY <2>2 DEF a
  <2> HIDE DEF first
  <2>4. Range(first) \subseteq Files
    BY <2>3, RangeOfSeq
  <2> QED BY <2>3, <2>4, DoesLockAndOpen DEF Opening
<1>2. /\ Does(pick, {"pick"}, {}) /\ InOrder(pick) /\ Range(pick) = {Call("pick", None)}
      /\ Does(edit, {"edit"}, {}) /\ InOrder(edit)
  <2>1. /\ Does(pick, {"pick"}, {}) /\ InOrder(pick)
        /\ Does(edit, {"edit"}, {}) /\ InOrder(edit)
    BY DoesOne, InOrderOne DEF EditCall
  <2> DEFINE c == Call("pick", None)
  <2> HIDE DEF c
  <2>2. Range(<<c>>) = {c}
    BY Single
  <2> QED BY <2>1, <2>2 DEF c
<1>3. Does(shad, Opening, {"shadow"}) /\ Call("open", "passwd") \notin Range(shad)
  <2> DEFINE a == <<"shadow">>
  <2>1. a \in Seq(Files) /\ Range(a) = {"shadow"}
    BY FileLists
  <2> HIDE DEF a
  <2>3. \A c \in Range(LockAndOpen(a)) : c = Call("lock", "shadow") \/ c = Call("open", "shadow")
    <3>1. \A c : c \in Range(LockAndOpen(a)) <=>
                 \E f \in Range(a) : c = Call("lock", f) \/ c = Call("open", f)
      BY <2>1, LockAndOpenCalls
    <3> QED BY <2>1, <3>1
  <2>4. Does(LockAndOpen(a), Opening, {"shadow"})
    BY <2>1, DoesLockAndOpen DEF Opening
  <2>5. Call("open", "passwd") # Call("lock", "shadow") /\ Call("open", "passwd") # Call("open", "shadow")
    BY DEF Call
  <2> QED BY <2>3, <2>4, <2>5 DEF a
<1>4. Does(users, {"close"}, {})
  <2> DEFINE a == <<"passwd", "shadow">>
  <2>1. a \in Seq(Files)
    BY FileLists
  <2> HIDE DEF a
  <2>2. Does(Each("close", a), {"close"}, {})
    BY <2>1, DoesEach
  <2> QED BY <2>2 DEF a
<1>5. Does(group, {"close"}, {})
  BY FileLists, DoesEach, DoesNothing
<1>6. Does(free, {"unlock"}, {})
  <2>1. back \in Seq(Files)
    BY AllFiles
  <2> HIDE DEF back
  <2> QED BY <2>1, DoesEach
<1>7. UseraddScript(job) = (((((lock \o pick) \o shad) \o edit) \o users) \o group) \o free
  BY DEF UseraddScript
<1> HIDE DEF lock, pick, shad, edit, users, group, free
<1>8. /\ lock \in Seq(Calls) /\ InOrder(lock) /\ PickFirst(lock)
      /\ shad \in Seq(Calls) /\ InOrder(shad) /\ PickFirst(shad)
      /\ users \in Seq(Calls) /\ InOrder(users) /\ PickFirst(users)
      /\ group \in Seq(Calls) /\ InOrder(group) /\ PickFirst(group)
      /\ free \in Seq(Calls) /\ InOrder(free) /\ PickFirst(free)
  <2>1. Opening \cap {"pick", "edit"} = {} /\ "close" \notin Opening
    BY DEF Opening
  <2>2. /\ {"close"} \cap {"pick", "edit"} = {} /\ {"unlock"} \cap {"pick", "edit"} = {}
        /\ "close" \notin {"unlock"}
    OBVIOUS
  <2> QED BY <1>1, <1>3, <1>4, <1>5, <1>6, <2>1, <2>2, DoesNoEdit
<1>9. pick \in Seq(Calls) /\ edit \in Seq(Calls) /\ PickFirst(pick)
  <2>1. pick \in Seq(Calls) /\ edit \in Seq(Calls) /\ ~Makes(pick, {"edit"})
    BY <1>2 DEF Does, Makes
  <2> QED BY <2>1, PickFirstAll
<1> DEFINE a == lock \o pick
           b == a \o shad
           c == b \o edit
           d == c \o users
           g == d \o group
<1>10. a \in Seq(Calls) /\ Range(a) = Range(lock) \cup Range(pick)
  BY <1>8, <1>9, ConcatProperties, RangeConcatenation
<1>11. InOrder(a) /\ PickFirst(a) /\ Makes(a, {"pick"})
  <2>1. \A x \in Range(lock), y \in Range(pick) : ~Late(x, y)
    BY <1>1 DEF Does, Opening, Late
  <2>2. Makes(a, {"pick"})
    <3>1. Call("pick", None) \in Range(a) /\ Call("pick", None).do = "pick"
      BY <1>2, <1>10 DEF Call
    <3> QED BY <3>1 DEF Makes
  <2> QED BY <1>2, <1>8, <1>9, <2>1, <2>2, InOrderThen, PickFirstThen
<1> HIDE DEF a
<1>12. b \in Seq(Calls) /\ Range(b) = Range(a) \cup Range(shad)
  BY <1>8, <1>10, ConcatProperties, RangeConcatenation
<1>13. InOrder(b) /\ PickFirst(b) /\ Makes(b, {"pick"})
  <2>1. \A x \in Range(a) : x.do \notin {"edit", "close", "unlock"}
    BY <1>1, <1>2, <1>10 DEF Does, Opening
  <2>3. \A x \in Range(a), y \in Range(shad) : ~Late(x, y)
    BY <1>3, <2>1 DEF Does, Opening, Late
  <2>2. Makes(b, {"pick"})
    BY <1>11, <1>12 DEF Makes
  <2> QED BY <1>8, <1>10, <1>11, <2>2, <2>3, InOrderThen, PickFirstThen
<1>14. \A x \in Range(b) : x.do \notin {"edit", "close", "unlock"}
  BY <1>1, <1>2, <1>3, <1>10, <1>12 DEF Does, Opening
<1> HIDE DEF b
<1>15. /\ c \in Seq(Calls) /\ InOrder(c) /\ PickFirst(c)
       /\ \A x \in Range(c) : x.do # "unlock"
  <2>1. \A x \in Range(b), y \in Range(edit) : ~Late(x, y)
    BY <1>2, <1>14 DEF Does, Late, Call
  <2>2. c \in Seq(Calls) /\ Range(c) = Range(b) \cup Range(edit)
    BY <1>9, <1>12, ConcatProperties, RangeConcatenation
  <2>3. \A x \in Range(c) : x.do # "unlock"
    BY <1>2, <1>14, <2>2 DEF Does
  <2> QED BY <1>2, <1>9, <1>12, <1>13, <2>1, <2>2, <2>3, InOrderThen, PickFirstThen
<1> HIDE DEF c
<1>16. \A x, y : y.do \in Finishing /\ (x.do = "unlock" => y.do = "unlock") => ~Late(x, y)
  BY DEF Finishing, Late, Call
<1>17. /\ d \in Seq(Calls) /\ InOrder(d) /\ PickFirst(d)
       /\ \A x \in Range(d) : x.do # "unlock"
  <2>1. \A x \in Range(c), y \in Range(users) : ~Late(x, y)
    BY <1>4, <1>15, <1>16 DEF Does, Finishing
  <2>2. d \in Seq(Calls) /\ Range(d) = Range(c) \cup Range(users)
    BY <1>8, <1>15, ConcatProperties, RangeConcatenation
  <2>3. \A x \in Range(d) : x.do # "unlock"
    BY <1>4, <1>15, <2>2 DEF Does
  <2> QED BY <1>8, <1>15, <2>1, <2>2, <2>3, InOrderThen, PickFirstThen
<1> HIDE DEF d
<1>18. g \in Seq(Calls) /\ InOrder(g) /\ PickFirst(g)
  <2>1. \A x \in Range(d), y \in Range(group) : ~Late(x, y)
    BY <1>5, <1>16, <1>17 DEF Does, Finishing
  <2>2. g \in Seq(Calls)
    BY <1>8, <1>17, ConcatProperties
  <2> QED BY <1>8, <1>17, <2>1, <2>2, InOrderThen, PickFirstThen
<1> HIDE DEF g
<1>19. InOrder(g \o free) /\ PickFirst(g \o free)
  <2>1. \A x \in Range(g), y \in Range(free) : ~Late(x, y)
    BY <1>6, <1>16 DEF Does, Finishing
  <2> QED BY <1>8, <1>18, <2>1, InOrderThen, PickFirstThen
<1> QED BY <1>7, <1>19 DEF a, b, c, d, g

\* So every tool is in order after its checks.
LEMMA ScriptOrdered ==
  ASSUME NEW job
  PROVE  /\ InOrder(Script(job))
         /\ job.tool = "useradd" => PickFirst(Script(job))
         /\ Makes(Script(job), {"pick"}) => job.tool = "useradd"
<1>1. CASE job.tool = "useradd"
  BY <1>1, UseraddOrdered DEF Script
<1>2. CASE job.tool = "usermod"
  <2> DEFINE list == UsermodFiles(job)
  <2>1. Script(job) = LockAndOpen(list) \o <<EditCall>> \o CloseAndUnlock(Reverse(list))
    BY <1>2 DEF Script, UsermodScript
  <2>2. list \in Seq(Files) /\ Distinctly(list)
    BY UsermodLists, DistinctLists
  <2> HIDE DEF list
  <2>3. Reverse(list) \in Seq(Files) /\ Distinctly(Reverse(list))
    BY <2>2, ReverseCalls, DistinctlyBack
  <2> QED BY <1>2, <2>1, <2>2, <2>3, InTurnOrdered
<1>3. CASE job.tool = "userdel"
  <2> DEFINE list == <<"passwd", "shadow">> \o GroupFiles
  <2>1. Script(job) = LockAndOpen(list) \o <<EditCall>> \o CloseAndUnlock(list)
    BY <1>3 DEF Script, UserdelScript
  <2>2. list \in Seq(Files) /\ Distinctly(list)
    BY AllFiles, DistinctLists
  <2> HIDE DEF list
  <2> QED BY <1>3, <2>1, <2>2, InTurnOrdered
<1>4. CASE job.tool \notin {"useradd", "usermod", "userdel"}
  <2>1. PICK list \in Seq(Files) :
          /\ Script(job) = Each("lock", list) \o Each("open", list) \o <<EditCall>>
                             \o CloseAndUnlock(list)
          /\ Distinctly(list)
    BY <1>4, GroupmodLists, FileLists, DistinctLists DEF Script, GroupmodScript, GroupScript
  <2> QED BY <1>4, <2>1, LocksFirstOrdered
<1> QED BY <1>1, <1>2, <1>3, <1>4

\* And before them, with the look at the groups of useradd -G.
LEMMA PreludeOrdered ==
  ASSUME NEW job
  PROVE  /\ InOrder(Prelude(job))
         /\ job.tool = "useradd" => PickFirst(Prelude(job))
         /\ Makes(Prelude(job), {"pick"}) => job.tool = "useradd"
         /\ job.tool # "newusers" => ~Makes(Prelude(job), {"close"})
<1>1. CASE job.tool = "newusers"
  <2> DEFINE list == NewusersFiles
  <2>1. Prelude(job) = Each("lock", list) \o Each("open", list) \o <<EditCall>>
                         \o CloseAndUnlock(list)
    BY <1>1 DEF Prelude, NewusersScript
  <2>2. list \in Seq(Files) /\ Distinctly(list)
    BY AllFiles, DistinctLists DEF NewusersFiles
  <2> HIDE DEF list
  <2> QED BY <1>1, <2>1, <2>2, LocksFirstOrdered
<1>2. CASE job.tool # "newusers"
  <2> DEFINE check == <<CheckCall>>
  <2>1. Does(check, {"check"}, {})
    BY DoesOne DEF CheckCall
  <2>2. {"check"} \cap {"pick", "edit"} = {} /\ "close" \notin {"check"}
    OBVIOUS
  <2>3. CASE job.tool # "useradd" \/ job.groups = {}
    <3>1. Prelude(job) \in {check, <<>> \o check}
      BY <1>2, <2>3 DEF Prelude
    <3> HIDE DEF check
    <3>2. <<>> \o check = check
      BY <2>1, ConcatEmptySeq DEF Does
    <3> QED BY <2>1, <2>2, <3>1, <3>2, DoesNoEdit
  <2>4. CASE job.tool = "useradd" /\ job.groups # {}
    <3> DEFINE lock  == LockAndOpen(GroupFiles)
               look  == <<Call("lookup", None)>>
               free  == Each("unlock", GroupFiles)
               calls == {"lock", "open", "lookup", "unlock", "check"}
    <3>1. Prelude(job) = ((lock \o look) \o free) \o check
      BY <2>4 DEF Prelude
    <3>2. Does(lock, calls, Files) /\ Does(free, calls, Files)
      <4>1. GroupFiles \in Seq(Files) /\ Range(GroupFiles) \subseteq Files
        BY FileLists DEF Files
      <4> QED BY <4>1, DoesLockAndOpen, DoesEach
    <3>3. Does(look, calls, Files) /\ Does(check, calls, Files)
      BY DoesOne DEF CheckCall
    <3>4. calls \cap {"pick", "edit"} = {} /\ "close" \notin calls
      OBVIOUS
    <3> HIDE DEF lock, look, free, check, calls
    <3>5. Does(lock \o look, calls, Files)
      BY <3>2, <3>3, DoesThen
    <3>6. Does((lock \o look) \o free, calls, Files)
      BY <3>2, <3>5, DoesThen
    <3>7. Does(((lock \o look) \o free) \o check, calls, Files)
      BY <3>3, <3>6, DoesThen
    <3> DEFINE t == ((lock \o look) \o free) \o check
    <3> HIDE DEF t
    <3>8. InOrder(t) /\ PickFirst(t) /\ ~Makes(t, {"pick"}) /\ ~Makes(t, {"close"})
      BY <3>4, <3>7, DoesNoEdit DEF t
    <3> QED BY <3>1, <3>8 DEF t
  <2> QED BY <2>3, <2>4
<1> QED BY <1>1, <1>2

(***************************************************************************)
(* What the files and the copies hold.                                     *)
(***************************************************************************)
\* The kinds of tables.
LEMMA Kinds ==
  ASSUME NEW c
  PROVE  /\ Contents("passwd", c) <=> Table(c, User)
         /\ Contents("shadow", c) <=> c \subseteq Names
         /\ Contents("group", c) <=> Table(c, Group)
         /\ Contents("gshadow", c) <=> Table(c, SUBSET Names)
BY DEF Contents

\* An entry put into a table (the update functions of the files).
LEMMA PutTable ==
  ASSUME NEW Entry, NEW t, Table(t, Entry), NEW n \in Names, NEW e \in Entry
  PROVE  Table(Put(t, n, e), Entry)
BY DEF Table, Put

\* And one taken from it (the remove functions of the files).
LEMMA DropTable ==
  ASSUME NEW Entry, NEW t, Table(t, Entry), NEW n
  PROVE  Table(Drop(t, n), Entry)
BY DEF Table, Drop

\* Two users of a table share a uid only when it may be shared.
Distinct(passwd, shared) ==
  \A m, n \in DOMAIN passwd :
    passwd[m].uid = passwd[n].uid => m = n \/ passwd[m].uid \in shared

\* An entry with a uid that is free, or that may be shared.
LEMMA PutDistinct ==
  ASSUME NEW t, NEW shared, Distinct(t, shared), NEW n, NEW e,
         e.uid \in shared \/ \A m \in DOMAIN t \ {n} : t[m].uid # e.uid
  PROVE  Distinct(Put(t, n, e), shared)
<1> DEFINE u == Put(t, n, e)
<1>1. /\ DOMAIN u = DOMAIN t \cup {n} /\ u[n] = e
      /\ \A m \in DOMAIN t \ {n} : u[m] = t[m]
  BY DEF Put
<1> HIDE DEF u
<1> SUFFICES ASSUME NEW k \in DOMAIN u, NEW l \in DOMAIN u, u[k].uid = u[l].uid, k # l
             PROVE  u[k].uid \in shared
  BY DEF Distinct, u
<1>2. CASE k = n \/ l = n
  BY <1>1, <1>2
<1>3. CASE k # n /\ l # n
  BY <1>1, <1>3 DEF Distinct
<1> QED BY <1>2, <1>3

\* Removing an entry makes no second user with a uid.
LEMMA DropDistinct ==
  ASSUME NEW t, NEW shared, Distinct(t, shared), NEW n
  PROVE  Distinct(Drop(t, n), shared)
BY DEF Distinct, Drop

\* The copies of a tool hold tables of their kind.
Copies(mem) == \A f \in Files : mem[f] # Closed => Contents(f, mem[f])

\* A tool whose job names a user or a group.
Named(job) == job.tool # "newusers" => job.name \in Names

\* The checks change only the identifiers and the new name.
LEMMA CheckedJob ==
  ASSUME ToolsAssumption, \A f \in Files : Contents(f, disk[f]),
         NEW job \in Job, Named(job), NEW j \in Checked(job)
  PROVE  /\ j \in Job /\ j.tool = job.tool /\ j.name = job.name /\ j.lines = job.lines
         /\ j.flags = job.flags /\ j.uid \in {0, job.uid}
<1>0. /\ Table(disk["passwd"], User) /\ Table(disk["group"], Group)
      /\ job.uid \in Ids \cup {0} /\ job.gid \in Ids \cup {0} /\ job.newName \in Names \cup {Unset}
  BY Kinds DEF Files, Job
<1>1. CASE job.tool = "useradd"
  BY <1>1 DEF Checked, UseraddChecked
<1>2. CASE job.tool = "usermod"
  <2>1. PICK u, g, n : /\ j = [job EXCEPT !.uid = u, !.gid = g, !.newName = n]
                       /\ u \in {0, job.uid} /\ g \in {0, job.gid} /\ n \in {Unset, job.newName}
    BY <1>2 DEF Checked, UsermodChecked
  <2> QED BY <1>0, <2>1 DEF Job
<1>3. CASE job.tool = "userdel"
  <2>1. PICK n \in {job.name} \cap DOMAIN disk["passwd"] :
             j = [job EXCEPT !.gid = disk["passwd"][n].gid]
    BY <1>3 DEF Checked, UserdelChecked
  <2>2. disk["passwd"][n].gid \in Ids
    BY <1>0, <2>1 DEF Table, User
  <2> QED BY <1>0, <2>1, <2>2 DEF Job
<1>4. CASE job.tool = "groupadd"
  <2>1. PICK g : j = [job EXCEPT !.gid = g] /\ g \in {0, job.gid}
    BY <1>4 DEF Checked, GroupaddChecked
  <2> QED BY <1>0, <2>1 DEF Job
<1>5. CASE job.tool = "groupdel"
  BY <1>5 DEF Checked, GroupdelChecked
<1>6. CASE job.tool \notin {"useradd", "usermod", "userdel", "groupadd", "groupdel"}
  <2>1. PICK g, n : /\ j = [job EXCEPT !.gid = g, !.newName = n]
                    /\ g \in {0, job.gid} /\ n \in {Unset, job.newName}
    BY <1>6 DEF Checked, GroupmodChecked
  <2> QED BY <1>0, <2>1 DEF Job
<1> QED BY <1>1, <1>2, <1>3, <1>4, <1>5, <1>6

\* The updates of the tools: the copies keep their kind, and passwd gets no
\* second user with a uid.
EditFits(new, mem, shared) ==
  /\ Copies(new) /\ \A f \in Files : mem[f] # Closed => Contents(f, new[f])
  /\ mem["passwd"] # Closed /\ Distinct(mem["passwd"], shared) =>
       Distinct(new["passwd"], shared)

\* It is enough to look at the files that are open.
LEMMA FileByFile ==
  ASSUME NEW mem, NEW new, NEW shared,
         \A f \in Files : mem[f] = Closed => new[f] = Closed,
         mem["passwd"] # Closed => Table(new["passwd"], User),
         mem["shadow"] # Closed => new["shadow"] \subseteq Names,
         mem["group"] # Closed => Table(new["group"], Group),
         mem["gshadow"] # Closed => Table(new["gshadow"], SUBSET Names),
         mem["passwd"] # Closed /\ Distinct(mem["passwd"], shared) =>
           Distinct(new["passwd"], shared)
  PROVE  EditFits(new, mem, shared)
BY Kinds DEF EditFits, Copies, Files

\* The copies of a tool, by kind.
LEMMA CopyKinds ==
  ASSUME NEW mem, Copies(mem)
  PROVE  /\ mem["passwd"] # Closed => Table(mem["passwd"], User)
         /\ mem["shadow"] # Closed => mem["shadow"] \subseteq Names
         /\ mem["group"] # Closed => Table(mem["group"], Group)
         /\ mem["gshadow"] # Closed => Table(mem["gshadow"], SUBSET Names)
BY Kinds DEF Copies, Files

\* useradd (usr_update, grp_add and grp_update).
LEMMA UseraddFits ==
  ASSUME ToolsAssumption, NEW job \in Job, job.name \in Names, job.uid \in Ids,
         NEW mem, Copies(mem), NEW shared,
         mem["passwd"] # Closed => job.uid \in shared \/ job.uid \notin Uids(mem["passwd"]),
         NEW new \in UseraddEdit(job, mem),
         \A f \in Files : mem[f] = Closed => new[f] = Closed
  PROVE  EditFits(new, mem, shared)
<1> DEFINE own == "usergroup" \in job.flags
           gid == IF own THEN FindNewUserGid(mem["group"], job.uid, job) ELSE job.gid
           group   == IF own THEN Put(mem["group"], job.name, [gid |-> gid, members |-> {}])
                             ELSE mem["group"]
           gshadow == IF own THEN Put(mem["gshadow"], job.name, {}) ELSE mem["gshadow"]
           add(g)  == IF g \in job.groups THEN {job.name} ELSE {}
<1>1. PICK i \in {gid} \ {0} :
        /\ new["passwd"] = Put(mem["passwd"], job.name, [uid |-> job.uid, gid |-> i])
        /\ new["shadow"] = mem["shadow"] \cup {job.name}
        /\ new["group"] = [g \in DOMAIN group |-> [group[g] EXCEPT !.members = @ \cup add(g)]]
        /\ new["gshadow"] = [g \in DOMAIN gshadow |->
                               IF g \in DOMAIN group THEN gshadow[g] \cup add(g) ELSE gshadow[g]]
  BY DEF UseraddEdit, Files
<1>2. gid \in Ids \cup {0}
  <2>1. job.gid \in Ids \cup {0}
    BY DEF Job
  <2> QED BY <2>1, FindNewUserGidIsFree
<1> HIDE DEF gid
<1>3. [uid |-> job.uid, gid |-> i] \in User
  BY <1>1, <1>2 DEF User
<1>4. \A g : add(g) \subseteq Names
  OBVIOUS
<1> HIDE DEF add
<1>5. ASSUME mem["passwd"] # Closed PROVE Table(new["passwd"], User)
  BY <1>1, <1>3, <1>5, CopyKinds, PutTable
<1>6. ASSUME mem["passwd"] # Closed, Distinct(mem["passwd"], shared)
      PROVE  Distinct(new["passwd"], shared)
  <2> DEFINE e == [uid |-> job.uid, gid |-> i]
  <2>1. e.uid = job.uid
    OBVIOUS
  <2> HIDE DEF e
  <2>2. \/ e.uid \in shared
        \/ \A m \in DOMAIN mem["passwd"] \ {job.name} : mem["passwd"][m].uid # e.uid
    BY <1>6, <2>1 DEF Uids
  <2>3. Distinct(Put(mem["passwd"], job.name, e), shared)
    BY <1>6, <2>2, PutDistinct
  <2> QED BY <1>1, <2>3 DEF e
<1>7. ASSUME mem["shadow"] # Closed PROVE new["shadow"] \subseteq Names
  BY <1>1, <1>7, CopyKinds
<1>8. ASSUME mem["group"] # Closed PROVE Table(new["group"], Group)
  <2>1. Table(group, Group)
    <3>1. own => gid # 0 /\ gid \in Ids
      BY <1>1, <1>2
    <3>2. own => [gid |-> gid, members |-> {}] \in Group
      BY <3>1 DEF Group
    <3>3. own => Table(Put(mem["group"], job.name, [gid |-> gid, members |-> {}]), Group)
      BY <1>8, <3>2, CopyKinds, PutTable
    <3> QED BY <1>8, <3>3, CopyKinds
  <2> HIDE DEF group
  <2> QED BY <1>1, <1>4, <2>1 DEF Table, Group
<1>9. ASSUME mem["gshadow"] # Closed PROVE Table(new["gshadow"], SUBSET Names)
  <2>1. Table(gshadow, SUBSET Names)
    <3>1. {} \in SUBSET Names
      OBVIOUS
    <3>2. Table(Put(mem["gshadow"], job.name, {}), SUBSET Names)
      BY <1>9, <3>1, CopyKinds, PutTable
    <3> QED BY <1>9, <3>2, CopyKinds
  <2> HIDE DEF group, gshadow
  <2> QED BY <1>1, <1>4, <2>1 DEF Table
<1> QED BY <1>5, <1>6, <1>7, <1>8, <1>9, FileByFile

\* Who is in a group after usermod.
LEMMA UsermodMembersNames ==
  ASSUME NEW job \in Job, job.name \in Names, NEW g, NEW had \in SUBSET Names
  PROVE  UsermodMembers(job, g, had) \in SUBSET Names
<1>1. UsermodName(job) \in Names
  BY DEF UsermodName, Job
<1>2. PICK stays : UsermodMembers(job, g, had) =
                     (had \ {job.name}) \cup (IF stays THEN {UsermodName(job)} ELSE {})
  BY DEF UsermodMembers
<1> QED BY <1>1, <1>2

\* usermod: a user keeps its uid or gets the one of -u, under either name.
LEMMA UsermodFits ==
  ASSUME NEW job \in Job, job.name \in Names, NEW mem, Copies(mem), NEW shared,
         job.uid # 0 => job.uid \in shared, NEW new \in UsermodEdit(job, mem),
         \A f \in Files : mem[f] = Closed => new[f] = Closed
  PROVE  EditFits(new, mem, shared)
<1> DEFINE name == UsermodName(job)
           usr  == job.newName # Unset \/ job.uid # 0 \/ job.gid # 0
<1>0. name \in Names
  BY DEF UsermodName, Job
<1>1. PICK n \in {job.name} :
        /\ usr => n \in DOMAIN mem["passwd"]
        /\ mem["passwd"] # Closed => new["passwd"] =
             IF usr THEN Put(Drop(mem["passwd"], n), name, UsermodEntry(job, mem["passwd"][n]))
                    ELSE mem["passwd"]
        /\ mem["shadow"] # Closed => new["shadow"] =
             IF n \in mem["shadow"] THEN (mem["shadow"] \ {n}) \cup {name} ELSE mem["shadow"]
        /\ mem["group"] # Closed => new["group"] =
             [g \in DOMAIN mem["group"] |->
                [mem["group"][g] EXCEPT !.members = UsermodMembers(job, g, @)]]
        /\ mem["gshadow"] # Closed => new["gshadow"] =
             [g \in DOMAIN mem["gshadow"] |-> UsermodMembers(job, g, mem["gshadow"][g])]
  BY DEF UsermodEdit, Files
<1> HIDE DEF name, usr
<1>2. ASSUME mem["passwd"] # Closed PROVE Table(new["passwd"], User)
  <2>1. Table(mem["passwd"], User)
    BY <1>2, CopyKinds
  <2>2. CASE usr
    <3> DEFINE e == UsermodEntry(job, mem["passwd"][n])
    <3>1. mem["passwd"][n] \in User
      BY <1>1, <2>1, <2>2 DEF Table
    <3>2. e \in User
      BY <3>1 DEF UsermodEntry, User, Job
    <3>3. Table(Drop(mem["passwd"], n), User)
      BY <2>1, DropTable
    <3> HIDE DEF e
    <3>4. Table(Put(Drop(mem["passwd"], n), name, e), User)
      BY <1>0, <3>2, <3>3, PutTable
    <3> QED BY <1>1, <1>2, <2>2, <3>4 DEF e
  <2> QED BY <1>1, <1>2, <2>1, <2>2
<1>3. ASSUME mem["passwd"] # Closed, Distinct(mem["passwd"], shared)
      PROVE  Distinct(new["passwd"], shared)
  <2> DEFINE t == mem["passwd"]
  <2>2. CASE usr
    <3> DEFINE e == UsermodEntry(job, t[n])
               u == Drop(t, n)
    <3>1. e.uid = (IF job.uid = 0 THEN t[n].uid ELSE job.uid)
      BY DEF UsermodEntry
    <3>2. n \in DOMAIN t
      BY <1>1, <2>2
    <3>3. DOMAIN u = DOMAIN t \ {n} /\ \A m \in DOMAIN t \ {n} : u[m] = t[m]
      BY DEF Drop
    <3>4. Distinct(u, shared)
      BY <1>3, DropDistinct
    <3> HIDE DEF e, u
    <3>5. e.uid \in shared \/ \A m \in DOMAIN u \ {name} : u[m].uid # e.uid
      BY <1>3, <3>1, <3>2, <3>3 DEF Distinct
    <3>6. Distinct(Put(u, name, e), shared)
      BY <3>4, <3>5, PutDistinct
    <3> QED BY <1>1, <1>3, <2>2, <3>6 DEF e, u
  <2> QED BY <1>1, <1>3, <2>2
<1>4. ASSUME mem["shadow"] # Closed PROVE new["shadow"] \subseteq Names
  BY <1>0, <1>1, <1>4, CopyKinds
<1>5. ASSUME mem["group"] # Closed PROVE Table(new["group"], Group)
  <2> DEFINE t == mem["group"]
  <2>1. Table(t, Group)
    BY <1>5, CopyKinds
  <2>2. \A g \in DOMAIN t : UsermodMembers(job, g, t[g].members) \in SUBSET Names
    BY <2>1, UsermodMembersNames DEF Table, Group
  <2>3. new["group"] = [g \in DOMAIN t |->
                          [t[g] EXCEPT !.members = UsermodMembers(job, g, t[g].members)]]
    BY <1>1, <1>5
  <2> HIDE DEF t
  <2> QED BY <2>1, <2>2, <2>3 DEF Table, Group
<1>6. ASSUME mem["gshadow"] # Closed PROVE Table(new["gshadow"], SUBSET Names)
  <2> DEFINE t == mem["gshadow"]
  <2>1. Table(t, SUBSET Names)
    BY <1>6, CopyKinds
  <2>2. \A g \in DOMAIN t : UsermodMembers(job, g, t[g]) \in SUBSET Names
    BY <2>1, UsermodMembersNames DEF Table
  <2>3. new["gshadow"] = [g \in DOMAIN t |-> UsermodMembers(job, g, t[g])]
    BY <1>1, <1>6
  <2> HIDE DEF t
  <2> QED BY <2>1, <2>2, <2>3 DEF Table
<1> QED BY <1>2, <1>3, <1>4, <1>5, <1>6, FileByFile

\* userdel (update_user, update_groups and remove_usergroup).
LEMMA UserdelFits ==
  ASSUME NEW job, NEW mem, Copies(mem), NEW shared, NEW new \in UserdelEdit(job, mem),
         \A f \in Files : mem[f] = Closed => new[f] = Closed
  PROVE  EditFits(new, mem, shared)
<1> DEFINE group == [g \in DOMAIN mem["group"] |->
                       [mem["group"][g] EXCEPT !.members = @ \ {job.name}]]
<1> DEFINE remove  == /\ job.name \in DOMAIN group
                      /\ group[job.name] = [gid |-> job.gid, members |-> {}]
                      /\ \/ "f" \in job.flags
                         \/ PrimaryOf(job.gid, disk["passwd"]) \subseteq {job.name}
           gshadow == IF remove THEN Drop(mem["gshadow"], job.name) ELSE mem["gshadow"]
<1>1. PICK n : /\ new["passwd"] = Drop(mem["passwd"], n)
               /\ new["shadow"] = mem["shadow"] \ {n}
               /\ new["group"] = IF remove THEN Drop(group, n) ELSE group
               /\ new["gshadow"] = [g \in DOMAIN gshadow |-> gshadow[g] \ {n}]
  BY DEF UserdelEdit, Files
<1> HIDE DEF remove
<1>2. mem["passwd"] # Closed => Table(new["passwd"], User)
  BY <1>1, CopyKinds, DropTable
<1>3. mem["passwd"] # Closed /\ Distinct(mem["passwd"], shared) => Distinct(new["passwd"], shared)
  BY <1>1, DropDistinct
<1>4. mem["shadow"] # Closed => new["shadow"] \subseteq Names
  BY <1>1, CopyKinds
<1>5. ASSUME mem["group"] # Closed PROVE Table(new["group"], Group)
  <2>1. Table(mem["group"], Group)
    BY <1>5, CopyKinds
  <2>2. Table(group, Group)
    BY <2>1 DEF Table, Group
  <2> HIDE DEF group
  <2> QED BY <1>1, <2>2, DropTable
<1>6. ASSUME mem["gshadow"] # Closed PROVE Table(new["gshadow"], SUBSET Names)
  <2>1. Table(mem["gshadow"], SUBSET Names)
    BY <1>6, CopyKinds
  <2>2. Table(gshadow, SUBSET Names)
    BY <2>1, DropTable
  <2>3. new["gshadow"] = [g \in DOMAIN gshadow |-> gshadow[g] \ {n}]
    BY <1>1
  <2> HIDE DEF gshadow
  <2> QED BY <2>2, <2>3 DEF Table
<1> QED BY <1>2, <1>3, <1>4, <1>5, <1>6, FileByFile

\* groupadd (grp_update with the users of -U, who are in passwd).
LEMMA GroupaddFits ==
  ASSUME ToolsAssumption, DOMAIN disk["passwd"] \subseteq Names,
         NEW job \in Job, job.name \in Names, NEW mem, mem = [f \in Files |-> mem[f]],
         Copies(mem), NEW shared, NEW new \in GroupaddEdit(job, mem),
         \A f \in Files : mem[f] = Closed => new[f] = Closed
  PROVE  EditFits(new, mem, shared)
<1> DEFINE gid   == IF job.gid # 0 THEN job.gid ELSE FindNewGid(mem["group"], job)
           users == IF job.users = Unset THEN {} ELSE job.users
<1>1. PICK i \in {gid} \ {0} :
        /\ users \subseteq DOMAIN disk["passwd"]
        /\ new = [mem EXCEPT !["group"]   = Put(@, job.name, [gid |-> i, members |-> users]),
                             !["gshadow"] = Put(@, job.name, users)]
  BY DEF GroupaddEdit
<1>2. gid \in Ids \cup {0}
  <2>1. FindNewGid(mem["group"], job) \in Ids \cup {0}
    BY FindNewIsFree DEF FindNewGid
  <2> QED BY <2>1 DEF Job
<1>3. users \in SUBSET Names
  BY <1>1
<1> HIDE DEF gid, users
<1>4. [gid |-> i, members |-> users] \in Group
  BY <1>1, <1>2, <1>3 DEF Group
<1>5. /\ new["passwd"] = mem["passwd"] /\ new["shadow"] = mem["shadow"]
      /\ new["group"] = Put(mem["group"], job.name, [gid |-> i, members |-> users])
      /\ new["gshadow"] = Put(mem["gshadow"], job.name, users)
  BY <1>1 DEF Files
<1>6. mem["group"] # Closed => Table(new["group"], Group)
  BY <1>4, <1>5, CopyKinds, PutTable
<1>7. ASSUME mem["gshadow"] # Closed PROVE Table(new["gshadow"], SUBSET Names)
  <2>1. Table(mem["gshadow"], SUBSET Names)
    BY <1>7, CopyKinds
  <2>2. Table(Put(mem["gshadow"], job.name, users), SUBSET Names)
    BY <1>3, <2>1, PutTable
  <2> QED BY <1>5, <2>2
<1> QED BY <1>5, <1>6, <1>7, CopyKinds, FileByFile

\* groupdel (grp_update).
LEMMA GroupdelFits ==
  ASSUME NEW job, NEW mem, mem = [f \in Files |-> mem[f]], Copies(mem), NEW shared,
         NEW new \in GroupdelEdit(job, mem),
         \A f \in Files : mem[f] = Closed => new[f] = Closed
  PROVE  EditFits(new, mem, shared)
<1>1. PICK n : new = [mem EXCEPT !["group"] = Drop(@, n), !["gshadow"] = Drop(@, n)]
  BY DEF GroupdelEdit
<1>2. /\ new["passwd"] = mem["passwd"] /\ new["shadow"] = mem["shadow"]
      /\ new["group"] = Drop(mem["group"], n) /\ new["gshadow"] = Drop(mem["gshadow"], n)
  BY <1>1 DEF Files
<1>3. mem["group"] # Closed => Table(new["group"], Group)
  BY <1>2, CopyKinds, DropTable
<1>4. mem["gshadow"] # Closed => Table(new["gshadow"], SUBSET Names)
  BY <1>2, CopyKinds, DropTable
<1> QED BY <1>2, <1>3, <1>4, CopyKinds, FileByFile

\* groupmod, which gives the users of the group a new gid and no new uid
\* (update_primary_groups).
LEMMA GroupmodFits ==
  ASSUME ToolsAssumption, DOMAIN disk["passwd"] \subseteq Names,
         NEW job \in Job, job.name \in Names, NEW mem, Copies(mem), NEW shared,
         NEW new \in GroupmodEdit(job, mem),
         \A f \in Files : mem[f] = Closed => new[f] = Closed
  PROVE  EditFits(new, mem, shared)
<1> DEFINE old  == mem["group"][job.name]
           name == IF job.newName = Unset THEN job.name ELSE job.newName
           users(had) == IF job.users = Unset THEN had
                         ELSE (IF "a" \in job.flags THEN had ELSE {}) \cup job.users
           rest(table) == IF name = job.name THEN table ELSE Drop(table, job.name)
           moved == IF job.gid = 0 THEN {} ELSE PrimaryOf(old.gid, disk["passwd"])
           group == [gid |-> IF job.gid = 0 THEN old.gid ELSE job.gid,
                     members |-> users(old.members)]
<1>0. name \in Names
  BY DEF Job
<1>1. /\ job.name \in DOMAIN mem["group"]
      /\ job.users # Unset => job.users \subseteq DOMAIN disk["passwd"]
  BY DEF GroupmodEdit
<1>2. /\ new["shadow"] = mem["shadow"]
      /\ new["group"] = Put(rest(mem["group"]), name, group)
      /\ mem["gshadow"] # Closed => new["gshadow"] =
           IF job.name \in DOMAIN mem["gshadow"]
           THEN Put(rest(mem["gshadow"]), name, users(mem["gshadow"][job.name]))
           ELSE mem["gshadow"]
      /\ mem["passwd"] # Closed => new["passwd"] =
           [u \in DOMAIN mem["passwd"] |-> IF u \in moved
                                          THEN [mem["passwd"][u] EXCEPT !.gid = job.gid]
                                          ELSE mem["passwd"][u]]
  BY DEF GroupmodEdit, Files
<1>3. \A had \in SUBSET Names : users(had) \in SUBSET Names
  BY <1>1
<1>4. ASSUME NEW Entry, NEW t, Table(t, Entry) PROVE Table(rest(t), Entry)
  BY <1>4, DropTable
<1>5. \A u \in moved : job.gid \in Ids
  BY DEF Job
<1> HIDE DEF name, users, rest, moved
<1>6. ASSUME mem["passwd"] # Closed
      PROVE  /\ Table(new["passwd"], User)
             /\ Distinct(mem["passwd"], shared) => Distinct(new["passwd"], shared)
  <2> DEFINE t == mem["passwd"]
             v == new["passwd"]
  <2>1. Table(t, User)
    BY <1>6, CopyKinds
  <2>2. v = [u \in DOMAIN t |-> IF u \in moved THEN [t[u] EXCEPT !.gid = job.gid] ELSE t[u]]
    BY <1>2, <1>6
  <2> HIDE DEF t, v
  <2>3. \A u \in DOMAIN t : v[u] \in User /\ v[u].uid = t[u].uid
    BY <1>5, <2>1, <2>2 DEF Table, User
  <2>4. DOMAIN v = DOMAIN t
    BY <2>2
  <2>5. Table(v, User) /\ (Distinct(t, shared) => Distinct(v, shared))
    <3>1. v = [u \in DOMAIN v |-> v[u]]
      BY <2>2
    <3> QED BY <2>1, <2>3, <2>4, <3>1 DEF Table, Distinct
  <2> QED BY <2>5 DEF t, v
<1>7. ASSUME mem["group"] # Closed PROVE Table(new["group"], Group)
  <2>1. Table(mem["group"], Group)
    BY <1>7, CopyKinds
  <2>2. old \in Group
    BY <1>1, <2>1 DEF Table
  <2>3. group \in Group
    <3>1. old.members \in SUBSET Names /\ old.gid \in Ids
      BY <2>2 DEF Group
    <3>2. users(old.members) \in SUBSET Names
      BY <1>3, <3>1
    <3> QED BY <3>1, <3>2 DEF Group, Job
  <2>4. Table(rest(mem["group"]), Group)
    BY <1>4, <2>1
  <2> HIDE DEF group
  <2>5. Table(Put(rest(mem["group"]), name, group), Group)
    BY <1>0, <2>3, <2>4, PutTable
  <2> QED BY <1>2, <2>5
<1>8. ASSUME mem["gshadow"] # Closed PROVE Table(new["gshadow"], SUBSET Names)
  <2> DEFINE t == mem["gshadow"]
  <2>1. Table(t, SUBSET Names)
    BY <1>8, CopyKinds
  <2>2. CASE job.name \in DOMAIN t
    <3>1. t[job.name] \in SUBSET Names
      BY <2>1, <2>2 DEF Table
    <3> DEFINE e == users(t[job.name])
    <3>2. e \in SUBSET Names
      BY <1>3, <3>1
    <3>3. Table(rest(t), SUBSET Names)
      BY <1>4, <2>1
    <3> HIDE DEF e
    <3>4. Table(Put(rest(t), name, e), SUBSET Names)
      BY <1>0, <3>2, <3>3, PutTable
    <3> QED BY <1>2, <1>8, <2>2, <3>4 DEF e
  <2> QED BY <1>2, <1>8, <2>1, <2>2
<1>9. mem["shadow"] # Closed => new["shadow"] \subseteq Names
  BY <1>2, CopyKinds
<1> QED BY <1>6, <1>7, <1>8, <1>9, FileByFile

\* So the edit of any of the tools fits when the uid of useradd is free in the
\* copy and that of usermod may be shared.
LEMMA EditedFits ==
  ASSUME ToolsAssumption, DOMAIN disk["passwd"] \subseteq Names,
         NEW job \in Job, Named(job), NEW mem, mem = [f \in Files |-> mem[f]],
         Copies(mem), NEW shared, NEW new \in Edited(job, mem),
         job.tool = "useradd" => /\ job.uid \in Ids
                                 /\ mem["passwd"] # Closed =>
                                      job.uid \in shared \/ job.uid \notin Uids(mem["passwd"]),
         job.tool = "usermod" /\ job.uid # 0 => job.uid \in shared
  PROVE  EditFits(new, mem, shared)
<1>1. new \in EditsOf(job, mem) /\ \A f \in Files : mem[f] = Closed => new[f] = Closed
  BY DEF Edited
<1>2. job.tool # "newusers" => job.name \in Names
  BY DEF Named
<1>3. CASE job.tool = "useradd"
  <2>1. new \in UseraddEdit(job, mem)
    BY <1>1, <1>3 DEF EditsOf
  <2> QED BY <1>1, <1>2, <1>3, <2>1, UseraddFits
<1>4. CASE job.tool = "usermod"
  <2>1. new \in UsermodEdit(job, mem)
    BY <1>1, <1>4 DEF EditsOf
  <2> QED BY <1>1, <1>2, <1>4, <2>1, UsermodFits
<1>5. CASE job.tool = "userdel"
  <2>1. new \in UserdelEdit(job, mem)
    BY <1>1, <1>5 DEF EditsOf
  <2> QED BY <1>1, <2>1, UserdelFits
<1>6. CASE job.tool = "groupadd"
  <2>1. new \in GroupaddEdit(job, mem)
    BY <1>1, <1>6 DEF EditsOf
  <2> QED BY <1>1, <1>2, <1>6, <2>1, GroupaddFits
<1>7. CASE job.tool = "groupdel"
  <2>1. new \in GroupdelEdit(job, mem)
    BY <1>1, <1>7 DEF EditsOf
  <2> QED BY <1>1, <2>1, GroupdelFits
<1>8. CASE job.tool = "newusers"
  <2>1. new = mem
    BY <1>1, <1>8 DEF EditsOf
  <2> QED BY <2>1 DEF EditFits, Copies
<1>9. CASE job.tool \notin {"useradd", "usermod", "userdel", "groupadd", "groupdel", "newusers"}
  <2>1. new \in GroupmodEdit(job, mem)
    BY <1>1, <1>9 DEF EditsOf
  <2> QED BY <1>1, <1>2, <1>9, <2>1, GroupmodFits
<1> QED BY <1>3, <1>4, <1>5, <1>6, <1>7, <1>8, <1>9

\* The group of a line of newusers is there, or is made.
LEMMA AddGroupFits ==
  ASSUME ToolsAssumption, NEW line \in Line, NEW uid \in Ids, NEW mem, NEW job,
         mem = [f \in Files |-> mem[f]], Copies(mem), \A f \in Files : mem[f] # Closed,
         NEW new \in AddGroup(line, uid, mem, job)
  PROVE  /\ new.gid \in Ids /\ new.mem["passwd"] = mem["passwd"]
         /\ new.mem["shadow"] = mem["shadow"]
         /\ Table(new.mem["group"], Group) /\ Table(new.mem["gshadow"], SUBSET Names)
<1> DEFINE group == mem["group"]
           name  == IF line.group = Unset THEN line.name ELSE line.group
           gid   == CASE line.group \in DOMAIN group -> group[line.group].gid
                      [] line.gid # 0 -> line.gid
                      [] OTHER -> FindNewUserGid(group, uid, job)
           found == line.group \in DOMAIN group \/ line.gid \in Gids(group)
           made(i) == [mem EXCEPT !["group"]   = Put(@, name, [gid |-> i, members |-> {}]),
                                  !["gshadow"] = Put(@, name, {})]
<1>1. PICK i \in {gid} \ {0} : new = [gid |-> i, mem |-> IF found THEN mem ELSE made(i)]
  BY DEF AddGroup
<1>2. Table(mem["group"], Group) /\ Table(mem["gshadow"], SUBSET Names)
  BY CopyKinds DEF Files
<1>3. gid \in Ids \cup {0}
  <2>1. FindNewUserGid(group, uid, job) \in Ids \cup {0}
    BY FindNewUserGidIsFree
  <2>2. \A g \in DOMAIN group : group[g].gid \in Ids
    BY <1>2 DEF Table, Group
  <2> QED BY <2>1, <2>2 DEF Line
<1>4. name \in Names
  BY DEF Line
<1> HIDE DEF found, gid, name
<1>5. i \in Ids /\ new.gid = i /\ new.mem = IF found THEN mem ELSE made(i)
  BY <1>1, <1>3
<1>6. Table(Put(mem["group"], name, [gid |-> i, members |-> {}]), Group)
  <2>1. [gid |-> i, members |-> {}] \in Group
    BY <1>5 DEF Group
  <2> QED BY <1>2, <1>4, <2>1, PutTable
<1>7. Table(Put(mem["gshadow"], name, {}), SUBSET Names)
  <2>1. {} \in SUBSET Names
    OBVIOUS
  <2> QED BY <1>2, <1>4, <2>1, PutTable
<1>8. /\ made(i)["passwd"] = mem["passwd"] /\ made(i)["shadow"] = mem["shadow"]
      /\ made(i)["group"] = Put(mem["group"], name, [gid |-> i, members |-> {}])
      /\ made(i)["gshadow"] = Put(mem["gshadow"], name, {})
  BY DEF Files
<1> HIDE DEF made
<1> QED BY <1>2, <1>5, <1>6, <1>7, <1>8

\* The uid of a line of newusers: a number of the input, the uid of another
\* user or one that nobody has.
LEMMA LineUidFits ==
  ASSUME ToolsAssumption, NEW line \in Line, line \in Lines, NEW passwd, NEW job,
         Table(passwd, User), line.name \notin DOMAIN passwd,
         NEW uid, uid = LineUid(line, passwd, job), uid # 0
  PROVE  /\ uid \in Ids
         /\ uid \in SharedUids \cup CopiedUid(line, passwd) \/ uid \notin Uids(passwd)
<1>1. CASE line.uid # 0
  <2>1. uid = line.uid
    BY <1>1 DEF LineUid
  <2> QED BY <1>1, <2>1 DEF Line, SharedUids
<1>2. CASE line.uid = 0 /\ line.uidOf # Unset
  <2>1. line.uidOf \in DOMAIN passwd /\ uid = passwd[line.uidOf].uid
    BY <1>2 DEF LineUid
  <2>2. uid \in CopiedUid(line, passwd)
    BY <1>2, <2>1 DEF CopiedUid
  <2> QED BY <2>1, <2>2 DEF Table, User
<1>3. CASE line.uid = 0 /\ line.uidOf = Unset
  <2>1. uid = FindNew(Uids(passwd), job)
    BY <1>3 DEF LineUid, FindNewUid
  <2>2. uid \in Ids \ Uids(passwd)
    BY <2>1, FindNewIsFree
  <2> QED BY <2>2
<1> QED BY <1>1, <1>2, <1>3

\* A line of newusers fits (add_group, add_user and add_passwd).
LEMMA AddLineFits ==
  ASSUME ToolsAssumption, NEW line \in Line, line \in Lines, NEW mem, NEW job,
         mem = [f \in Files |-> mem[f]], Copies(mem), \A f \in Files : mem[f] # Closed,
         NEW new \in AddLine(line, mem, job), NEW shared,
         SharedUids \cup CopiedUid(line, mem["passwd"]) \subseteq shared
  PROVE  EditFits(new, mem, shared)
<1> DEFINE uid == LineUid(line, mem["passwd"], job)
<1>1. /\ Table(mem["passwd"], User) /\ mem["shadow"] \subseteq Names
      /\ Table(mem["group"], Group) /\ Table(mem["gshadow"], SUBSET Names)
  BY CopyKinds DEF Files
<1>2. line.name \in Names
  BY DEF Line
<1>3. CASE line.name \in DOMAIN mem["passwd"]
  <2>1. new = [mem EXCEPT !["shadow"] = WithPassword(@, line.name)]
    BY <1>3 DEF AddLine
  <2>2. /\ new["passwd"] = mem["passwd"] /\ new["group"] = mem["group"]
        /\ new["gshadow"] = mem["gshadow"] /\ new["shadow"] = mem["shadow"] \cup {line.name}
    BY <2>1 DEF Files, WithPassword
  <2> QED BY <1>1, <1>2, <2>2, FileByFile
<1>4. CASE line.name \notin DOMAIN mem["passwd"]
  <2> DEFINE all == IF uid = 0 THEN {} ELSE AddGroup(line, uid, mem, job)
  <2>1. PICK m : /\ new = [m EXCEPT !["shadow"] = WithPassword(@, line.name)]
                 /\ m \in {[made.mem EXCEPT !["passwd"] =
                            Put(@, line.name, [uid |-> uid, gid |-> made.gid])] : made \in all}
    BY <1>4 DEF AddLine
  <2>2. PICK made \in AddGroup(line, uid, mem, job) :
          uid # 0 /\ m = [made.mem EXCEPT !["passwd"] =
                            Put(@, line.name, [uid |-> uid, gid |-> made.gid])]
    BY <2>1
  <2>3. /\ uid \in Ids
        /\ uid \in SharedUids \cup CopiedUid(line, mem["passwd"]) \/ uid \notin Uids(mem["passwd"])
    BY <1>1, <1>4, <2>2, LineUidFits
  <2> HIDE DEF uid
  <2>4. /\ made.gid \in Ids /\ made.mem["passwd"] = mem["passwd"]
        /\ made.mem["shadow"] = mem["shadow"]
        /\ Table(made.mem["group"], Group) /\ Table(made.mem["gshadow"], SUBSET Names)
    BY <2>2, <2>3, AddGroupFits
  <2>5. made.mem = [f \in Files |-> made.mem[f]]
    BY <2>2, AddGroupKeepsFiles
  <2> DEFINE e == [uid |-> uid, gid |-> made.gid]
  <2>6. e \in User /\ e.uid = uid
    BY <2>3, <2>4 DEF User
  <2>7. m = [made.mem EXCEPT !["passwd"] = Put(mem["passwd"], line.name, e)]
    BY <2>2, <2>4
  <2> HIDE DEF e
  <2>8. /\ new["passwd"] = Put(mem["passwd"], line.name, e)
        /\ new["shadow"] = mem["shadow"] \cup {line.name}
        /\ new["group"] = made.mem["group"] /\ new["gshadow"] = made.mem["gshadow"]
    BY <2>1, <2>4, <2>5, <2>7 DEF Files, WithPassword
  <2>9. Table(new["passwd"], User)
    BY <1>1, <1>2, <2>6, <2>8, PutTable
  <2>10. ASSUME Distinct(mem["passwd"], shared) PROVE Distinct(new["passwd"], shared)
    <3>1. \/ e.uid \in shared
          \/ \A n \in DOMAIN mem["passwd"] \ {line.name} : mem["passwd"][n].uid # e.uid
      BY <2>3, <2>6 DEF Uids
    <3> QED BY <2>8, <2>10, <3>1, PutDistinct
  <2> QED BY <1>1, <1>2, <2>4, <2>8, <2>9, <2>10, FileByFile DEF Files
<1> QED BY <1>3, <1>4

(***************************************************************************)
(* The invariant of the tables.                                            *)
(***************************************************************************)
\* The uid of useradd, once passwd is open for good: in the copy nobody has
\* it, or it may be shared.
Picked(job, script, passwd) ==
  /\ Call("open", "passwd") \notin Range(script)
  /\ job.uid \in Ids
  /\ passwd # Closed => job.uid \in SharedUids \/ job.uid \notin Uids(passwd)

\* What is left of a script is in order, and before its edit useradd picks the
\* uid or has picked it.
Orderly(job, script, passwd) ==
  /\ InOrder(script)
  /\ job.tool = "useradd" => PickFirst(script) \/ Picked(job, script, passwd)
  /\ Makes(script, {"pick"}) => job.tool = "useradd"

\* The command line, as the checks have left it.
JobFits(job, script) ==
  /\ job \in Job /\ Named(job) /\ Range(job.lines) \subseteq Lines
  /\ /\ job.uid # 0
     /\ \/ job.tool = "usermod"
        \/ job.tool = "useradd" /\ "o" \in job.flags /\ Makes(script, {"check", "pick"})
     => job.uid \in SharedUids

\* Until a tool edits its copies they are what it has read.
Untouched(job, script, mem, base) ==
  job.tool # "newusers" /\ Makes(script, {"check", "pick", "edit"}) =>
    \A f \in Files : mem[f] \in {Closed, base[f]}

\* The open copies.
CopiesFit(mem, shared) ==
  Copies(mem) /\ (mem["passwd"] # Closed => Distinct(mem["passwd"], shared))

\* A process that runs a tool.
WorkFits(w, shared) ==
  /\ Orderly(w.job, w.script, w.mem["passwd"])
  /\ JobFits(w.job, w.script)
  /\ Untouched(w.job, w.script, w.mem, w.base)
  /\ CopiesFit(w.mem, shared)
  /\ w.written \subseteq Files

\* The files.
DiskFits(d, shared) == (\A f \in Files : Contents(f, d[f])) /\ Distinct(d["passwd"], shared)

\* The uids that two users may share by now.
Shared == SharedUids \cup copied

\* The inductive invariant of TypeOK and of UidsUnique.
FitsInv ==
  /\ copied \subseteq Ids
  /\ DiskFits(disk, Shared)
  /\ \A p \in Procs : work[p] # Idle => WorkFits(work[p], Shared)

\* What fits still fits when more uids may be shared.
LEMMA MoreShared ==
  ASSUME NEW few, NEW many, few \subseteq many
  PROVE  /\ \A t : Distinct(t, few) => Distinct(t, many)
         /\ \A mem : CopiesFit(mem, few) => CopiesFit(mem, many)
         /\ \A w : WorkFits(w, few) => WorkFits(w, many)
         /\ \A d : DiskFits(d, few) => DiskFits(d, many)
<1>1. ASSUME NEW t, Distinct(t, few) PROVE Distinct(t, many)
  BY <1>1 DEF Distinct
<1>2. ASSUME NEW mem, CopiesFit(mem, few) PROVE CopiesFit(mem, many)
  BY <1>1, <1>2 DEF CopiesFit
<1>3. ASSUME NEW w, WorkFits(w, few) PROVE WorkFits(w, many)
  BY <1>2, <1>3 DEF WorkFits
<1>4. ASSUME NEW d, DiskFits(d, few) PROVE DiskFits(d, many)
  BY <1>1, <1>4 DEF DiskFits
<1> QED BY <1>1, <1>2, <1>3, <1>4

\* A step of p that leaves a record that fits.
LEMMA StepFits ==
  ASSUME Shape, FitsInv, NEW p \in Procs, NEW v, IsWork(v), Becomes(p, v),
         v # Idle => WorkFits(v, Shared'), copied \subseteq copied', copied' \subseteq Ids,
         DiskFits(disk', Shared')
  PROVE  FitsInv'
<1>1. work'[p] \in {v, Idle} /\ \A q \in Procs \ {p} : work'[q] = work[q]
  BY BecomesWork
<1>2. Shared \subseteq Shared'
  BY DEF Shared
<1>3. ASSUME NEW q \in Procs, work'[q] # Idle PROVE WorkFits(work'[q], Shared')
  <2>1. CASE q = p
    BY <1>1, <1>3, <2>1
  <2>2. CASE q # p
    <3>1. WorkFits(work[q], Shared) /\ work'[q] = work[q]
      BY <1>1, <1>3, <2>2 DEF FitsInv
    <3> DEFINE few == Shared
               many == Shared'
    <3>2. few \subseteq many /\ WorkFits(work[q], few)
      BY <1>2, <3>1
    <3> HIDE DEF few, many
    <3>3. WorkFits(work[q], many)
      BY <3>2, MoreShared
    <3> QED BY <3>1, <3>3 DEF many
  <2> QED BY <2>1, <2>2
<1>4. Idle' = Idle
  BY DEF Idle
<1> QED BY <1>3, <1>4 DEF FitsInv

\* The record of a process that makes a call.
LEMMA WorkNow ==
  ASSUME Shape, LocksInv, FitsInv, NEW p \in Procs, NEW do, Doing(p, do)
  PROVE  LET s == work[p].script
         IN  /\ WorkFits(work[p], Shared) /\ Head(s) = Call(do, Now(p))
             /\ s \in Seq(Calls) /\ s # <<>> /\ Tail(s) \in Seq(Calls)
             /\ InOrder(Tail(s)) /\ Head(s) \in Range(s) /\ Range(Tail(s)) \subseteq Range(s)
             /\ \A c \in Range(Tail(s)) : ~Late(Head(s), c)
             /\ PickFirst(s) => do # "edit"
             /\ PickFirst(s) /\ do # "pick" => PickFirst(Tail(s))
             /\ \A dos : Makes(Tail(s), dos) => Makes(s, dos)
             /\ \A dos : do \in dos => Makes(s, dos)
<1> DEFINE s == work[p].script
<1>1. s # <<>> /\ Head(s) = Call(do, Now(p))
  BY CallNow
<1>2. s \in Seq(Calls)
  BY DEF LocksInv, GivesBack
<1>3. work[p] # Idle
  BY <1>1 DEF Idle
<1>4. WorkFits(work[p], Shared)
  BY <1>3 DEF FitsInv
<1>5. InOrder(s) /\ Head(s).do = do
  BY <1>1, <1>4 DEF WorkFits, Orderly, Call
<1> HIDE DEF s
<1>6. /\ Tail(s) \in Seq(Calls) /\ Range(Tail(s)) \subseteq Range(s) /\ Head(s) \in Range(s)
      /\ InOrder(Tail(s))
      /\ \A c \in Range(Tail(s)) : ~Late(Head(s), c)
      /\ PickFirst(s) => do # "edit"
      /\ PickFirst(s) /\ do # "pick" => PickFirst(Tail(s))
  BY <1>1, <1>2, <1>5, OrderTail
<1>7. /\ \A dos : Makes(Tail(s), dos) => Makes(s, dos)
      /\ \A dos : do \in dos => Makes(s, dos)
  BY <1>5, <1>6 DEF Makes
<1> QED BY <1>1, <1>2, <1>4, <1>6, <1>7 DEF s

\* A process that has gone on with its script.
LEMMA Proceeded ==
  ASSUME NEW p \in Procs, NEW v, IsWork(v), Proceed(p, v)
  PROVE  \E u : /\ IsWork(u) /\ Becomes(p, u) /\ u.script = Tail(v.script) /\ u.job = v.job
                /\ u.mem = v.mem /\ u.base = v.base /\ u.written = v.written
<1> DEFINE u == [v EXCEPT !.script = Tail(@)]
<1>1. Becomes(p, u)
  BY DEF Proceed
<1>2. /\ IsWork(u) /\ u.script = Tail(v.script) /\ u.job = v.job
      /\ u.mem = v.mem /\ u.base = v.base /\ u.written = v.written
  BY DEF IsWork
<1> HIDE DEF u
<1> QED BY <1>1, <1>2

\* The calls that neither pick nor edit.
LEMMA AdvanceFits ==
  ASSUME Shape, LocksInv, FitsInv, NEW p \in Procs, NEW do, Doing(p, do),
         do \notin {"pick", "edit"}, NEW v, IsWork(v), Proceed(p, v),
         v.script = work[p].script, v.job = work[p].job, v.written \subseteq Files,
         CopiesFit(v.mem, Shared), copied' = copied, DiskFits(disk', Shared),
         \A f \in Files : \/ v.mem[f] \in {Closed, v.base[f]}
                          \/ v.mem[f] = work[p].mem[f] /\ v.base[f] = work[p].base[f],
         \/ v.mem["passwd"] \in {Closed, work[p].mem["passwd"]}
         \/ Head(work[p].script) = Call("open", "passwd")
  PROVE  FitsInv'
<1> DEFINE w == work[p]
           s == w.script
<1>1. /\ WorkFits(w, Shared) /\ Head(s) \in Range(s) /\ InOrder(Tail(s))
      /\ Range(Tail(s)) \subseteq Range(s)
      /\ PickFirst(s) => PickFirst(Tail(s))
      /\ \A dos : Makes(Tail(s), dos) => Makes(s, dos)
  BY WorkNow
<1>2. PICK u : /\ IsWork(u) /\ Becomes(p, u) /\ u.script = Tail(s) /\ u.job = w.job
               /\ u.mem = v.mem /\ u.base = v.base /\ u.written = v.written
  BY Proceeded
<1>3. Orderly(u.job, u.script, u.mem["passwd"])
  <2>1. ASSUME w.job.tool = "useradd", ~PickFirst(s)
        PROVE  Picked(u.job, u.script, u.mem["passwd"])
    <3>1. Picked(w.job, s, w.mem["passwd"])
      BY <1>1, <2>1 DEF WorkFits, Orderly
    <3>2. v.mem["passwd"] \in {Closed, w.mem["passwd"]}
      BY <1>1, <3>1 DEF Picked
    <3> QED BY <1>1, <1>2, <3>1, <3>2 DEF Picked
  <2>2. Makes(Tail(s), {"pick"}) => w.job.tool = "useradd"
    <3>1. Makes(Tail(s), {"pick"}) => Makes(s, {"pick"})
      BY <1>1
    <3> QED BY <1>1, <3>1 DEF WorkFits, Orderly
  <2> QED BY <1>1, <1>2, <2>1, <2>2 DEF Orderly
<1>4. JobFits(u.job, u.script)
  BY <1>1, <1>2 DEF WorkFits, JobFits
<1>5. Untouched(u.job, u.script, u.mem, u.base)
  <2> SUFFICES ASSUME w.job.tool # "newusers", Makes(Tail(s), {"check", "pick", "edit"}),
                      NEW f \in Files
               PROVE  u.mem[f] \in {Closed, u.base[f]}
    BY <1>2 DEF Untouched
  <2>1. w.mem[f] \in {Closed, w.base[f]}
    BY <1>1 DEF WorkFits, Untouched
  <2> QED BY <1>2, <2>1
<1>6. WorkFits(u, Shared)
  BY <1>2, <1>3, <1>4, <1>5 DEF WorkFits
<1>7. Shared' = Shared
  BY DEF Shared
<1> QED BY <1>2, <1>6, <1>7, StepFits DEF FitsInv

\* A way out: only unlocks are left.
LEMMA OutFits ==
  ASSUME Shape, LocksInv, FitsInv, NEW p \in Procs, NEW do, Doing(p, do),
         NEW script \in Seq(Calls), \A c \in Range(script) : c.do = "unlock",
         Becomes(p, [work[p] EXCEPT !.script = script]), UNCHANGED <<disk, copied>>
  PROVE  FitsInv'
<1> DEFINE w == work[p]
           v == [w EXCEPT !.script = script]
<1>1. WorkFits(w, Shared)
  BY WorkNow
<1>2. IsWork(w)
  BY ProcWork
<1> HIDE DEF w
<1>3. /\ IsWork(v) /\ v.script = script /\ v.job = w.job
      /\ v.mem = w.mem /\ v.base = w.base /\ v.written = w.written
  BY <1>2 DEF IsWork
<1>4. Becomes(p, v)
  BY DEF w
<1> HIDE DEF v
<1>5. /\ ~Makes(script, {"edit"}) /\ ~Makes(script, {"pick"})
      /\ ~Makes(script, {"check", "pick"}) /\ ~Makes(script, {"check", "pick", "edit"})
  BY DEF Makes
<1>6. InOrder(script) /\ PickFirst(script)
  <2>1. \A a, b \in Range(script) : ~Late(a, b)
    BY DEF Late, Call
  <2> QED BY <1>5, <2>1, InOrderAll, PickFirstAll
<1>7. WorkFits(v, Shared)
  BY <1>1, <1>3, <1>5, <1>6 DEF WorkFits, Orderly, JobFits, Untouched
<1>8. Shared' = Shared /\ DiskFits(disk', Shared)
  BY DEF Shared, FitsInv
<1> QED BY <1>3, <1>4, <1>7, <1>8, StepFits DEF FitsInv

\* fail_exit is one.
LEMMA FailFits ==
  ASSUME Shape, LocksInv, FitsInv, NEW p \in Procs, NEW do, Doing(p, do), FailExit(p),
         UNCHANGED <<disk, copied>>
  PROVE  FitsInv'
<1> DEFINE order == UnlockOrder(work[p].job)
<1>1. order \in Seq(Files) /\ "unlock" \notin Quits
  BY UnlockOrders DEF Quits
<1>2. \A f \in Files : Call("unlock", f) \in Calls
  BY DEF Call, Calls
<1> HIDE DEF order
<1>3. PICK script : script = UnlockHeld(order, owner, p)
  OBVIOUS
<1>4. script \in Seq(Calls) /\ \A c \in Range(script) : c.do = "unlock"
  BY <1>1, <1>2, <1>3, UnlockHeldCalls
<1>5. Becomes(p, [work[p] EXCEPT !.script = script])
  BY <1>3 DEF FailExit, order
<1> QED BY <1>4, <1>5, OutFits

\* The start of a tool: a command line, and nothing open.
LEMMA StartFits ==
  ASSUME ToolsAssumption, Shape, FitsInv, NEW p \in Procs, Start(p) PROVE FitsInv'
<1>1. PICK job \in Jobs : Becomes(p, [Idle EXCEPT !.job = job, !.script = Prelude(job)])
  BY DEF Start
<1>2. PICK script : script = Prelude(job)
  OBVIOUS
<1> DEFINE v == [Idle EXCEPT !.job = job, !.script = script]
<1>3. /\ IsWork(v) /\ v.job = job /\ v.script = script /\ v.written = {}
      /\ \A f \in Files : v.mem[f] = Closed
  BY DEF Idle, IsWork
<1>4. Becomes(p, v)
  BY <1>1, <1>2
<1> HIDE DEF v
<1>5. Orderly(job, script, v.mem["passwd"])
  BY <1>2, PreludeOrdered DEF Orderly
<1>6. JobFits(job, script)
  <2>1. job \in Job /\ Named(job)
    BY ToolsAssumption DEF ToolsAssumption, Named
  <2>2. Range(job.lines) \subseteq Lines
    BY DEF Lines
  <2>3. "o" \in job.flags \/ job.tool = "usermod" => job.uid \in SharedUids
    BY DEF SharedUids
  <2> QED BY <2>1, <2>2, <2>3 DEF JobFits
<1>7. CopiesFit(v.mem, Shared)
  BY <1>3 DEF CopiesFit, Copies, Files
<1>8. WorkFits(v, Shared)
  BY <1>3, <1>5, <1>6, <1>7 DEF WorkFits, Untouched
<1>9. Shared' = Shared /\ disk' = disk /\ copied' = copied
  BY DEF Start, Shared
<1> QED BY <1>3, <1>4, <1>8, <1>9, StepFits DEF FitsInv

\* The checks made without a lock.
LEMMA CheckFits ==
  ASSUME ToolsAssumption, Shape, LocksInv, FitsInv, NEW p \in Procs, Check(p) PROVE FitsInv'
<1> DEFINE w == work[p]
<1>1. Doing(p, "check") /\ UNCHANGED <<disk, copied>>
  BY DEF Check
<1>2. Shared' = Shared /\ DiskFits(disk', Shared)
  BY <1>1 DEF Shared, FitsInv
<1>3. CASE Becomes(p, Idle)
  BY <1>1, <1>2, <1>3, IdleIsClosed, StepFits DEF FitsInv
<1>4. CASE \E job \in Checked(w.job) :
             Becomes(p, [w EXCEPT !.job = job, !.script = Script(job)])
  <2>1. PICK job \in Checked(w.job) :
          Becomes(p, [w EXCEPT !.job = job, !.script = Script(job)])
    BY <1>4
  <2>2. PICK script : script = Script(job)
    OBVIOUS
  <2>3. /\ WorkFits(w, Shared) /\ Makes(w.script, {"check", "pick"})
        /\ Makes(w.script, {"check", "pick", "edit"})
    <3>1. WorkFits(w, Shared) /\ \A dos : "check" \in dos => Makes(w.script, dos)
      BY <1>1, WorkNow
    <3> QED BY <3>1
  <2>4. IsWork(w)
    BY ProcWork
  <2> HIDE DEF w
  <2> DEFINE v == [w EXCEPT !.job = job, !.script = script]
  <2>5. /\ IsWork(v) /\ v.job = job /\ v.script = script
        /\ v.mem = w.mem /\ v.base = w.base /\ v.written = w.written
    BY <2>4 DEF IsWork
  <2>6. Becomes(p, v)
    BY <2>1, <2>2 DEF w
  <2> HIDE DEF v
  <2>7. /\ job \in Job /\ job.tool = w.job.tool /\ job.name = w.job.name
        /\ job.lines = w.job.lines /\ job.flags = w.job.flags /\ job.uid \in {0, w.job.uid}
    <3>1. w.job \in Job /\ Named(w.job)
      BY <2>3 DEF WorkFits, JobFits
    <3>2. \A f \in Files : Contents(f, disk[f])
      BY DEF FitsInv, DiskFits
    <3> QED BY <2>1, <3>1, <3>2, CheckedJob
  <2>8. Orderly(job, script, v.mem["passwd"])
    BY <2>2, ScriptOrdered DEF Orderly
  <2>9. JobFits(job, script)
    BY <2>3, <2>7 DEF WorkFits, JobFits, Named
  <2>10. Untouched(job, script, v.mem, v.base)
    BY <2>3, <2>5, <2>7 DEF WorkFits, Untouched
  <2>11. WorkFits(v, Shared)
    BY <2>3, <2>5, <2>8, <2>9, <2>10 DEF WorkFits
  <2> QED BY <1>1, <1>2, <2>5, <2>6, <2>11, StepFits DEF FitsInv
<1> QED BY <1>3, <1>4 DEF Check

\* The uid of a new user is one that nobody has in the copy of passwd, which
\* is what the file holds.
LEMMA PickFits ==
  ASSUME ToolsAssumption, ToolsInv, LocksInv, FitsInv, NEW p \in Procs, Pick(p) PROVE FitsInv'
<1> DEFINE w == work[p]
           s == w.script
           passwd == w.mem["passwd"]
           found == IF w.job.uid = 0 THEN FindNewUid(passwd, w.job)
                    ELSE IF "o" \in w.job.flags \/ w.job.uid \notin Uids(disk["passwd"])
                         THEN w.job.uid ELSE 0
<1>1. Doing(p, "pick") /\ UNCHANGED <<disk, copied>> /\ Shape
  BY DEF Pick, ToolsInv
<1>2. CASE FailExit(p)
  BY <1>1, <1>2, FailFits
<1>3. CASE found # 0 /\ Proceed(p, [w EXCEPT !.job.uid = found])
  <2>1. IsWork(w)
    BY <1>1, ProcWork
  <2>2. /\ WorkFits(w, Shared) /\ InOrder(Tail(s)) /\ Head(s).do = "pick"
        /\ \A c \in Range(Tail(s)) : ~Late(Head(s), c)
        /\ Makes(s, {"check", "pick"}) /\ Makes(s, {"check", "pick", "edit"})
    <3>1. /\ WorkFits(w, Shared) /\ InOrder(Tail(s)) /\ Head(s) = Call("pick", Now(p))
          /\ \A c \in Range(Tail(s)) : ~Late(Head(s), c)
          /\ \A dos : "pick" \in dos => Makes(s, dos)
      BY <1>1, WorkNow
    <3>2. Head(s).do = "pick"
      BY <3>1 DEF Call
    <3> QED BY <3>1, <3>2
  <2>3. w.job \in Job /\ w.job.uid \in Ids \cup {0}
    BY <2>2 DEF WorkFits, JobFits, Job
  <2>4. w.job.tool # "newusers" /\ passwd # Closed => passwd = disk["passwd"]
    <3>1. w.job.tool # "newusers" => passwd \in {Closed, w.base["passwd"]}
      BY <2>2 DEF WorkFits, Untouched, Files
    <3>2. passwd # Closed => disk["passwd"] = w.base["passwd"]
      BY DEF ToolsInv, NoLostUpdate, Files
    <3> QED BY <3>1, <3>2
  <2>5. found \in Ids
    <3>1. FindNewUid(passwd, w.job) = 0 \/ FindNewUid(passwd, w.job) \in Ids
      BY FindNewIsFree DEF FindNewUid
    <3> QED BY <1>3, <2>3, <3>1
  <2>6. w.job.tool = "useradd" /\ passwd # Closed => found \in SharedUids \/ found \notin Uids(passwd)
    <3>1. CASE w.job.uid = 0
      <4>1. FindNewUid(passwd, w.job) = 0 \/ FindNewUid(passwd, w.job) \in Ids \ Uids(passwd)
        BY FindNewIsFree DEF FindNewUid
      <4> QED BY <1>3, <3>1, <4>1
    <3>2. CASE w.job.uid # 0 /\ "o" \in w.job.flags
      BY <2>2, <3>2 DEF WorkFits, JobFits
    <3>3. CASE w.job.uid # 0 /\ "o" \notin w.job.flags
      BY <1>3, <2>4, <3>3
    <3> QED BY <3>1, <3>2, <3>3
  <2> DEFINE v == [w EXCEPT !.job.uid = found]
  <2> HIDE DEF found
  <2>7. v = [job |-> [w.job EXCEPT !.uid = found], script |-> s, mem |-> w.mem,
             base |-> w.base, written |-> w.written]
    BY <2>1 DEF IsWork
  <2>8. /\ IsWork(v) /\ v.script = s /\ v.mem = w.mem /\ v.base = w.base
        /\ v.written = w.written /\ v.job = [w.job EXCEPT !.uid = found]
    BY <2>1, <2>7 DEF IsWork
  <2>9. Proceed(p, v)
    BY <1>3
  <2> HIDE DEF v
  <2>10. /\ v.job \in Job /\ v.job.uid = found /\ v.job.tool = w.job.tool /\ v.job.name = w.job.name
         /\ v.job.lines = w.job.lines /\ v.job.flags = w.job.flags
    <3> DEFINE old == w.job
    <3>1. old \in Job /\ v.job = [old EXCEPT !.uid = found]
      BY <2>3, <2>8
    <3> HIDE DEF old
    <3>2. v.job \in Job
      BY <2>5, <3>1 DEF Job
    <3>3. /\ v.job.uid = found /\ v.job.tool = old.tool /\ v.job.name = old.name
          /\ v.job.lines = old.lines /\ v.job.flags = old.flags
      BY <3>1 DEF Job
    <3> QED BY <3>2, <3>3 DEF old
  <2>11. PICK u : /\ IsWork(u) /\ Becomes(p, u) /\ u.script = Tail(s) /\ u.job = v.job
                  /\ u.mem = w.mem /\ u.base = w.base /\ u.written = w.written
    BY <2>8, <2>9, Proceeded
  <2>12. Orderly(u.job, u.script, u.mem["passwd"])
    <3>1. Call("open", "passwd") \notin Range(Tail(s))
      BY <2>2 DEF Late
    <3>2. ~Makes(Tail(s), {"pick"})
      BY <2>2 DEF Late, Makes
    <3> QED BY <2>2, <2>5, <2>6, <2>10, <2>11, <3>1, <3>2 DEF Orderly, Picked
  <2>13. ~Makes(Tail(s), {"check", "pick"})
    BY <2>2 DEF Late, Makes
  <2>14. JobFits(u.job, u.script)
    <3>1. w.job.tool = "useradd"
      <4>1. Makes(s, {"pick"})
        BY <1>1, WorkNow
      <4> QED BY <2>2, <4>1 DEF WorkFits, Orderly
    <3> QED BY <2>2, <2>10, <2>11, <2>13, <3>1 DEF WorkFits, JobFits, Named
  <2>15. Untouched(u.job, u.script, u.mem, u.base)
    BY <2>2, <2>10, <2>11 DEF WorkFits, Untouched
  <2>16. WorkFits(u, Shared)
    BY <2>2, <2>11, <2>12, <2>14, <2>15 DEF WorkFits
  <2>17. Shared' = Shared /\ DiskFits(disk', Shared)
    BY <1>1 DEF Shared, FitsInv
  <2> QED BY <1>1, <2>11, <2>16, <2>17, StepFits DEF FitsInv
<1> QED BY <1>2, <1>3 DEF Pick

\* What an edit makes of the copies fits.
LEMMA EditNow ==
  ASSUME ToolsAssumption, Shape, LocksInv, FitsInv, NEW p \in Procs, Doing(p, "edit"),
         NEW mem \in Edited(work[p].job, work[p].mem)
  PROVE  EditFits(mem, work[p].mem, Shared)
<1> DEFINE w == work[p]
           shared == Shared
<1>1. WorkFits(w, Shared) /\ ~PickFirst(w.script)
  BY WorkNow
<1>2. /\ w.job \in Job /\ Named(w.job) /\ Copies(w.mem)
      /\ w.job.tool = "usermod" /\ w.job.uid # 0 => w.job.uid \in Shared
  BY <1>1 DEF WorkFits, JobFits, CopiesFit, Shared
<1>3. w.job.tool = "useradd" =>
        /\ w.job.uid \in Ids
        /\ w.mem["passwd"] # Closed =>
             w.job.uid \in Shared \/ w.job.uid \notin Uids(w.mem["passwd"])
  BY <1>1 DEF WorkFits, Orderly, Picked, Shared
<1>4. DOMAIN disk["passwd"] \subseteq Names
  BY Kinds DEF FitsInv, DiskFits, Files, Table
<1>5. w.mem = [f \in Files |-> w.mem[f]]
  BY ProcWork DEF IsWork
<1>6. mem \in Edited(w.job, w.mem)
  OBVIOUS
<1> HIDE DEF w
<1>7. EditFits(mem, w.mem, shared)
  BY <1>2, <1>3, <1>4, <1>5, <1>6, EditedFits
<1> QED BY <1>7 DEF w

\* The edit of the copies; what is not open can not be changed.
LEMMA EditStepFits ==
  ASSUME ToolsAssumption, ToolsInv, LocksInv, FitsInv, NEW p \in Procs, Edit(p) PROVE FitsInv'
<1> DEFINE w == work[p]
           s == w.script
<1>1. Doing(p, "edit") /\ UNCHANGED <<disk, copied>> /\ Shape
  BY DEF Edit, ToolsInv
<1>2. CASE FailExit(p)
  BY <1>1, <1>2, FailFits
<1>3. CASE \E mem \in Edited(w.job, w.mem) : Proceed(p, [w EXCEPT !.mem = mem])
  <2>1. PICK mem \in Edited(w.job, w.mem) : Proceed(p, [w EXCEPT !.mem = mem])
    BY <1>3
  <2>2. IsWork(w)
    BY <1>1, ProcWork
  <2>3. /\ WorkFits(w, Shared) /\ InOrder(Tail(s)) /\ Tail(s) \in Seq(Calls)
        /\ ~PickFirst(s) /\ \A c \in Range(Tail(s)) : ~Late(Head(s), c)
        /\ Head(s) = Call("edit", Now(p))
    BY <1>1, WorkNow
  <2>4. /\ ~Makes(Tail(s), {"check", "pick"}) /\ ~Makes(Tail(s), {"check", "pick", "edit"})
        /\ ~Makes(Tail(s), {"pick"}) /\ ~Makes(Tail(s), {"edit"})
    BY <2>3 DEF Late, Makes, Call, Finishing
  <2>5. PickFirst(Tail(s))
    BY <2>3, <2>4, PickFirstAll
  <2>6. EditFits(mem, w.mem, Shared)
    BY <1>1, <2>1, EditNow
  <2>7. mem = [f \in Files |-> mem[f]] /\ \A f \in Files : w.mem[f] = Closed => mem[f] = Closed
    BY <2>1, <2>2, EditsKeepFiles DEF Edited, IsWork
  <2> DEFINE v == [w EXCEPT !.mem = mem]
  <2>8. v = [job |-> w.job, script |-> w.script, mem |-> mem,
             base |-> w.base, written |-> w.written]
    BY <2>2 DEF IsWork
  <2>9. /\ IsWork(v) /\ v.script = s /\ v.job = w.job /\ v.mem = mem
        /\ v.base = w.base /\ v.written = w.written
    BY <2>2, <2>7, <2>8 DEF IsWork
  <2>10. Proceed(p, v)
    BY <2>1
  <2> HIDE DEF v
  <2>11. PICK u : /\ IsWork(u) /\ Becomes(p, u) /\ u.script = Tail(s) /\ u.job = w.job
                  /\ u.mem = mem /\ u.base = w.base /\ u.written = w.written
    BY <2>9, <2>10, Proceeded
  <2>12. CopiesFit(mem, Shared)
    <3>1. w.mem["passwd"] = Closed => mem["passwd"] = Closed
      BY <2>7 DEF Files
    <3> QED BY <2>3, <2>6, <3>1 DEF EditFits, CopiesFit, WorkFits
  <2>13. Orderly(u.job, u.script, u.mem["passwd"])
    BY <2>3, <2>4, <2>5, <2>11 DEF Orderly
  <2>14. JobFits(u.job, u.script) /\ Untouched(u.job, u.script, u.mem, u.base)
    BY <2>3, <2>4, <2>11 DEF WorkFits, JobFits, Untouched
  <2>15. WorkFits(u, Shared)
    BY <2>3, <2>11, <2>12, <2>13, <2>14 DEF WorkFits
  <2>16. Shared' = Shared /\ DiskFits(disk', Shared)
    BY <1>1 DEF Shared, FitsInv
  <2> QED BY <1>1, <2>11, <2>15, <2>16, StepFits DEF FitsInv
<1> QED BY <1>2, <1>3 DEF Edit

\* The lines that are left when one is read.
LEMMA LinesLeft ==
  ASSUME NEW job \in Job, Range(job.lines) \subseteq Lines, job.lines # <<>>
  PROVE  /\ LineRead(job) \in Job /\ LineRead(job).tool = job.tool
         /\ LineRead(job).name = job.name /\ LineRead(job).uid = job.uid
         /\ LineRead(job).flags = job.flags
         /\ Range(LineRead(job).lines) \subseteq Lines
         /\ Head(job.lines) \in Line /\ Head(job.lines) \in Lines
<1> DEFINE l == job.lines
<1>1. l \in Seq(Line)
  BY DEF Job
<1>2. Tail(l) \in Seq(Line) /\ Head(l) \in Line
  BY <1>1, HeadTailProperties
<1>3. Range(Tail(l)) \subseteq Range(l) /\ Head(l) \in Range(l)
  <2> HIDE DEF l
  <2>1. Len(l) \in Nat /\ Len(l) # 0 /\ Head(l) = l[1] /\ DOMAIN l = 1 .. Len(l)
    BY <1>1, LenProperties DEF l
  <2>2. /\ Len(Tail(l)) = Len(l) - 1
        /\ \A i \in 1 .. Len(Tail(l)) : Tail(l)[i] = l[i + 1]
    BY <1>1, HeadTailProperties DEF l
  <2>3. DOMAIN Tail(l) = 1 .. Len(Tail(l))
    BY <1>2, LenProperties
  <2>4. \A i \in 1 .. Len(Tail(l)) : i + 1 \in 1 .. Len(l)
    BY <2>1, <2>2
  <2> QED BY <2>1, <2>2, <2>3, <2>4 DEF Range
<1> DEFINE j == LineRead(job)
<1>4. j = [job EXCEPT !.lines = Tail(l)]
  BY DEF LineRead
<1>5. /\ j \in Job /\ j.tool = job.tool /\ j.name = job.name /\ j.uid = job.uid
      /\ j.flags = job.flags /\ j.lines = Tail(l)
  <2> HIDE DEF j
  <2> QED BY <1>2, <1>4 DEF Job
<1> QED BY <1>2, <1>3, <1>5

\* A line of newusers; the uid that it takes from another user is shared from
\* now on.
LEMMA LineStepFits ==
  ASSUME ToolsAssumption, ToolsInv, LocksInv, FitsInv, NEW p \in Procs, EditLine(p)
  PROVE  FitsInv'
<1> DEFINE w == work[p]
           s == w.script
           line == Head(w.job.lines)
           edited == {mem \in AddLine(line, w.mem, w.job) : \A f \in Files : w.mem[f] # Closed}
<1>1. Doing(p, "edit") /\ disk' = disk /\ Shape /\ w.job.tool = "newusers" /\ w.job.lines # <<>>
  BY DEF EditLine, HasLine, ToolsInv
<1>2. CASE FailExit(p) /\ UNCHANGED copied
  BY <1>1, <1>2, FailFits
<1>3. CASE /\ \E mem \in edited : Becomes(p, [w EXCEPT !.mem = mem, !.job = LineRead(@)])
           /\ copied' = copied \cup CopiedUid(line, w.mem["passwd"])
  <2>1. PICK mem \in edited : Becomes(p, [w EXCEPT !.mem = mem, !.job = LineRead(@)])
    BY <1>3
  <2>2. IsWork(w)
    BY <1>1, ProcWork
  <2>3. WorkFits(w, Shared)
    BY <1>1, WorkNow
  <2>4. /\ mem \in AddLine(line, w.mem, w.job) /\ \A f \in Files : w.mem[f] # Closed
        /\ w.mem = [f \in Files |-> w.mem[f]]
    BY <2>1, <2>2 DEF IsWork
  <2>5. PICK job : job = LineRead(w.job)
    OBVIOUS
  <2>6. /\ job \in Job /\ job.tool = "newusers" /\ job.name = w.job.name /\ job.uid = w.job.uid
        /\ Range(job.lines) \subseteq Lines /\ line \in Line /\ line \in Lines
    <3>1. w.job \in Job /\ Range(w.job.lines) \subseteq Lines
      BY <2>3 DEF WorkFits, JobFits
    <3> QED BY <1>1, <2>5, <3>1, LinesLeft
  <2>7. Table(w.mem["passwd"], User) /\ Copies(w.mem)
    BY <2>3, <2>4, CopyKinds DEF WorkFits, CopiesFit, Files
  <2>8. copied \subseteq copied' /\ copied' \subseteq Ids
    <3>1. CopiedUid(line, w.mem["passwd"]) \subseteq Ids
      BY <2>7 DEF CopiedUid, Table, User
    <3> QED BY <1>3, <3>1 DEF FitsInv
  <2>9. Shared' = SharedUids \cup copied'
    BY DEF Shared
  <2>10. PICK shared : shared = Shared' /\ Shared \subseteq shared
    BY <2>8, <2>9 DEF Shared
  <2>11. SharedUids \cup CopiedUid(line, w.mem["passwd"]) \subseteq shared
    BY <1>3, <2>9, <2>10
  <2>12. EditFits(mem, w.mem, shared)
    <3> HIDE DEF w, line
    <3> QED BY <2>4, <2>6, <2>7, <2>11, AddLineFits
  <2>13. mem = [f \in Files |-> mem[f]]
    BY <2>4, LinesKeepFiles
  <2> DEFINE v == [w EXCEPT !.mem = mem, !.job = job]
  <2>14. /\ IsWork(v) /\ v.script = s /\ v.job = job /\ v.mem = mem
         /\ v.base = w.base /\ v.written = w.written
    <3> HIDE DEF w
    <3> QED BY <2>2, <2>13 DEF IsWork
  <2>15. Becomes(p, v)
    BY <2>1, <2>5
  <2> HIDE DEF v
  <2>16. CopiesFit(mem, shared)
    <3>1. w.mem["passwd"] # Closed
      BY <2>4 DEF Files
    <3>2. Distinct(w.mem["passwd"], Shared)
      BY <2>3, <3>1 DEF WorkFits, CopiesFit
    <3>3. Distinct(w.mem["passwd"], shared)
      BY <2>10, <3>2, MoreShared
    <3> QED BY <2>12, <3>1, <3>3 DEF EditFits, CopiesFit
  <2>17. Orderly(v.job, v.script, v.mem["passwd"])
    BY <1>1, <2>3, <2>6, <2>14 DEF WorkFits, Orderly
  <2>18. JobFits(v.job, v.script) /\ Untouched(v.job, v.script, v.mem, v.base)
    BY <2>6, <2>14 DEF JobFits, Untouched, Named
  <2>19. WorkFits(v, shared)
    BY <2>3, <2>14, <2>16, <2>17, <2>18 DEF WorkFits
  <2>20. DiskFits(disk', shared)
    <3>1. DiskFits(disk, Shared)
      BY DEF FitsInv
    <3>2. DiskFits(disk, shared)
      BY <2>10, <3>1, MoreShared
    <3> QED BY <1>1, <3>2
  <2> QED BY <1>1, <2>8, <2>10, <2>14, <2>15, <2>19, <2>20, StepFits
<1> QED BY <1>2, <1>3 DEF EditLine

\* The copy is what the file holds.
LEMMA OpenStepFits ==
  ASSUME Shape, LocksInv, FitsInv, NEW p \in Procs, Open(p) PROVE FitsInv'
<1> DEFINE w == work[p]
<1>1. PICK n, c : n = Now(p) /\ c = disk[n]
  OBVIOUS
<1> DEFINE v == [w EXCEPT !.mem[n] = c, !.base[n] = c]
<1>2. Doing(p, "open") /\ UNCHANGED <<disk, copied>> /\ Proceed(p, v)
  BY <1>1 DEF Open
<1>3. IsWork(w)
  BY ProcWork
<1>4. /\ IsWork(v) /\ v.mem = [w.mem EXCEPT ![n] = c] /\ v.base = [w.base EXCEPT ![n] = c]
      /\ v.script = w.script /\ v.job = w.job /\ v.written = w.written
  <2> HIDE DEF w
  <2> QED BY <1>3 DEF IsWork
<1> HIDE DEF v
<1>5. /\ IsWork(v) /\ v.script = w.script /\ v.job = w.job /\ v.written = w.written
      /\ \A f \in Files : /\ v.mem[f] = IF f = n THEN c ELSE w.mem[f]
                          /\ v.base[f] = IF f = n THEN c ELSE w.base[f]
  BY <1>3, <1>4 DEF IsWork
<1>6. WorkFits(w, Shared) /\ Head(w.script) = Call("open", n)
  BY <1>1, <1>2, WorkNow
<1>7. CopiesFit(v.mem, Shared)
  <2>1. \A f \in Files : v.mem[f] = IF f = n THEN disk[f] ELSE w.mem[f]
    BY <1>1, <1>5
  <2> QED BY <1>6, <2>1 DEF WorkFits, CopiesFit, Copies, FitsInv, DiskFits, Files
<1>8. \A f \in Files : \/ v.mem[f] \in {Closed, v.base[f]}
                       \/ v.mem[f] = w.mem[f] /\ v.base[f] = w.base[f]
  BY <1>5
<1>9. v.mem["passwd"] \in {Closed, w.mem["passwd"]} \/ Head(w.script) = Call("open", "passwd")
  BY <1>5, <1>6 DEF Files
<1>10. DiskFits(disk', Shared)
  BY <1>2 DEF FitsInv
<1>11. v.written \subseteq Files
  BY <1>5, <1>6 DEF WorkFits
<1> QED BY <1>2, <1>5, <1>7, <1>8, <1>9, <1>10, <1>11, AdvanceFits

\* The file gets the copy, which is of its kind.
LEMMA CloseStepFits ==
  ASSUME Shape, LocksInv, FitsInv, NEW p \in Procs, Close(p) PROVE FitsInv'
<1> DEFINE w == work[p]
<1>1. PICK n : n = Now(p)
  OBVIOUS
<1> DEFINE v == [w EXCEPT !.mem[n] = Closed, !.written = @ \cup {n}]
<1>2. /\ Doing(p, "close") /\ copied' = copied /\ Proceed(p, v) /\ w.mem[n] # Closed
      /\ disk' = [disk EXCEPT ![n] = w.mem[n]]
  BY <1>1 DEF Close
<1>3. IsWork(w)
  BY ProcWork
<1>4. /\ IsWork(v) /\ v.mem = [w.mem EXCEPT ![n] = Closed] /\ v.base = w.base
      /\ v.script = w.script /\ v.job = w.job /\ v.written = w.written \cup {n}
  <2> HIDE DEF w
  <2> QED BY <1>3 DEF IsWork
<1> HIDE DEF v
<1>5. /\ IsWork(v) /\ v.script = w.script /\ v.job = w.job /\ v.written = w.written \cup {n}
      /\ \A f \in Files : /\ v.mem[f] = IF f = n THEN Closed ELSE w.mem[f]
                          /\ v.base[f] = w.base[f]
  BY <1>3, <1>4 DEF IsWork
<1>6. /\ WorkFits(w, Shared) /\ Head(w.script) = Call("close", n)
      /\ w.script \in Seq(Calls) /\ w.script # <<>>
  BY <1>1, <1>2, WorkNow
<1>7. CopiesFit(v.mem, Shared)
  BY <1>5, <1>6 DEF WorkFits, CopiesFit, Copies, Files
<1>8. \A f \in Files : \/ v.mem[f] \in {Closed, v.base[f]}
                       \/ v.mem[f] = w.mem[f] /\ v.base[f] = w.base[f]
  BY <1>5
<1>9. v.mem["passwd"] \in {Closed, w.mem["passwd"]}
  BY <1>5 DEF Files
<1>10. DiskFits(disk', Shared)
  <2>1. \A f \in Files : disk'[f] = IF f = n THEN w.mem[f] ELSE disk[f]
    BY <1>2 DEF Shape
  <2>2. \A f \in Files : f = n => Contents(f, w.mem[f])
    BY <1>2, <1>6 DEF WorkFits, CopiesFit, Copies
  <2>3. n = "passwd" => Distinct(w.mem["passwd"], Shared)
    BY <1>2, <1>6 DEF WorkFits, CopiesFit
  <2> QED BY <2>1, <2>2, <2>3 DEF FitsInv, DiskFits, Files
<1>11. v.written \subseteq Files
  <2>1. n \in Files
    <3>1. Call("close", n) \in Calls
      BY <1>6, HeadTailProperties
    <3> QED BY <3>1 DEF Call, Calls
  <2> QED BY <1>5, <1>6, <2>1 DEF WorkFits
<1> QED BY <1>2, <1>5, <1>7, <1>8, <1>9, <1>10, <1>11, AdvanceFits

\* An unlock only closes.
LEMMA UnlockStepFits ==
  ASSUME Shape, LocksInv, FitsInv, NEW p \in Procs, Unlock(p) PROVE FitsInv'
<1> DEFINE w == work[p]
<1>1. PICK n : n = Now(p)
  OBVIOUS
<1> DEFINE v == [w EXCEPT !.mem[n] = Closed]
<1>2. Doing(p, "unlock") /\ UNCHANGED <<disk, copied>> /\ Proceed(p, v)
  BY <1>1 DEF Unlock
<1>3. IsWork(w)
  BY ProcWork
<1>4. v = [job |-> w.job, script |-> w.script, mem |-> [w.mem EXCEPT ![n] = Closed],
           base |-> w.base, written |-> w.written]
  BY <1>3 DEF IsWork
<1>5. /\ IsWork(v) /\ v.script = w.script /\ v.job = w.job /\ v.written = w.written
      /\ \A f \in Files : /\ v.mem[f] = IF f = n THEN Closed ELSE w.mem[f]
                          /\ v.base[f] = w.base[f]
  BY <1>3, <1>4 DEF IsWork
<1> HIDE DEF v
<1>6. WorkFits(w, Shared)
  BY <1>2, WorkNow
<1>7. CopiesFit(v.mem, Shared)
  BY <1>5, <1>6 DEF WorkFits, CopiesFit, Copies, Files
<1>8. \A f \in Files : \/ v.mem[f] \in {Closed, v.base[f]}
                       \/ v.mem[f] = w.mem[f] /\ v.base[f] = w.base[f]
  BY <1>5
<1>9. v.mem["passwd"] \in {Closed, w.mem["passwd"]}
  BY <1>5 DEF Files
<1>10. DiskFits(disk', Shared)
  BY <1>2 DEF FitsInv
<1>11. v.written \subseteq Files
  BY <1>5, <1>6 DEF WorkFits
<1> QED BY <1>2, <1>5, <1>7, <1>8, <1>9, <1>10, <1>11, AdvanceFits

\* A call that changes no copy.
LEMMA NothingOpened ==
  ASSUME Shape, LocksInv, FitsInv, NEW p \in Procs, NEW do, Doing(p, do),
         do \notin {"pick", "edit"}, Proceed(p, work[p]), UNCHANGED <<disk, copied>>
  PROVE  FitsInv'
<1>1. IsWork(work[p]) /\ WorkFits(work[p], Shared)
  BY ProcWork, WorkNow
<1>2. CopiesFit(work[p].mem, Shared) /\ work[p].written \subseteq Files
  BY <1>1 DEF WorkFits
<1>3. DiskFits(disk', Shared)
  BY DEF FitsInv
<1> QED BY <1>1, <1>2, <1>3, AdvanceFits

\* The groups of -G are looked up, or useradd leaves.
LEMMA LookupFits ==
  ASSUME Shape, LocksInv, FitsInv, NEW p \in Procs, Lookup(p) PROVE FitsInv'
<1>1. Doing(p, "lookup") /\ UNCHANGED <<disk, copied>>
  BY DEF Lookup
<1>2. CASE Proceed(p, work[p])
  BY <1>1, <1>2, NothingOpened
<1>3. CASE Becomes(p, [work[p] EXCEPT !.script = Each("unlock", GroupFiles)])
  <2>1. PICK script : script = Each("unlock", GroupFiles)
    OBVIOUS
  <2>2. Does(script, {"unlock"}, {})
    BY <2>1, FileLists, DoesEach
  <2>3. script \in Seq(Calls) /\ \A c \in Range(script) : c.do = "unlock"
    BY <2>2 DEF Does
  <2>4. Becomes(p, [work[p] EXCEPT !.script = script])
    BY <1>3, <2>1
  <2> QED BY <1>1, <2>3, <2>4, OutFits
<1> QED BY <1>2, <1>3 DEF Lookup

\* No step of a tool, nor its death, loses the invariant.
LEMMA FitsStep ==
  ASSUME ToolsAssumption, ToolsInv, LocksInv, FitsInv, [Next]_vars PROVE FitsInv'
<1>0. Shape
  BY DEF ToolsInv
<1>1. CASE UNCHANGED vars
  BY <1>1 DEF vars, FitsInv, Shared
<1>2. CASE Next
  <2>1. PICK p \in Procs : Start(p) \/ Step(p) \/ Killed(p)
    BY <1>2, QuitIsDeath DEF Next
  <2>2. CASE Start(p)
    BY <1>0, <2>2, StartFits
  <2>3. CASE Lookup(p)
    BY <1>0, <2>3, LookupFits
  <2>4. CASE Check(p)
    BY <1>0, <2>4, CheckFits
  <2>5. CASE Lock(p)
    <3>1. Doing(p, "lock") /\ Proceed(p, work[p]) /\ UNCHANGED <<disk, copied>>
      BY <2>5 DEF Lock
    <3> QED BY <1>0, <3>1, NothingOpened
  <2>6. CASE Open(p)
    BY <1>0, <2>6, OpenStepFits
  <2>7. CASE Pick(p)
    BY <2>7, PickFits
  <2>8. CASE EditLine(p)
    BY <2>8, LineStepFits
  <2>9. CASE Edit(p)
    BY <2>9, EditStepFits
  <2>10. CASE Close(p)
    BY <1>0, <2>10, CloseStepFits
  <2>11. CASE Unlock(p)
    BY <1>0, <2>11, UnlockStepFits
  <2>12. CASE CallFails(p)
    <3>1. PICK do : Doing(p, do)
      BY <2>12 DEF CallFails
    <3>2. FailExit(p) /\ UNCHANGED <<disk, copied>>
      BY <2>12 DEF CallFails
    <3> QED BY <1>0, <3>1, <3>2, FailFits
  <2>13. CASE Killed(p)
    <3>1. work' = [work EXCEPT ![p] = Idle] /\ UNCHANGED <<disk, copied>>
      BY <2>13 DEF Killed
    <3>2. Becomes(p, Idle)
      BY <3>1 DEF Becomes, Idle
    <3>3. Shared' = Shared
      BY <3>1 DEF Shared
    <3> QED BY <1>0, <3>1, <3>2, <3>3, IdleIsClosed, StepFits DEF FitsInv
  <2> QED BY <2>1, <2>2, <2>3, <2>4, <2>5, <2>6, <2>7, <2>8, <2>9, <2>10, <2>11, <2>12, <2>13
          DEF Step
<1> QED BY <1>1, <1>2

\* The files that the system starts with.
LEMMA FitsInit == ASSUME ToolsAssumption, Init PROVE FitsInv
<1>1. /\ disk["passwd"] = Passwd0 /\ disk["shadow"] = DOMAIN Passwd0 /\ disk["group"] = Group0
      /\ disk["gshadow"] = [g \in DOMAIN Group0 |-> Group0[g].members]
  BY DEF Init, Files
<1>2. Table(Passwd0, User) /\ Table(Group0, Group)
  BY ToolsAssumption DEF ToolsAssumption
<1>3. /\ Table(disk["passwd"], User) /\ disk["shadow"] \subseteq Names
      /\ Table(disk["group"], Group) /\ Table(disk["gshadow"], SUBSET Names)
  BY <1>1, <1>2 DEF Table, Group
<1>4. \A f \in Files : Contents(f, disk[f])
  <2>1. Contents("passwd", disk["passwd"]) /\ Contents("shadow", disk["shadow"])
    BY <1>3, Kinds
  <2>2. Contents("group", disk["group"]) /\ Contents("gshadow", disk["gshadow"])
    BY <1>3, Kinds
  <2> QED BY <2>1, <2>2 DEF Files
<1>5. copied = {} /\ Shared = SharedUids /\ \A p \in Procs : work[p] = Idle
  BY DEF Init, Shared
<1>6. Distinct(Passwd0, SharedUids)
  BY DEF Distinct, SharedUids
<1> QED BY <1>1, <1>4, <1>5, <1>6 DEF FitsInv, DiskFits

\* Every file, and every copy of it, holds a table of its kind, whatever the
\* tools do at the same time.
THEOREM ToolsTypeOK == ASSUME ToolsAssumption PROVE Spec => []TypeOK
<1> DEFINE Counts == started \in 0 .. MaxJobs /\ torn \in BOOLEAN
<1>1. Init => ToolsInv /\ LocksInv /\ FitsInv /\ Counts
  <2>1. Init => ToolsInv /\ LocksInv /\ FitsInv
    BY ToolsAssumption, ToolsInit, LocksInit, FitsInit
  <2>2. ASSUME Init PROVE Counts
    <3>1. MaxJobs \in Nat /\ started = 0 /\ torn = FALSE
      BY <2>2, ToolsAssumption DEF Init, ToolsAssumption
    <3>2. started \in 0 .. MaxJobs
      BY <3>1
    <3>3. torn \in BOOLEAN
      BY <3>1
    <3> QED BY <3>2, <3>3
  <2> QED BY <2>1, <2>2
<1>2. ToolsInv /\ LocksInv /\ FitsInv /\ Counts /\ [Next]_vars
        => ToolsInv' /\ LocksInv' /\ FitsInv' /\ Counts'
  <2> SUFFICES ASSUME ToolsInv, LocksInv, FitsInv, Counts, [Next]_vars
               PROVE  ToolsInv' /\ LocksInv' /\ FitsInv' /\ Counts'
    OBVIOUS
  <2>1. ToolsInv' /\ LocksInv' /\ FitsInv'
    BY ToolsAssumption, ToolsStep, LocksStep, FitsStep DEF ToolsInv
  <2>2. Counts'
    <3>1. CASE UNCHANGED vars
      BY <3>1 DEF vars
    <3>2. ASSUME NEW p \in Procs, Start(p) PROVE Counts'
      <4>1. started < MaxJobs /\ started' = started + 1 /\ torn' = torn
        BY <3>2 DEF Start
      <4> QED BY <4>1, ToolsAssumption DEF ToolsAssumption
    <3>3. ASSUME NEW p \in Procs, Step(p) PROVE Counts'
      <4>1. started' = started /\ (torn' = torn \/ torn' = (torn \/ Tears(p)))
        BY <3>3 DEF Step, Lookup, Check, Lock, Open, Pick, EditLine, Edit, Close, Unlock, CallFails
      <4>2. torn' \in BOOLEAN
        BY <4>1
      <4> QED BY <4>1, <4>2
    <3>4. ASSUME NEW p \in Procs, Killed(p) PROVE Counts'
      <4>1. started' = started /\ torn' = (torn \/ Tears(p))
        BY <3>4 DEF Killed
      <4>2. torn' \in BOOLEAN
        BY <4>1
      <4> QED BY <4>1, <4>2
    <3> QED BY <3>1, <3>2, <3>3, <3>4, QuitIsDeath DEF Next
  <2> QED BY <2>1, <2>2
<1>3. ToolsInv /\ LocksInv /\ FitsInv /\ Counts => TypeOK
  <2> SUFFICES ASSUME ToolsInv, LocksInv, FitsInv, Counts PROVE TypeOK
    OBVIOUS
  <2>1. \A f \in Files : Contents(f, disk[f]) /\ owner[f] \in Procs \cup {None}
    BY DEF ToolsInv, Shape, FitsInv, DiskFits
  <2>2. DOMAIN disk = Files /\ DOMAIN owner = Files
    BY DEF ToolsInv, Shape
  <2>3. ASSUME NEW p \in Procs, work[p] # Idle
        PROVE  /\ work[p].job \in Job
               /\ \A i \in DOMAIN work[p].script : work[p].script[i] \in Calls
               /\ \A f \in Files : work[p].mem[f] # Closed => Contents(f, work[p].mem[f])
               /\ work[p].written \subseteq Files
    <3>1. WorkFits(work[p], Shared)
      BY <2>3 DEF FitsInv
    <3>2. work[p].script \in Seq(Calls)
      BY DEF LocksInv, GivesBack
    <3> QED BY <3>1, <3>2 DEF WorkFits, JobFits, CopiesFit, Copies
  <2>4. copied \subseteq Ids
    BY DEF FitsInv
  <2> QED BY <2>1, <2>2, <2>3, <2>4 DEF TypeOK
<1> QED BY <1>1, <1>2, <1>3, PTL DEF Spec

\* Two users have the same uid only when somebody asked for that: the
\* uid that useradd finds, or is given, is still free when passwd is
\* written.
THEOREM ToolsUidsUnique == ASSUME ToolsAssumption PROVE Spec => []UidsUnique
<1>1. Init => ToolsInv /\ LocksInv /\ FitsInv
  BY ToolsAssumption, ToolsInit, LocksInit, FitsInit
<1>2. ToolsInv /\ LocksInv /\ FitsInv /\ [Next]_vars => ToolsInv' /\ LocksInv' /\ FitsInv'
  BY ToolsAssumption, ToolsStep, LocksStep, FitsStep DEF ToolsInv
<1>3. FitsInv => UidsUnique
  BY DEF FitsInv, DiskFits, Distinct, Shared, UidsUnique
<1> QED BY <1>1, <1>2, <1>3, PTL DEF Spec

(***************************************************************************)
(* passwd and shadow, group and gshadow: what the tools write.             *)
(***************************************************************************)
\* The files that have a shadow file.
Shadowed == {"passwd", "group"}

ShadowOf(a) == IF a = "passwd" THEN "shadow" ELSE "gshadow"

Writes(s, f) == Call("close", f) \in Range(s)
Opens(s, f)  == Call("open", f) \in Range(s)

\* The command lines with which passwd or group is changed without its shadow
\* file: no name of it comes or goes, and no member of a group.
Keeps(job, a) ==
  IF a = "passwd" THEN job.tool = "groupmod" \/ (job.tool = "usermod" /\ job.newName = Unset)
  ELSE job.tool = "groupmod" /\ job.newName = Unset /\ job.users = Unset

\* A shadow file is written with the file it belongs to, and the other way round.
Paired(job, s) ==
  \A a \in Shadowed : /\ Writes(s, ShadowOf(a)) => Writes(s, a)
                      /\ Writes(s, a) => Writes(s, ShadowOf(a)) \/ Keeps(job, a)

\* And what a tool writes it opens before.
Complete(job, s) ==
  /\ Makes(s, {"close"}) => Makes(s, {"edit"})
  /\ \A f \in Files : Writes(s, f) => Opens(s, f)
  /\ Paired(job, s)

\* The files of a script that edits.
Changes(s, files) ==
  /\ EditCall \in Range(s)
  /\ \A f \in Files : /\ Writes(s, f) <=> f \in files
                      /\ f \in files => Opens(s, f)

\* A script that writes the files it edits, and each with its shadow file.
LEMMA ChangesComplete ==
  ASSUME NEW job, NEW s, NEW files, Changes(s, files),
         \A a \in Shadowed : /\ ShadowOf(a) \in files => a \in files
                             /\ a \in files => ShadowOf(a) \in files \/ Keeps(job, a)
  PROVE  Complete(job, s)
<1>1. Makes(s, {"edit"})
  <2>1. EditCall.do = "edit"
    BY DEF EditCall, Call
  <2> QED BY <2>1 DEF Changes, Makes
<1>2. \A a \in Shadowed : a \in Files /\ ShadowOf(a) \in Files
  BY DEF Shadowed, ShadowOf, Files
<1> QED BY <1>1, <1>2 DEF Complete, Paired, Changes

\* Opens, an edit, and closes.
LEMMA EditChanges ==
  ASSUME NEW s, Does(s, Opening, Files), NEW list \in Seq(Files), NEW files,
         Range(list) = files, \A f \in files : Opens(s, f)
  PROVE  Changes(s \o <<EditCall>> \o CloseAndUnlock(list), files)
<1> DEFINE c == EditCall
           u == CloseAndUnlock(list)
<1>1. c \in Calls /\ c.do = "edit"
  BY DEF Calls, EditCall, Call
<1>2. s \in Seq(Calls) /\ \A x \in Range(s) : x.do \in Opening
  BY DEF Does
<1>3. u \in Seq(Calls) /\ \A f : Call("close", f) \in Range(u) <=> f \in files
  BY DoesCloseAndUnlock DEF Does, Finishing
<1> HIDE DEF c, u
<1> DEFINE e == <<c>>
<1>5. e \in Seq(Calls) /\ Range(e) = {c}
  BY <1>1, Single
<1> HIDE DEF e
<1> DEFINE t == s \o e
<1>6. t \in Seq(Calls) /\ Range(t) = Range(s) \cup {c}
  BY <1>2, <1>5, ConcatProperties, RangeConcatenation
<1> HIDE DEF t
<1>7. Range(t \o u) = Range(t) \cup Range(u)
  BY <1>3, <1>6, RangeConcatenation
<1>8. \A f : Call("close", f) \notin Range(t)
  <2>1. \A f : Call("close", f).do = "close"
    BY DEF Call
  <2>2. \A x \in Range(t) : x.do # "close"
    BY <1>1, <1>2, <1>6 DEF Opening
  <2> QED BY <2>1, <2>2
<1>9. Changes(t \o u, files)
  BY <1>3, <1>6, <1>7, <1>8 DEF Changes, Writes, Opens, c
<1> QED BY <1>9 DEF c, e, t, u

\* A tool that locks and opens file by file.
LEMMA InTurnChanges ==
  ASSUME NEW list \in Seq(Files), NEW back \in Seq(Files), Range(back) = Range(list)
  PROVE  Changes(LockAndOpen(list) \o <<EditCall>> \o CloseAndUnlock(back), Range(list))
<1> DEFINE s == LockAndOpen(list)
<1>1. Does(s, Opening, Files)
  <2>1. Range(list) \subseteq Files
    BY RangeOfSeq
  <2> QED BY <2>1, DoesLockAndOpen DEF Opening
<1>2. \A f \in Range(list) : Opens(s, f)
  BY LockAndOpenCalls DEF Opens
<1> HIDE DEF s
<1>3. Changes(s \o <<EditCall>> \o CloseAndUnlock(back), Range(list))
  BY <1>1, <1>2, EditChanges
<1> QED BY <1>3 DEF s

\* A tool that locks all its files before it opens them.
LEMMA LocksFirstChanges ==
  ASSUME NEW list \in Seq(Files)
  PROVE  Changes(Each("lock", list) \o Each("open", list) \o <<EditCall>> \o CloseAndUnlock(list),
                 Range(list))
<1> DEFINE a == Each("lock", list)
           b == Each("open", list)
           s == a \o b
<1>1. Does(a, Opening, Files) /\ Does(b, Opening, Files)
  <2>1. Range(list) \subseteq Files
    BY RangeOfSeq
  <2> QED BY <2>1, DoesEach DEF Opening
<1>2. \A f \in Range(list) : Call("open", f) \in Range(b)
  <2>1. \A f \in Files : Call("open", f) \in Calls
    BY DEF Call, Calls
  <2> QED BY <2>1, EachCalls
<1> HIDE DEF a, b
<1>3. Does(s, Opening, Files)
  BY <1>1, DoesThen
<1>4. Range(s) = Range(a) \cup Range(b)
  BY <1>1, RangeConcatenation DEF Does
<1>5. \A f \in Range(list) : Opens(s, f)
  BY <1>2, <1>4 DEF Opens
<1> HIDE DEF s
<1>6. Changes(s \o <<EditCall>> \o CloseAndUnlock(list), Range(list))
  BY <1>3, <1>5, EditChanges
<1> QED BY <1>6 DEF s, a, b

\* The files that usermod and groupmod open, and no others.
LEMMA UsermodRange ==
  ASSUME NEW job
  PROVE  LET files == Range(UsermodFiles(job))
         IN  /\ "passwd" \in files
             /\ "shadow" \in files <=> job.newName # Unset
             /\ "group" \in files <=> "gshadow" \in files
<1> DEFINE a == <<"passwd">>
           b == IF job.newName # Unset THEN <<"shadow">> ELSE <<>>
           c == IF job.newName # Unset \/ "G" \in job.flags THEN GroupFiles ELSE <<>>
<1>1. /\ a \in Seq(Files) /\ Range(a) = {"passwd"}
      /\ b \in Seq(Files) /\ Range(b) = IF job.newName # Unset THEN {"shadow"} ELSE {}
      /\ c \in Seq(Files) /\ Range(c) \in {{"group", "gshadow"}, {}}
  BY FileLists, NoFiles
<1>2. UsermodFiles(job) = (a \o b) \o c
  BY DEF UsermodFiles
<1> HIDE DEF a, b, c
<1>3. a \o b \in Seq(Files) /\ Range(a \o b) = Range(a) \cup Range(b)
  BY <1>1, FilesThen
<1>4. Range((a \o b) \o c) = Range(a \o b) \cup Range(c)
  BY <1>1, <1>3, FilesThen
<1> DEFINE files == Range(UsermodFiles(job))
<1>5. files = (Range(a) \cup Range(b)) \cup Range(c)
  BY <1>2, <1>3, <1>4
<1> HIDE DEF files
<1>6. "passwd" \in files /\ ("group" \in files <=> "gshadow" \in files)
  BY <1>1, <1>5
<1>7. "shadow" \in files <=> job.newName # Unset
  BY <1>1, <1>5
<1> QED BY <1>6, <1>7 DEF files

\* Which files groupmod has (open_files).
LEMMA GroupmodRange ==
  ASSUME NEW job
  PROVE  LET files == Range(GroupmodFiles(job))
         IN  /\ "group" \in files /\ "shadow" \notin files
             /\ "gshadow" \in files <=> job.newName # Unset \/ job.users # Unset
<1> DEFINE a == <<"group">>
           b == IF job.newName # Unset \/ job.users # Unset THEN <<"gshadow">> ELSE <<>>
           c == IF job.gid # 0 THEN <<"passwd">> ELSE <<>>
<1>1. /\ a \in Seq(Files) /\ Range(a) = {"group"}
      /\ b \in Seq(Files)
      /\ Range(b) = IF job.newName # Unset \/ job.users # Unset THEN {"gshadow"} ELSE {}
      /\ c \in Seq(Files) /\ Range(c) \subseteq {"passwd"}
  BY FileLists, NoFiles
<1>2. GroupmodFiles(job) = (a \o b) \o c
  BY DEF GroupmodFiles
<1> HIDE DEF a, b, c
<1>3. a \o b \in Seq(Files) /\ Range(a \o b) = Range(a) \cup Range(b)
  BY <1>1, FilesThen
<1>4. Range((a \o b) \o c) = Range(a \o b) \cup Range(c)
  BY <1>1, <1>3, FilesThen
<1> QED BY <1>1, <1>2, <1>3, <1>4

\* The files that are closed one after the other.
LEMMA EachCloses ==
  ASSUME NEW do \in {"close"}, NEW list \in Seq(Files)
  PROVE  /\ Each(do, list) \in Seq(Calls)
         /\ \A f : Call(do, f) \in Range(Each(do, list)) <=> f \in Range(list)
<1>1. \A f \in Files : Call(do, f) \in Calls
  BY DEF Call, Calls
<1>2. /\ Each(do, list) \in Seq(Calls)
      /\ Range(Each(do, list)) = {Call(do, f) : f \in Range(list)}
  BY <1>1, EachCalls
<1>3. \A f, g : Call(do, f) = Call(do, g) <=> f = g
  BY DEF Call
<1> QED BY <1>2, <1>3

\* useradd has group and gshadow only when it changes them.
LEMMA UseraddChanges ==
  ASSUME NEW job
  PROVE  Changes(UseraddScript(job),
                 {"passwd", "shadow"} \cup
                 (IF "usergroup" \in job.flags \/ job.groups # {} THEN {"group", "gshadow"} ELSE {}))
<1> DEFINE first == <<"passwd">> \o GroupFiles
           lock  == LockAndOpen(first)
           pick  == <<Call("pick", None)>>
           shad  == LockAndOpen(<<"shadow">>)
           edit  == <<EditCall>>
           users == Each("close", <<"passwd", "shadow">>)
           group == IF "usergroup" \in job.flags \/ job.groups # {}
                    THEN Each("close", GroupFiles) ELSE <<>>
           more  == IF "usergroup" \in job.flags \/ job.groups # {} THEN {"group", "gshadow"} ELSE {}
           back  == <<"shadow", "passwd">> \o GroupFiles
           free  == Each("unlock", back)
<1>1. lock \in Seq(Calls) /\ \A c : c \in Range(lock) <=>
        \E f \in {"passwd", "group", "gshadow"} : c = Call("lock", f) \/ c = Call("open", f)
  <2> DEFINE a == <<"passwd">>
  <2>1. /\ a \in Seq(Files) /\ Range(a) = {"passwd"}
        /\ GroupFiles \in Seq(Files) /\ Range(GroupFiles) = {"group", "gshadow"}
    BY FileLists
  <2> HIDE DEF a
  <2>2. a \o GroupFiles \in Seq(Files) /\ Range(a \o GroupFiles) = Range(a) \cup Range(GroupFiles)
    BY <2>1, FilesThen
  <2>3. first \in Seq(Files) /\ Range(first) = {"passwd", "group", "gshadow"}
    BY <2>1, <2>2 DEF a
  <2> HIDE DEF first
  <2>4. Range(first) \subseteq Files
    BY <2>3, RangeOfSeq
  <2>5. Does(lock, Opening, Files)
    BY <2>3, <2>4, DoesLockAndOpen DEF Opening
  <2>6. \A c : c \in Range(lock) <=>
           \E f \in Range(first) : c = Call("lock", f) \/ c = Call("open", f)
    BY <2>3, LockAndOpenCalls
  <2> QED BY <2>3, <2>5, <2>6 DEF Does
<1>2. /\ pick \in Seq(Calls) /\ Range(pick) = {Call("pick", None)}
      /\ edit \in Seq(Calls) /\ Range(edit) = {EditCall}
  <2> DEFINE c == Call("pick", None)
             e == EditCall
  <2>1. c \in Calls /\ e \in Calls
    BY DEF Call, Calls, EditCall
  <2> HIDE DEF c, e
  <2>2. <<c>> \in Seq(Calls) /\ Range(<<c>>) = {c} /\ <<e>> \in Seq(Calls) /\ Range(<<e>>) = {e}
    BY <2>1, Single
  <2> QED BY <2>2 DEF c, e
<1>3. shad \in Seq(Calls) /\ \A c : c \in Range(shad) <=> c = Call("lock", "shadow") \/ c = Call("open", "shadow")
  <2> DEFINE a == <<"shadow">>
  <2>1. a \in Seq(Files) /\ Range(a) = {"shadow"}
    BY FileLists
  <2> HIDE DEF a
  <2>2. Does(LockAndOpen(a), Opening, {"shadow"})
    BY <2>1, DoesLockAndOpen DEF Opening
  <2>3. \A c : c \in Range(LockAndOpen(a)) <=>
           \E f \in Range(a) : c = Call("lock", f) \/ c = Call("open", f)
    BY <2>1, LockAndOpenCalls
  <2>4. LockAndOpen(a) \in Seq(Calls) /\ \A c : c \in Range(LockAndOpen(a)) <=>
           c = Call("lock", "shadow") \/ c = Call("open", "shadow")
    BY <2>1, <2>2, <2>3 DEF Does
  <2> QED BY <2>4 DEF a
<1>4. users \in Seq(Calls) /\ \A f : Call("close", f) \in Range(users) <=> f \in {"passwd", "shadow"}
  <2> DEFINE a == <<"passwd", "shadow">>
  <2>1. a \in Seq(Files) /\ Range(a) = {"passwd", "shadow"}
    BY FileLists
  <2> HIDE DEF a
  <2>2. /\ Each("close", a) \in Seq(Calls)
        /\ \A f : Call("close", f) \in Range(Each("close", a)) <=> f \in Range(a)
    BY <2>1, EachCloses
  <2> QED BY <2>1, <2>2 DEF a
<1>5. group \in Seq(Calls) /\ \A f : Call("close", f) \in Range(group) <=> f \in more
  <2>1. /\ Each("close", GroupFiles) \in Seq(Calls)
        /\ \A f : Call("close", f) \in Range(Each("close", GroupFiles)) <=> f \in {"group", "gshadow"}
    BY FileLists, EachCloses
  <2>2. <<>> \in Seq(Calls) /\ Range(<<>>) = {}
    BY EmptySeq DEF Range
  <2> QED BY <2>1, <2>2
<1>6. free \in Seq(Calls) /\ \A c \in Range(free) : c.do = "unlock"
  <2>1. back \in Seq(Files)
    BY AllFiles
  <2> HIDE DEF back
  <2>2. Does(free, {"unlock"}, {})
    BY <2>1, DoesEach
  <2> QED BY <2>2 DEF Does
<1>7. UseraddScript(job) = (((((lock \o pick) \o shad) \o edit) \o users) \o group) \o free
  BY DEF UseraddScript
<1> HIDE DEF lock, pick, shad, edit, users, group, free, more
<1> DEFINE a == lock \o pick
           b == a \o shad
           c == b \o edit
           d == c \o users
           g == d \o group
           h == g \o free
<1>10. a \in Seq(Calls) /\ Range(a) = Range(lock) \cup Range(pick)
  BY <1>1, <1>2, ConcatProperties, RangeConcatenation
<1> HIDE DEF a
<1>11. b \in Seq(Calls) /\ Range(b) = Range(a) \cup Range(shad)
  BY <1>3, <1>10, ConcatProperties, RangeConcatenation
<1> HIDE DEF b
<1>12. c \in Seq(Calls) /\ Range(c) = Range(b) \cup Range(edit)
  BY <1>2, <1>11, ConcatProperties, RangeConcatenation
<1> HIDE DEF c
<1>13. d \in Seq(Calls) /\ Range(d) = Range(c) \cup Range(users)
  BY <1>4, <1>12, ConcatProperties, RangeConcatenation
<1> HIDE DEF d
<1>14. g \in Seq(Calls) /\ Range(g) = Range(d) \cup Range(group)
  BY <1>5, <1>13, ConcatProperties, RangeConcatenation
<1> HIDE DEF g
<1>15. Range(h) = Range(g) \cup Range(free)
  BY <1>6, <1>14, RangeConcatenation
<1> HIDE DEF h
<1>16. UseraddScript(job) = h
  BY <1>7 DEF a, b, c, d, g, h
<1>17. Range(h) = Range(lock) \cup {Call("pick", None)} \cup Range(shad) \cup {EditCall}
                    \cup Range(users) \cup Range(group) \cup Range(free)
  BY <1>2, <1>10, <1>11, <1>12, <1>13, <1>14, <1>15
<1>18. EditCall \in Range(h)
  BY <1>17
<1>19. \A f \in Files : Call("open", f) \in Range(h)
  <2>1. \A f \in {"passwd", "group", "gshadow"} : Call("open", f) \in Range(lock)
    BY <1>1
  <2>2. Call("open", "shadow") \in Range(shad)
    BY <1>3
  <2> QED BY <1>17, <2>1, <2>2 DEF Files
<1>20. ASSUME NEW f PROVE Call("close", f) \in Range(h) <=> f \in {"passwd", "shadow"} \cup more
  <2>2. \A do, n : do # "close" => Call("close", f) # Call(do, n)
    BY DEF Call
  <2>3. Call("close", f) \notin Range(lock) \cup Range(shad)
    BY <1>1, <1>3, <2>2
  <2>4. Call("close", f) \notin Range(free)
    BY <1>6 DEF Call
  <2>5. Call("close", f) # Call("pick", None) /\ Call("close", f) # EditCall
    BY <2>2 DEF EditCall
  <2>6. Call("close", f) \in Range(users) <=> f \in {"passwd", "shadow"}
    BY <1>4
  <2>7. Call("close", f) \in Range(group) <=> f \in more
    BY <1>5
  <2> QED BY <1>17, <2>3, <2>4, <2>5, <2>6, <2>7
<1> QED BY <1>16, <1>18, <1>19, <1>20 DEF Changes, Writes, Opens, more

\* What a tool does after its check.
LEMMA ScriptComplete == ASSUME NEW job PROVE Complete(job, Script(job))
<1>1. CASE job.tool = "useradd"
  <2>1. Script(job) = UseraddScript(job)
    BY <1>1 DEF Script
  <2> DEFINE files == {"passwd", "shadow"} \cup
               (IF "usergroup" \in job.flags \/ job.groups # {} THEN {"group", "gshadow"} ELSE {})
  <2>2. \A a \in Shadowed : ShadowOf(a) \in files <=> a \in files
    BY DEF Shadowed, ShadowOf
  <2> QED BY <2>1, <2>2, UseraddChanges, ChangesComplete
<1>2. CASE job.tool = "usermod"
  <2> DEFINE list == UsermodFiles(job)
             files == Range(list)
  <2>1. Script(job) = LockAndOpen(list) \o <<EditCall>> \o CloseAndUnlock(Reverse(list))
    BY <1>2 DEF Script, UsermodScript
  <2>2. list \in Seq(Files)
    BY UsermodLists
  <2>3. /\ "passwd" \in files /\ ("shadow" \in files <=> job.newName # Unset)
        /\ "group" \in files <=> "gshadow" \in files
    BY UsermodRange
  <2> HIDE DEF list
  <2>4. Reverse(list) \in Seq(Files) /\ Range(Reverse(list)) = Range(list)
    BY <2>2, ReverseCalls
  <2>5. Changes(Script(job), files)
    BY <2>1, <2>2, <2>4, InTurnChanges
  <2>6. \A a \in Shadowed : /\ ShadowOf(a) \in files => a \in files
                            /\ a \in files => ShadowOf(a) \in files \/ Keeps(job, a)
    BY <1>2, <2>3 DEF Shadowed, ShadowOf, Keeps
  <2> HIDE DEF files
  <2> QED BY <2>5, <2>6, ChangesComplete
<1>3. CASE job.tool = "userdel"
  <2> DEFINE list == <<"passwd", "shadow">> \o GroupFiles
  <2>1. Script(job) = LockAndOpen(list) \o <<EditCall>> \o CloseAndUnlock(list)
    BY <1>3 DEF Script, UserdelScript
  <2>2. list \in Seq(Files) /\ Range(list) = Files
    BY AllFiles
  <2> HIDE DEF list
  <2>3. Changes(Script(job), Files)
    BY <2>1, <2>2, InTurnChanges
  <2>4. \A a \in Shadowed : a \in Files /\ ShadowOf(a) \in Files
    BY DEF Shadowed, ShadowOf, Files
  <2> QED BY <2>3, <2>4, ChangesComplete
<1>4. CASE job.tool = "groupmod"
  <2> DEFINE list == GroupmodFiles(job)
             files == Range(list)
  <2>1. Script(job) = Each("lock", list) \o Each("open", list) \o <<EditCall>>
                        \o CloseAndUnlock(list)
    BY <1>4 DEF Script, GroupmodScript
  <2>2. list \in Seq(Files)
    BY GroupmodLists
  <2>3. /\ "group" \in files /\ "shadow" \notin files
        /\ "gshadow" \in files <=> job.newName # Unset \/ job.users # Unset
    BY GroupmodRange
  <2> HIDE DEF list
  <2>4. Changes(Script(job), files)
    BY <2>1, <2>2, LocksFirstChanges
  <2>5. \A a \in Shadowed : /\ ShadowOf(a) \in files => a \in files
                            /\ a \in files => ShadowOf(a) \in files \/ Keeps(job, a)
    BY <1>4, <2>3 DEF Shadowed, ShadowOf, Keeps
  <2> HIDE DEF files
  <2> QED BY <2>4, <2>5, ChangesComplete
<1>5. CASE job.tool \notin {"useradd", "usermod", "userdel", "groupmod"}
  <2> DEFINE list == GroupFiles
             files == {"group", "gshadow"}
  <2>1. Script(job) = Each("lock", list) \o Each("open", list) \o <<EditCall>>
                        \o CloseAndUnlock(list)
    BY <1>5 DEF Script, GroupScript
  <2>2. list \in Seq(Files) /\ Range(list) = files
    BY FileLists
  <2> HIDE DEF list
  <2>3. Changes(Script(job), files)
    BY <2>1, <2>2, LocksFirstChanges
  <2>4. \A a \in Shadowed : a \in files <=> ShadowOf(a) \in files
    BY DEF Shadowed, ShadowOf
  <2> QED BY <2>3, <2>4, ChangesComplete
<1> QED BY <1>1, <1>2, <1>3, <1>4, <1>5

\* And before it, where only newusers writes.
LEMMA PreludeComplete == ASSUME NEW job PROVE Complete(job, Prelude(job))
<1>1. CASE job.tool = "newusers"
  <2> DEFINE list == NewusersFiles
  <2>1. Prelude(job) = Each("lock", list) \o Each("open", list) \o <<EditCall>>
                         \o CloseAndUnlock(list)
    BY <1>1 DEF Prelude, NewusersScript
  <2>2. list \in Seq(Files) /\ Range(list) = Files
    BY AllFiles DEF NewusersFiles
  <2> HIDE DEF list
  <2>3. Changes(Prelude(job), Files)
    BY <2>1, <2>2, LocksFirstChanges
  <2>4. \A a \in Shadowed : a \in Files /\ ShadowOf(a) \in Files
    BY DEF Shadowed, ShadowOf, Files
  <2> QED BY <2>3, <2>4, ChangesComplete
<1>2. CASE job.tool # "newusers"
  <2>1. ~Makes(Prelude(job), {"close"})
    BY <1>2, PreludeOrdered
  <2>2. \A f : ~Writes(Prelude(job), f)
    BY <2>1 DEF Makes, Writes, Call
  <2> QED BY <2>1, <2>2 DEF Complete, Paired
<1> QED BY <1>1, <1>2

(***************************************************************************)
(* The invariant of FilesAgree.                                            *)
(***************************************************************************)
\* What a shadow file should hold: the names of passwd, the members of group.
Key(a, c) == IF a = "passwd" THEN DOMAIN c ELSE [g \in DOMAIN c |-> c[g].members]

\* The edit is done, or there will be none.
Final(s) == \A c \in Range(s) : c.do \in Finishing

\* A file with a copy that is still to be written.
Pending(w, f) == Writes(w.script, f) /\ w.mem[f] # Closed

\* One of the two files is written and the other is not yet.
Half(w, a) == \/ Pending(w, ShadowOf(a)) /\ a \in w.written
              \/ Pending(w, a) /\ ShadowOf(a) \in w.written

\* The plan of a process: nothing is written before the edit; until then the
\* copies are what was read, and all that will be written is or will be open;
\* after it the shadow file is not written alone.
Plan(w) ==
  /\ \/ Final(w.script)
     \/ w.written = {} /\ (Makes(w.script, {"close"}) => Makes(w.script, {"edit"}))
  /\ \A f \in Files : f \in w.written => w.mem[f] = Closed
  /\ Makes(w.script, {"edit"}) =>
       /\ \A f \in Files : Writes(w.script, f) => w.mem[f] # Closed \/ Opens(w.script, f)
       /\ Makes(w.script, {"open"}) => \A f \in Files : w.mem[f] \in {Closed, w.base[f]}
       /\ Paired(w.job, w.script)
  /\ Final(w.script) =>
       \A a \in Shadowed : Pending(w, ShadowOf(a)) => Pending(w, a) \/ a \in w.written

\* The copies agree when both files are open; a copy that is alone agrees with
\* the file that the other one was written to, or that it leaves as it is.
Truth(w, a, d) ==
  LET b == ShadowOf(a)
  IN  /\ Makes(w.script, {"edit"}) /\ w.mem[a] # Closed /\ w.mem[b] # Closed =>
           w.mem[b] = Key(a, w.mem[a])
      /\ Final(w.script) =>
           /\ Pending(w, a) /\ Pending(w, b) => w.mem[b] = Key(a, w.mem[a])
           /\ Pending(w, b) /\ ~Pending(w, a) => w.mem[b] = Key(a, d[a])
           /\ Pending(w, a) /\ ~Pending(w, b) =>
                Key(a, w.mem[a]) = IF b \in w.written THEN d[b] ELSE Key(a, d[a])

\* The inductive invariant of FilesAgree: one process at a time is half way
\* through a file and its shadow file, and they agree when none is.
AgreeInv ==
  /\ \A p \in Procs : Plan(work[p])
  /\ \A a \in Shadowed :
       /\ \A p, q \in Procs : Half(work[p], a) /\ Half(work[q], a) => p = q
       /\ ~torn => /\ \A p \in Procs : Truth(work[p], a, disk)
                   /\ (\A p \in Procs : ~Half(work[p], a)) => disk[ShadowOf(a)] = Key(a, disk[a])

\* A file and its shadow file are two.
LEMMA PairFiles == \A a \in Shadowed : a \in Files /\ ShadowOf(a) \in Files /\ ShadowOf(a) # a
BY DEF Shadowed, ShadowOf, Files

\* A script that writes nothing leaves nothing half done.
LEMMA NothingPending ==
  ASSUME NEW w, ~Makes(w.script, {"close"})
  PROVE  (\A f : ~Pending(w, f)) /\ \A a : ~Half(w, a)
<1>1. \A f : ~Pending(w, f)
  BY DEF Pending, Writes, Makes, Call
<1> QED BY <1>1 DEF Half

\* Nothing is half done before the edit.
LEMMA NotHalfYet ==
  ASSUME NEW w, Plan(w), ~Final(w.script) PROVE w.written = {} /\ \A a : ~Half(w, a)
BY DEF Plan, Half

\* A process before main is half way through nothing.
LEMMA IdleAgrees ==
  /\ Plan(Idle) /\ \A a : ~Half(Idle, a)
  /\ \A a \in Shadowed : \A d : Truth(Idle, a, d)
<1>1. /\ Idle.script = <<>> /\ Idle.written = {} /\ Range(Idle.script) = {}
  BY NoFiles DEF Idle
<1>2. Final(Idle.script) /\ ~Makes(Idle.script, {"edit"}) /\ ~Makes(Idle.script, {"close"})
  BY <1>1 DEF Final, Makes
<1>3. (\A f : ~Pending(Idle, f)) /\ \A a : ~Half(Idle, a)
  BY <1>2, NothingPending
<1> QED BY <1>1, <1>2, <1>3 DEF Plan, Truth

\* A new script, with nothing open and nothing written.
LEMMA NewPlan ==
  ASSUME NEW w, Complete(w.job, w.script), w.written = {}, \A f \in Files : w.mem[f] = Closed
  PROVE  /\ Plan(w) /\ \A a : ~Half(w, a)
         /\ \A a \in Shadowed : \A d : Truth(w, a, d)
<1>1. \A f \in Files : ~Pending(w, f)
  BY DEF Pending
<1>2. \A a : ~Half(w, a)
  BY DEF Half
<1>3. Plan(w)
  BY <1>1, PairFiles DEF Plan, Complete
<1>4. \A a \in Shadowed : \A d : Truth(w, a, d)
  BY <1>1, PairFiles DEF Truth
<1> QED BY <1>2, <1>3, <1>4

\* Only unlocks are left.
LEMMA OutPlan ==
  ASSUME NEW w, Plan(w), NEW v, \A c \in Range(v.script) : c.do = "unlock",
         v.mem = w.mem, v.written = w.written
  PROVE  /\ Plan(v) /\ \A a : ~Half(v, a)
         /\ \A a \in Shadowed : \A d : Truth(v, a, d)
<1>1. Final(v.script) /\ ~Makes(v.script, {"edit"}) /\ ~Makes(v.script, {"close"})
  BY DEF Final, Finishing, Makes
<1>2. (\A f : ~Pending(v, f)) /\ \A a : ~Half(v, a)
  BY <1>1, NothingPending
<1>3. \A f \in Files : f \in v.written => v.mem[f] = Closed
  BY DEF Plan
<1> QED BY <1>1, <1>2, <1>3 DEF Plan, Truth

\* The first call and those after it.
LEMMA HeadOrTail ==
  ASSUME NEW S, NEW s \in Seq(S), s # <<>>
  PROVE  Range(s) = {Head(s)} \cup Range(Tail(s))
<1>1. Len(s) \in Nat /\ Len(s) # 0 /\ Head(s) = s[1] /\ DOMAIN s = 1 .. Len(s)
  BY LenProperties
<1>2. /\ Tail(s) \in Seq(S) /\ Len(Tail(s)) = Len(s) - 1
      /\ \A i \in 1 .. Len(Tail(s)) : Tail(s)[i] = s[i + 1]
  BY HeadTailProperties
<1>3. DOMAIN Tail(s) = 1 .. Len(Tail(s))
  BY <1>2, LenProperties
<1>4. \A i \in 1 .. Len(s) : i # 1 => i - 1 \in 1 .. Len(Tail(s)) /\ Tail(s)[i - 1] = s[i]
  BY <1>1, <1>2
<1>5. \A i \in 1 .. Len(Tail(s)) : i + 1 \in 1 .. Len(s) /\ Tail(s)[i] = s[i + 1]
  BY <1>1, <1>2
<1>6. 1 \in 1 .. Len(s)
  BY <1>1
<1>7. ASSUME NEW c \in Range(s) PROVE c = Head(s) \/ c \in Range(Tail(s))
  <2>1. PICK i \in 1 .. Len(s) : c = s[i]
    BY <1>1 DEF Range
  <2> QED BY <1>1, <1>3, <1>4, <2>1 DEF Range
<1>8. ASSUME NEW c \in Range(Tail(s)) PROVE c \in Range(s)
  BY <1>1, <1>3, <1>5 DEF Range
<1>9. Head(s) \in Range(s)
  BY <1>1, <1>6 DEF Range
<1> QED BY <1>7, <1>8, <1>9

\* A script after its first call.
LEMMA Rest ==
  ASSUME NEW s \in Seq(Calls), s # <<>>, InOrder(s)
  PROVE  /\ \A f : Writes(s, f) <=> Head(s) = Call("close", f) \/ Writes(Tail(s), f)
         /\ \A f : Opens(s, f) <=> Head(s) = Call("open", f) \/ Opens(Tail(s), f)
         /\ \A dos : Makes(s, dos) <=> Head(s).do \in dos \/ Makes(Tail(s), dos)
         /\ Final(s) <=> Head(s).do \in Finishing /\ Final(Tail(s))
         /\ Head(s).do \in {"edit", "close"} => Final(Tail(s))
         /\ Head(s).do = "unlock" => ~Makes(Tail(s), {"edit"})
         /\ \A f : Head(s) = Call("unlock", f) => ~Writes(Tail(s), f)
         /\ Final(s) => ~Makes(s, {"edit"}) /\ ~Makes(s, {"open"})
<1>1. Range(s) = {Head(s)} \cup Range(Tail(s))
  BY HeadOrTail
<1>2. \A c \in Range(Tail(s)) : ~Late(Head(s), c)
  BY OrderTail
<1>3. /\ \A f : Writes(s, f) <=> Head(s) = Call("close", f) \/ Writes(Tail(s), f)
      /\ \A f : Opens(s, f) <=> Head(s) = Call("open", f) \/ Opens(Tail(s), f)
  BY <1>1 DEF Writes, Opens
<1>4. \A dos : Makes(s, dos) <=> Head(s).do \in dos \/ Makes(Tail(s), dos)
  BY <1>1 DEF Makes
<1>5. Final(s) <=> Head(s).do \in Finishing /\ Final(Tail(s))
  BY <1>1 DEF Final
<1>6. Head(s).do \in {"edit", "close"} => Final(Tail(s))
  BY <1>2 DEF Late, Final
<1>7. Head(s).do = "unlock" => ~Makes(Tail(s), {"edit"})
  BY <1>2 DEF Late, Makes
<1>8. \A f : Head(s) = Call("unlock", f) => ~Writes(Tail(s), f)
  BY <1>2 DEF Late, Writes, Call
<1>9. Final(s) => ~Makes(s, {"edit"}) /\ ~Makes(s, {"open"})
  BY DEF Final, Makes, Finishing
<1> QED BY <1>3, <1>4, <1>5, <1>6, <1>7, <1>8, <1>9

\* A call that neither edits nor writes: v is w after it.
Advances(w, v) ==
  LET c == Head(w.script)
  IN  /\ w.script \in Seq(Calls) /\ w.script # <<>> /\ InOrder(w.script)
      /\ c.do \notin {"edit", "close"}
      /\ v.script = Tail(w.script) /\ v.written = w.written
      /\ \A a : Keeps(v.job, a) <=> Keeps(w.job, a)
      /\ \A f \in Files : \/ /\ v.mem[f] = w.mem[f] /\ v.base[f] = w.base[f]
                             /\ c # Call("open", f)
                          \/ c = Call("open", f) /\ v.mem[f] = v.base[f] /\ v.mem[f] # Closed
                          \/ c = Call("unlock", f) /\ v.mem[f] = Closed

\* Before the edit nothing is pending, and after it everything stays so.
LEMMA StillPending ==
  ASSUME NEW w, NEW v, Plan(w), Advances(w, v)
  PROVE  /\ Final(w.script) =>
              /\ Final(v.script)
              /\ \A f \in Files : /\ Pending(v, f) <=> Pending(w, f)
                                  /\ Pending(v, f) => v.mem[f] = w.mem[f]
                                  /\ w.mem[f] = Closed => v.mem[f] = Closed
         /\ ~Final(w.script) /\ Final(v.script) => \A f : ~Pending(v, f)
<1> DEFINE s == w.script
           t == v.script
           c == Head(s)
<1>1. /\ s \in Seq(Calls) /\ s # <<>> /\ InOrder(s) /\ c.do \notin {"edit", "close"} /\ t = Tail(s)
      /\ \A f \in Files : \/ v.mem[f] = w.mem[f] /\ v.base[f] = w.base[f] /\ c # Call("open", f)
                          \/ c = Call("open", f) /\ v.mem[f] = v.base[f] /\ v.mem[f] # Closed
                          \/ c = Call("unlock", f) /\ v.mem[f] = Closed
  BY DEF Advances
<1>2. \A f : Call("open", f).do = "open" /\ Call("close", f).do = "close"
  BY DEF Call
<1> HIDE DEF s, t, c
<1>3. /\ \A f : Writes(s, f) <=> c = Call("close", f) \/ Writes(t, f)
      /\ \A dos : Makes(s, dos) <=> c.do \in dos \/ Makes(t, dos)
      /\ Final(s) <=> c.do \in Finishing /\ Final(t)
      /\ \A f : c = Call("unlock", f) => ~Writes(t, f)
  BY <1>1, Rest DEF c
<1>4. ASSUME Final(s), NEW f \in Files
      PROVE  /\ Final(t) /\ (Pending(v, f) <=> Pending(w, f))
             /\ Pending(v, f) => v.mem[f] = w.mem[f]
             /\ w.mem[f] = Closed => v.mem[f] = Closed
  <2>1. c.do = "unlock" /\ Final(t)
    BY <1>1, <1>3, <1>4 DEF Finishing
  <2>2. Writes(s, f) <=> Writes(t, f)
    BY <1>1, <1>2, <1>3
  <2>3. v.mem[f] = w.mem[f] \/ (v.mem[f] = Closed /\ ~Writes(t, f))
    BY <1>1, <1>2, <1>3, <2>1
  <2> QED BY <2>1, <2>2, <2>3 DEF Pending, s, t
<1>5. ASSUME ~Final(s), Final(t) PROVE \A f : ~Pending(v, f)
  <2>1. c.do \notin Finishing
    BY <1>3, <1>5
  <2>2. ~Makes(t, {"edit"})
    BY <1>5 DEF Final, Makes, Finishing
  <2>3. ~Makes(s, {"edit"})
    BY <1>1, <1>3, <2>2
  <2>4. ~Makes(s, {"close"})
    BY <1>5, <2>3 DEF Plan, s
  <2>5. ~Makes(t, {"close"})
    BY <1>3, <2>4
  <2> QED BY <2>5, NothingPending DEF t
<1>6. Final(s) => /\ Final(t)
                  /\ \A f \in Files : /\ Pending(v, f) <=> Pending(w, f)
                                      /\ Pending(v, f) => v.mem[f] = w.mem[f]
                                      /\ w.mem[f] = Closed => v.mem[f] = Closed
  <2> SUFFICES ASSUME Final(s)
               PROVE  /\ Final(t)
                      /\ \A f \in Files : /\ Pending(v, f) <=> Pending(w, f)
                                          /\ Pending(v, f) => v.mem[f] = w.mem[f]
                                          /\ w.mem[f] = Closed => v.mem[f] = Closed
    OBVIOUS
  <2>1. Final(t)
    BY <1>4, PairFiles DEF Shadowed
  <2>2. \A f \in Files : Pending(v, f) <=> Pending(w, f)
    BY <1>4
  <2>3. \A f \in Files : Pending(v, f) => v.mem[f] = w.mem[f]
    BY <1>4
  <2>4. \A f \in Files : w.mem[f] = Closed => v.mem[f] = Closed
    BY <1>4
  <2> QED BY <2>1, <2>2, <2>3, <2>4
<1> QED BY <1>5, <1>6 DEF s, t

\* The plan is kept by a call that neither edits nor writes.
LEMMA AdvancePlan ==
  ASSUME NEW w, NEW v, Plan(w), Advances(w, v)
  PROVE  Plan(v) /\ \A a \in Shadowed : Half(v, a) <=> Half(w, a)
<1> DEFINE s == w.script
           t == v.script
           c == Head(s)
<1>1. /\ s \in Seq(Calls) /\ s # <<>> /\ InOrder(s) /\ c.do \notin {"edit", "close"} /\ t = Tail(s)
      /\ v.written = w.written /\ \A a : Keeps(v.job, a) <=> Keeps(w.job, a)
      /\ \A f \in Files : \/ v.mem[f] = w.mem[f] /\ v.base[f] = w.base[f] /\ c # Call("open", f)
                          \/ c = Call("open", f) /\ v.mem[f] = v.base[f] /\ v.mem[f] # Closed
                          \/ c = Call("unlock", f) /\ v.mem[f] = Closed
  BY DEF Advances
<1>2. \A f : Call("open", f).do = "open" /\ Call("close", f).do = "close" /\ Call("unlock", f).do = "unlock"
  BY DEF Call
<1>3. /\ Final(s) => /\ Final(t)
                     /\ \A f \in Files : /\ Pending(v, f) <=> Pending(w, f)
                                         /\ w.mem[f] = Closed => v.mem[f] = Closed
      /\ ~Final(s) /\ Final(t) => \A f : ~Pending(v, f)
  BY StillPending
<1> HIDE DEF s, t, c
<1>4. /\ \A f : Writes(s, f) <=> c = Call("close", f) \/ Writes(t, f)
      /\ \A f : Opens(s, f) <=> c = Call("open", f) \/ Opens(t, f)
      /\ \A dos : Makes(s, dos) <=> c.do \in dos \/ Makes(t, dos)
      /\ c.do = "unlock" => ~Makes(t, {"edit"})
      /\ Final(s) => ~Makes(s, {"edit"})
  BY <1>1, Rest DEF c
<1>5. /\ Makes(s, {"edit"}) <=> Makes(t, {"edit"})
      /\ Makes(s, {"close"}) <=> Makes(t, {"close"})
      /\ Makes(t, {"open"}) => Makes(s, {"open"})
      /\ \A f : Writes(s, f) <=> Writes(t, f)
  BY <1>1, <1>2, <1>4
<1>6. Final(t) \/ (v.written = {} /\ (Makes(t, {"close"}) => Makes(t, {"edit"})))
  BY <1>1, <1>3, <1>5 DEF Plan, s
<1>7. \A f \in Files : f \in v.written => v.mem[f] = Closed
  <2>1. CASE Final(s)
    BY <1>1, <1>3, <2>1 DEF Plan
  <2>2. CASE ~Final(s)
    BY <1>1, <2>2 DEF Plan, s
  <2> QED BY <2>1, <2>2
<1>8. ASSUME Makes(t, {"edit"})
      PROVE  /\ \A f \in Files : Writes(t, f) => v.mem[f] # Closed \/ Opens(t, f)
             /\ Makes(t, {"open"}) => \A f \in Files : v.mem[f] \in {Closed, v.base[f]}
             /\ Paired(v.job, t)
  <2>1. /\ \A f \in Files : Writes(s, f) => w.mem[f] # Closed \/ Opens(s, f)
        /\ Makes(s, {"open"}) => \A f \in Files : w.mem[f] \in {Closed, w.base[f]}
        /\ Paired(w.job, s)
    BY <1>5, <1>8 DEF Plan, s
  <2>2. \A f \in Files : c # Call("unlock", f)
    BY <1>2, <1>4, <1>8
  <2>3. \A f \in Files : Writes(t, f) => v.mem[f] # Closed \/ Opens(t, f)
    BY <1>1, <1>4, <1>5, <2>1, <2>2
  <2>4. Makes(t, {"open"}) => \A f \in Files : v.mem[f] \in {Closed, v.base[f]}
    BY <1>1, <1>5, <2>1
  <2>5. Paired(v.job, t)
    BY <1>1, <1>5, <2>1 DEF Paired
  <2> QED BY <2>3, <2>4, <2>5
<1>9. \A a \in Shadowed : Final(t) /\ Pending(v, ShadowOf(a)) => Pending(v, a) \/ a \in v.written
  <2>1. CASE Final(s)
    BY <1>1, <1>3, <2>1, PairFiles DEF Plan, s
  <2>2. CASE ~Final(s)
    BY <1>3, <2>2
  <2> QED BY <2>1, <2>2
<1>10. Plan(v)
  BY <1>6, <1>7, <1>8, <1>9 DEF Plan, t
<1>11. \A a \in Shadowed : Half(v, a) <=> Half(w, a)
  <2>1. CASE Final(s)
    BY <1>1, <1>3, <2>1, PairFiles DEF Half
  <2>2. CASE ~Final(s)
    <3>1. w.written = {} /\ v.written = {}
      BY <1>1, <2>2 DEF Plan, s
    <3> QED BY <3>1 DEF Half
  <2> QED BY <2>1, <2>2
<1> QED BY <1>10, <1>11

\* And what the copies hold is what the files will.
LEMMA AdvanceTruth ==
  ASSUME NEW w, NEW v, Plan(w), Advances(w, v), NEW a \in Shadowed, NEW d, Truth(w, a, d),
         Makes(v.script, {"edit"}) /\ v.mem[a] # Closed /\ v.mem[ShadowOf(a)] # Closed =>
           v.mem[ShadowOf(a)] = Key(a, v.mem[a])
  PROVE  Truth(v, a, d)
<1> DEFINE b == ShadowOf(a)
<1>1. a \in Files /\ b \in Files
  BY PairFiles
<1>2. v.written = w.written
  BY DEF Advances
<1> HIDE DEF b
<1>3. CASE Final(w.script)
  <2>1. /\ Pending(v, a) <=> Pending(w, a)
        /\ Pending(v, b) <=> Pending(w, b)
        /\ Pending(v, a) => v.mem[a] = w.mem[a]
        /\ Pending(v, b) => v.mem[b] = w.mem[b]
    BY <1>1, <1>3, StillPending
  <2>2. /\ Pending(w, a) /\ Pending(w, b) => w.mem[b] = Key(a, w.mem[a])
        /\ Pending(w, b) /\ ~Pending(w, a) => w.mem[b] = Key(a, d[a])
        /\ Pending(w, a) /\ ~Pending(w, b) =>
             Key(a, w.mem[a]) = IF b \in w.written THEN d[b] ELSE Key(a, d[a])
    BY <1>3 DEF Truth, b
  <2> QED BY <1>2, <2>1, <2>2 DEF Truth, b
<1>4. CASE ~Final(w.script)
  <2>1. Final(v.script) => ~Pending(v, a) /\ ~Pending(v, b)
    BY <1>1, <1>4, StillPending
  <2> QED BY <2>1 DEF Truth, b
<1> QED BY <1>3, <1>4

\* What a process becomes, or Idle when its script has ended.
LEMMA Ended ==
  ASSUME Shape, NEW p \in Procs, NEW v, Becomes(p, v), Plan(v)
  PROVE  \E u : /\ u = work'[p] /\ Plan(u)
                /\ \A a \in Shadowed : Half(u, a) <=> Half(v, a)
                /\ \A a \in Shadowed : \A d : Truth(v, a, d) => Truth(u, a, d)
<1>1. work'[p] = IF v.script = <<>> THEN Idle ELSE v
  BY DEF Shape, Becomes
<1>2. CASE v.script = <<>>
  <2>1. ~Makes(v.script, {"close"})
    BY <1>2, NoFiles DEF Makes
  <2>2. \A a : ~Half(v, a)
    BY <2>1, NothingPending
  <2> QED BY <1>1, <1>2, <2>2, IdleAgrees
<1>3. CASE v.script # <<>>
  BY <1>1, <1>3
<1> QED BY <1>2, <1>3

\* A step of p that writes no file.
LEMMA LocalAgrees ==
  ASSUME Shape, AgreeInv, NEW p \in Procs, NEW v, IsWork(v), Becomes(p, v), disk' = disk,
         Plan(v), torn => torn',
         \A a \in Shadowed : Half(v, a) => Half(work[p], a),
         \A a \in Shadowed : ~torn' => Truth(v, a, disk) /\ (Half(work[p], a) => Half(v, a))
  PROVE  AgreeInv'
<1>1. PICK u : /\ u = work'[p] /\ Plan(u)
               /\ \A a \in Shadowed : Half(u, a) <=> Half(v, a)
               /\ \A a \in Shadowed : Truth(v, a, disk) => Truth(u, a, disk)
  BY Ended
<1>2. \A q \in Procs \ {p} : work'[q] = work[q]
  BY BecomesWork
<1>3. \A q \in Procs : Plan(work'[q])
  BY <1>1, <1>2 DEF AgreeInv
<1>4. ASSUME NEW a \in Shadowed
      PROVE  \A q, r \in Procs : Half(work'[q], a) /\ Half(work'[r], a) => q = r
  <2>1. \A q \in Procs : Half(work'[q], a) => Half(work[q], a)
    BY <1>1, <1>2
  <2> QED BY <2>1 DEF AgreeInv
<1>5. ASSUME NEW a \in Shadowed, ~torn'
      PROVE  /\ \A q \in Procs : Truth(work'[q], a, disk)
             /\ (\A q \in Procs : ~Half(work'[q], a)) => disk[ShadowOf(a)] = Key(a, disk[a])
  <2>1. ~torn
    BY <1>5
  <2>2. \A q \in Procs : Truth(work'[q], a, disk)
    BY <1>1, <1>2, <1>5, <2>1 DEF AgreeInv
  <2>3. \A q \in Procs : Half(work[q], a) => Half(work'[q], a)
    BY <1>1, <1>2, <1>5
  <2>4. (\A q \in Procs : ~Half(work[q], a)) => disk[ShadowOf(a)] = Key(a, disk[a])
    BY <2>1 DEF AgreeInv
  <2> QED BY <2>2, <2>3, <2>4
<1> QED BY <1>3, <1>4, <1>5 DEF AgreeInv

\* The calls that neither edit nor write.
LEMMA AdvanceAgrees ==
  ASSUME Shape, AgreeInv, NEW p \in Procs, NEW v, IsWork(v), Becomes(p, v),
         disk' = disk, torn' = torn, Advances(work[p], v),
         \A a \in Shadowed :
           ~torn /\ Makes(v.script, {"edit"}) /\ v.mem[a] # Closed /\ v.mem[ShadowOf(a)] # Closed
             => v.mem[ShadowOf(a)] = Key(a, v.mem[a])
  PROVE  AgreeInv'
<1>1. Plan(work[p])
  BY DEF AgreeInv
<1>2. Plan(v) /\ \A a \in Shadowed : Half(v, a) <=> Half(work[p], a)
  BY <1>1, AdvancePlan
<1>3. ASSUME NEW a \in Shadowed, ~torn PROVE Truth(v, a, disk)
  <2>1. Truth(work[p], a, disk)
    BY <1>3 DEF AgreeInv
  <2> QED BY <1>1, <1>3, <2>1, AdvanceTruth
<1> QED BY <1>2, <1>3, LocalAgrees

\* Those that open no file either.
LEMMA QuietAgrees ==
  ASSUME Shape, LocksInv, FitsInv, AgreeInv, NEW p \in Procs, NEW do, Doing(p, do),
         do \notin {"open", "edit", "close"},
         NEW v, IsWork(v), Proceed(p, v), UNCHANGED <<disk, torn>>,
         v.script = work[p].script, v.written = work[p].written,
         \A a : Keeps(v.job, a) <=> Keeps(work[p].job, a),
         \A f \in Files : \/ v.mem[f] = work[p].mem[f] /\ v.base[f] = work[p].base[f]
                          \/ Head(work[p].script) = Call("unlock", f) /\ v.mem[f] = Closed
  PROVE  AgreeInv'
<1> DEFINE w == work[p]
           s == w.script
<1>1. /\ WorkFits(w, Shared) /\ Head(s) = Call(do, Now(p)) /\ s \in Seq(Calls) /\ s # <<>>
      /\ \A dos : Makes(Tail(s), dos) => Makes(s, dos)
  BY WorkNow
<1>2. Head(s).do = do /\ \A f : Head(s) # Call("open", f)
  BY <1>1 DEF Call
<1>3. InOrder(s)
  BY <1>1 DEF WorkFits, Orderly
<1>4. PICK u : /\ IsWork(u) /\ Becomes(p, u) /\ u.script = Tail(s) /\ u.job = v.job
               /\ u.mem = v.mem /\ u.base = v.base /\ u.written = v.written
  BY Proceeded
<1>5. Advances(w, u)
  BY <1>1, <1>2, <1>3, <1>4 DEF Advances
<1>6. ASSUME NEW a \in Shadowed, ~torn, Makes(u.script, {"edit"}), u.mem[a] # Closed,
             u.mem[ShadowOf(a)] # Closed
      PROVE  u.mem[ShadowOf(a)] = Key(a, u.mem[a])
  <2>1. a \in Files /\ ShadowOf(a) \in Files
    BY PairFiles
  <2>2. u.mem[a] = w.mem[a] /\ u.mem[ShadowOf(a)] = w.mem[ShadowOf(a)]
    BY <1>4, <1>6, <2>1
  <2>3. Makes(s, {"edit"})
    BY <1>1, <1>4, <1>6
  <2> QED BY <1>6, <2>2, <2>3 DEF AgreeInv, Truth
<1> QED BY <1>4, <1>5, <1>6, AdvanceAgrees

\* A way out: a file that is half done is torn.
LEMMA OutAgrees ==
  ASSUME Shape, AgreeInv, NEW p \in Procs,
         NEW script, \A c \in Range(script) : c.do = "unlock",
         Becomes(p, [work[p] EXCEPT !.script = script]), disk' = disk,
         torn => torn', \A a \in Shadowed : Half(work[p], a) => torn'
  PROVE  AgreeInv'
<1> DEFINE w == work[p]
           v == [w EXCEPT !.script = script]
<1>1. IsWork(w) /\ Plan(w)
  BY ProcWork DEF AgreeInv
<1> HIDE DEF w
<1>2. IsWork(v) /\ v.script = script /\ v.mem = w.mem /\ v.written = w.written
  BY <1>1 DEF IsWork
<1>3. Becomes(p, v)
  BY DEF w
<1> HIDE DEF v
<1>4. Plan(v) /\ (\A a : ~Half(v, a)) /\ \A a \in Shadowed : \A d : Truth(v, a, d)
  BY <1>1, <1>2, OutPlan
<1> QED BY <1>2, <1>3, <1>4, LocalAgrees DEF w

\* fail_exit is one.
LEMMA FailAgrees ==
  ASSUME Shape, AgreeInv, NEW p \in Procs, FailExit(p), disk' = disk,
         torn => torn', \A a \in Shadowed : Half(work[p], a) => torn'
  PROVE  AgreeInv'
<1> DEFINE order == UnlockOrder(work[p].job)
<1>1. order \in Seq(Files) /\ "unlock" \notin Quits
  BY UnlockOrders DEF Quits
<1>2. \A f \in Files : Call("unlock", f) \in Calls
  BY DEF Call, Calls
<1> HIDE DEF order
<1>3. PICK script : script = UnlockHeld(order, owner, p)
  OBVIOUS
<1>4. \A c \in Range(script) : c.do = "unlock"
  BY <1>1, <1>2, <1>3, UnlockHeldCalls
<1>5. Becomes(p, [work[p] EXCEPT !.script = script])
  BY <1>3 DEF FailExit, order
<1> QED BY <1>4, <1>5, OutAgrees

\* A call before the edit, with nothing written.
LEMMA NotDoneYet ==
  ASSUME LocksInv, AgreeInv, NEW p \in Procs, NEW do, Doing(p, do), do \notin Finishing
  PROVE  work[p].written = {} /\ \A a : ~Half(work[p], a)
<1> DEFINE s == work[p].script
<1>1. s \in Seq(Calls) /\ s # <<>> /\ Head(s).do = do
  BY DEF LocksInv, GivesBack, Doing
<1>2. Head(s) \in Range(s)
  BY <1>1, HeadOrTail
<1>3. ~Final(s)
  BY <1>1, <1>2 DEF Final
<1>4. Plan(work[p])
  BY DEF AgreeInv
<1> QED BY <1>3, <1>4, NotHalfYet

\* What is half done is torn when the process stops.
LEMMA HalfTears ==
  ASSUME NEW p \in Procs, NEW a, Half(work[p], a) PROVE Tears(p)
<1>1. work[p].written # {} /\ \E f : Writes(work[p].script, f)
  BY DEF Half, Pending
<1>2. PICK f : Call("close", f) \in Range(work[p].script)
  BY <1>1 DEF Writes
<1>3. PICK i \in DOMAIN work[p].script : work[p].script[i] = Call("close", f)
  BY <1>2 DEF Range
<1>4. work[p].script[i].do = "close"
  BY <1>3 DEF Call
<1> QED BY <1>1, <1>4 DEF Tears

\* A file, or a copy of one, is never Closed.
LEMMA NoTable ==
  ASSUME ToolsAssumption, NEW f \in Files, NEW c, Contents(f, c) PROVE c # Closed
<1>1. \A D \in SUBSET Names :
        Closed # D /\ Closed \notin [D -> User] \cup [D -> Group] \cup [D -> SUBSET Names]
  BY DEF ToolsAssumption
<1>2. CASE f = "shadow"
  BY <1>1, <1>2, Kinds
<1>3. CASE f # "shadow"
  <2>1. Table(c, User) \/ Table(c, Group) \/ Table(c, SUBSET Names)
    BY <1>3, Kinds DEF Files
  <2>2. DOMAIN c \in SUBSET Names
    BY <2>1 DEF Table
  <2> QED BY <1>1, <2>1, <2>2 DEF Table
<1> QED BY <1>2, <1>3

\* The start of a tool.
LEMMA StartAgrees == ASSUME Shape, AgreeInv, NEW p \in Procs, Start(p) PROVE AgreeInv'
<1>1. PICK job : Becomes(p, [Idle EXCEPT !.job = job, !.script = Prelude(job)])
  BY DEF Start
<1>2. PICK script : script = Prelude(job)
  OBVIOUS
<1> DEFINE v == [Idle EXCEPT !.job = job, !.script = script]
<1>3. /\ IsWork(v) /\ v.job = job /\ v.script = script /\ v.written = {}
      /\ \A f \in Files : v.mem[f] = Closed
  BY DEF Idle, IsWork
<1>4. Becomes(p, v)
  BY <1>1, <1>2
<1> HIDE DEF v
<1>5. Complete(v.job, v.script)
  BY <1>2, <1>3, PreludeComplete
<1>6. Plan(v) /\ (\A a : ~Half(v, a)) /\ \A a \in Shadowed : \A d : Truth(v, a, d)
  BY <1>3, <1>5, NewPlan
<1>7. work[p] = Idle /\ UNCHANGED <<disk, torn>>
  BY DEF Start
<1>8. \A a : ~Half(work[p], a)
  BY <1>7, IdleAgrees
<1> QED BY <1>3, <1>4, <1>6, <1>7, <1>8, LocalAgrees

\* The checks made without a lock, when nothing is open.
LEMMA CheckAgrees ==
  ASSUME Shape, NoLostUpdate, LocksInv, AgreeInv, NEW p \in Procs, Check(p) PROVE AgreeInv'
<1> DEFINE w == work[p]
<1>1. Doing(p, "check") /\ UNCHANGED <<disk, torn>>
  BY DEF Check
<1>2. w.written = {} /\ \A a : ~Half(w, a)
  BY <1>1, NotDoneYet DEF Finishing
<1>3. CASE Becomes(p, Idle)
  BY <1>1, <1>2, <1>3, IdleIsClosed, IdleAgrees, LocalAgrees
<1>4. CASE \E job \in Checked(w.job) :
             Becomes(p, [w EXCEPT !.job = job, !.script = Script(job)])
  <2>1. PICK job : Becomes(p, [w EXCEPT !.job = job, !.script = Script(job)])
    BY <1>4
  <2>2. PICK script : script = Script(job)
    OBVIOUS
  <2>3. Held(p) = {}
    BY <1>1, NoneAtCheck
  <2>4. \A f \in Files : w.mem[f] = Closed
    BY <2>3 DEF Held, NoLostUpdate
  <2>5. IsWork(w)
    BY ProcWork
  <2> HIDE DEF w
  <2> DEFINE v == [w EXCEPT !.job = job, !.script = script]
  <2>6. /\ IsWork(v) /\ v.job = job /\ v.script = script
        /\ v.mem = w.mem /\ v.written = w.written
    BY <2>5 DEF IsWork
  <2>7. Becomes(p, v)
    BY <2>1, <2>2 DEF w
  <2> HIDE DEF v
  <2>8. Complete(v.job, v.script)
    BY <2>2, <2>6, ScriptComplete
  <2>9. Plan(v) /\ (\A a : ~Half(v, a)) /\ \A a \in Shadowed : \A d : Truth(v, a, d)
    BY <1>2, <2>4, <2>6, <2>8, NewPlan
  <2> QED BY <1>1, <1>2, <2>6, <2>7, <2>9, LocalAgrees DEF w
<1> QED BY <1>3, <1>4 DEF Check

\* The groups of -G are looked up, or useradd leaves.
LEMMA LookupAgrees ==
  ASSUME Shape, LocksInv, FitsInv, AgreeInv, NEW p \in Procs, Lookup(p) PROVE AgreeInv'
<1>1. Doing(p, "lookup") /\ UNCHANGED <<disk, torn>>
  BY DEF Lookup
<1>2. CASE Proceed(p, work[p])
  BY <1>1, <1>2, ProcWork, QuietAgrees
<1>3. CASE Becomes(p, [work[p] EXCEPT !.script = Each("unlock", GroupFiles)])
  <2>1. PICK script : script = Each("unlock", GroupFiles)
    OBVIOUS
  <2>2. Does(script, {"unlock"}, {})
    BY <2>1, FileLists, DoesEach
  <2>3. \A c \in Range(script) : c.do = "unlock"
    BY <2>2 DEF Does
  <2>4. Becomes(p, [work[p] EXCEPT !.script = script])
    BY <1>3, <2>1
  <2>5. \A a : ~Half(work[p], a)
    BY <1>1, NotDoneYet DEF Finishing
  <2> QED BY <1>1, <2>3, <2>4, <2>5, OutAgrees
<1> QED BY <1>2, <1>3 DEF Lookup

\* useradd picks a uid, or leaves.
LEMMA PickAgrees ==
  ASSUME Shape, LocksInv, FitsInv, AgreeInv, NEW p \in Procs, Pick(p) PROVE AgreeInv'
<1> DEFINE w == work[p]
<1>1. Doing(p, "pick") /\ UNCHANGED <<disk, torn>>
  BY DEF Pick
<1>2. CASE FailExit(p)
  <2>1. \A a : ~Half(work[p], a)
    BY <1>1, NotDoneYet DEF Finishing
  <2> QED BY <1>1, <1>2, <2>1, FailAgrees
<1>3. CASE \E uid : Proceed(p, [w EXCEPT !.job.uid = uid])
  <2>1. PICK uid : Proceed(p, [w EXCEPT !.job.uid = uid])
    BY <1>3
  <2>2. IsWork(w) /\ w.job \in Job
    BY <1>1, ProcWork, WorkNow DEF WorkFits, JobFits
  <2> DEFINE v == [w EXCEPT !.job.uid = uid]
             j == [w.job EXCEPT !.uid = uid]
  <2>3. v = [job |-> j, script |-> w.script, mem |-> w.mem,
             base |-> w.base, written |-> w.written]
    BY <2>2 DEF IsWork
  <2>4. /\ IsWork(v) /\ v.script = w.script /\ v.job = j
        /\ v.mem = w.mem /\ v.base = w.base /\ v.written = w.written
    BY <2>2, <2>3 DEF IsWork
  <2>5. Proceed(p, v)
    BY <2>1
  <2> HIDE DEF v
  <2>6. j.tool = w.job.tool /\ j.newName = w.job.newName /\ j.users = w.job.users
    BY <2>2 DEF Job
  <2> HIDE DEF j
  <2>7. \A a : Keeps(v.job, a) <=> Keeps(w.job, a)
    BY <2>4, <2>6 DEF Keeps
  <2> QED BY <1>1, <2>4, <2>5, <2>7, QuietAgrees
<1> QED BY <1>2, <1>3 DEF Pick

\* An unlock closes what is still open.
LEMMA UnlockAgrees ==
  ASSUME Shape, LocksInv, FitsInv, AgreeInv, NEW p \in Procs, Unlock(p) PROVE AgreeInv'
<1> DEFINE w == work[p]
<1>1. PICK n : n = Now(p)
  OBVIOUS
<1> DEFINE v == [w EXCEPT !.mem[n] = Closed]
<1>2. Doing(p, "unlock") /\ UNCHANGED <<disk, torn>> /\ Proceed(p, v)
  BY <1>1 DEF Unlock
<1>3. IsWork(w)
  BY ProcWork
<1>4. v = [job |-> w.job, script |-> w.script, mem |-> [w.mem EXCEPT ![n] = Closed],
           base |-> w.base, written |-> w.written]
  BY <1>3 DEF IsWork
<1>5. /\ IsWork(v) /\ v.script = w.script /\ v.job = w.job /\ v.written = w.written
      /\ \A f \in Files : /\ v.mem[f] = IF f = n THEN Closed ELSE w.mem[f]
                          /\ v.base[f] = w.base[f]
  BY <1>3, <1>4 DEF IsWork
<1> HIDE DEF v
<1>6. Head(w.script) = Call("unlock", n)
  BY <1>1, <1>2, WorkNow
<1>7. \A f \in Files : \/ v.mem[f] = w.mem[f] /\ v.base[f] = w.base[f]
                       \/ Head(w.script) = Call("unlock", f) /\ v.mem[f] = Closed
  BY <1>5, <1>6
<1> QED BY <1>2, <1>5, <1>7, QuietAgrees

\* A call that fails, and the death of a process.
LEMMA StopAgrees ==
  ASSUME Shape, AgreeInv, NEW p \in Procs, CallFails(p) \/ Killed(p) PROVE AgreeInv'
<1>1. disk' = disk /\ (torn => torn') /\ (Tears(p) => torn')
  BY DEF CallFails, Killed
<1>2. \A a \in Shadowed : Half(work[p], a) => torn'
  BY <1>1, HalfTears
<1>3. CASE FailExit(p)
  BY <1>1, <1>2, <1>3, FailAgrees
<1>4. CASE Killed(p)
  <2>1. Becomes(p, Idle)
    BY <1>4 DEF Killed, Becomes, Idle
  <2> QED BY <1>1, <1>2, <2>1, IdleIsClosed, IdleAgrees, LocalAgrees
<1> QED BY <1>3, <1>4 DEF CallFails

\* A process that has half done the two files has the lock of one.
LEMMA HalfLocks ==
  ASSUME NoLostUpdate, NEW q \in Procs, NEW a \in Shadowed, Half(work[q], a)
  PROVE  owner[a] = q \/ owner[ShadowOf(a)] = q
<1>1. a \in Files /\ ShadowOf(a) \in Files
  BY PairFiles
<1>2. work[q].mem[a] # Closed \/ work[q].mem[ShadowOf(a)] # Closed
  BY DEF Half, Pending
<1> QED BY <1>1, <1>2 DEF NoLostUpdate

\* Who opens the second of the two files reads what goes with the first.
LEMMA OpenAgrees ==
  ASSUME ToolsAssumption, Shape, NoLostUpdate, LocksInv, FitsInv, AgreeInv,
         NEW p \in Procs, Open(p)
  PROVE  AgreeInv'
<1> DEFINE w == work[p]
           s == w.script
<1>1. PICK n, c : n = Now(p) /\ c = disk[n]
  OBVIOUS
<1> DEFINE v == [w EXCEPT !.mem[n] = c, !.base[n] = c]
<1>2. Doing(p, "open") /\ UNCHANGED <<disk, torn>> /\ Proceed(p, v) /\ owner[n] = p
  BY <1>1 DEF Open
<1>3. IsWork(w)
  BY ProcWork
<1>4. /\ IsWork(v) /\ v.mem = [w.mem EXCEPT ![n] = c] /\ v.base = [w.base EXCEPT ![n] = c]
      /\ v.script = s /\ v.job = w.job /\ v.written = w.written
  <2> HIDE DEF w
  <2> QED BY <1>3 DEF IsWork
<1> HIDE DEF v
<1>5. /\ IsWork(v) /\ v.script = s /\ v.job = w.job /\ v.written = w.written
      /\ \A f \in Files : /\ v.mem[f] = IF f = n THEN c ELSE w.mem[f]
                          /\ v.base[f] = IF f = n THEN c ELSE w.base[f]
  BY <1>3, <1>4 DEF IsWork
<1>6. /\ WorkFits(w, Shared) /\ Head(s) = Call("open", n) /\ s \in Seq(Calls) /\ s # <<>>
      /\ \A dos : Makes(Tail(s), dos) => Makes(s, dos)
      /\ Makes(s, {"open"})
  BY <1>1, <1>2, WorkNow
<1>7. InOrder(s) /\ Head(s).do = "open" /\ \A f : Head(s) = Call("open", f) <=> f = n
  BY <1>6 DEF WorkFits, Orderly, Call
<1>8. n \in Files /\ c # Closed
  <2>1. Call("open", n) \in Calls
    BY <1>6, HeadTailProperties
  <2>2. n \in Files
    BY <2>1 DEF Call, Calls
  <2>3. Contents(n, c)
    BY <1>1, <2>2 DEF FitsInv, DiskFits
  <2> QED BY <2>2, <2>3, NoTable
<1>9. PICK u : /\ IsWork(u) /\ Becomes(p, u) /\ u.script = Tail(s) /\ u.job = w.job
               /\ u.mem = v.mem /\ u.base = v.base /\ u.written = v.written
  BY <1>5, <1>2, Proceeded
<1>10. Advances(w, u)
  BY <1>5, <1>6, <1>7, <1>8, <1>9 DEF Advances
<1>11. ASSUME NEW a \in Shadowed, ~torn, Makes(u.script, {"edit"}), u.mem[a] # Closed,
              u.mem[ShadowOf(a)] # Closed
       PROVE  u.mem[ShadowOf(a)] = Key(a, u.mem[a])
  <2> DEFINE b == ShadowOf(a)
  <2>1. a \in Files /\ b \in Files
    BY PairFiles
  <2>2. Plan(w) /\ Makes(s, {"edit"})
    BY <1>6, <1>9, <1>11 DEF AgreeInv
  <2> HIDE DEF b
  <2>3. CASE n \notin {a, b}
    <3>1. u.mem[a] = w.mem[a] /\ u.mem[b] = w.mem[b]
      BY <1>5, <1>9, <2>1, <2>3
    <3> QED BY <1>11, <2>2, <3>1 DEF AgreeInv, Truth, b
  <2>4. CASE n \in {a, b}
    <3>1. \A f \in {a, b} : f # n => w.mem[f] # Closed
      BY <1>5, <1>9, <1>11, <2>1 DEF b
    <3>2. owner[a] = p /\ owner[b] = p
      BY <1>2, <2>1, <3>1 DEF NoLostUpdate
    <3>3. \A f \in {a, b} : f # n => w.mem[f] = w.base[f]
      BY <1>6, <2>1, <2>2, <3>1 DEF Plan
    <3>4. \A f \in {a, b} : u.mem[f] = disk[f]
      BY <1>1, <1>5, <1>9, <2>1, <3>1, <3>3 DEF NoLostUpdate
    <3>5. \A q \in Procs : ~Half(work[q], a)
      <4>1. ~Half(w, a)
        BY <1>2, NotDoneYet DEF Finishing
      <4> QED BY <3>2, <4>1, HalfLocks DEF b
    <3>6. disk[b] = Key(a, disk[a])
      BY <1>11, <3>5 DEF AgreeInv, b
    <3> QED BY <3>4, <3>6 DEF b
  <2> QED BY <2>3, <2>4
<1> QED BY <1>2, <1>9, <1>10, <1>11, AdvanceAgrees

(***************************************************************************)
(* The edits of FilesAgree.                                                *)
(***************************************************************************)
\* What an edit does to a file and its shadow file: they still agree when both
\* are open, and passwd or group alone changes no name and no member.
EditAgrees(new, mem, job) ==
  \A a \in Shadowed :
    /\ /\ mem[a] # Closed /\ mem[ShadowOf(a)] # Closed
       /\ mem[ShadowOf(a)] = Key(a, mem[a])
       => new[ShadowOf(a)] = Key(a, new[a])
    /\ Keeps(job, a) /\ mem[a] # Closed => Key(a, new[a]) = Key(a, mem[a])

\* What a shadow file has of its file.
LEMMA Keys ==
  ASSUME NEW c
  PROVE  /\ Key("passwd", c) = DOMAIN c /\ Key("group", c) = [g \in DOMAIN c |-> c[g].members]
         /\ ShadowOf("passwd") = "shadow" /\ ShadowOf("group") = "gshadow"
BY DEF Key, ShadowOf

\* It is enough to look at the two pairs.
LEMMA PairByPair ==
  ASSUME NEW new, NEW mem, NEW job,
         mem["passwd"] # Closed /\ mem["shadow"] # Closed /\ mem["shadow"] = DOMAIN mem["passwd"]
           => new["shadow"] = DOMAIN new["passwd"],
         mem["group"] # Closed /\ mem["gshadow"] # Closed /\ mem["gshadow"] = Key("group", mem["group"])
           => new["gshadow"] = Key("group", new["group"]),
         Keeps(job, "passwd") /\ mem["passwd"] # Closed =>
           DOMAIN new["passwd"] = DOMAIN mem["passwd"],
         Keeps(job, "group") /\ mem["group"] # Closed =>
           Key("group", new["group"]) = Key("group", mem["group"])
  PROVE  EditAgrees(new, mem, job)
BY Keys DEF EditAgrees, Shadowed

\* The members of the groups when one is put or dropped.
LEMMA MembersOfPut ==
  ASSUME NEW t, NEW n, NEW e
  PROVE  Key("group", Put(t, n, e)) = Put(Key("group", t), n, e.members)
BY DEF Key, Put

\* A group that is removed is removed from gshadow too.
LEMMA MembersOfDrop ==
  ASSUME NEW t, NEW n PROVE Key("group", Drop(t, n)) = Drop(Key("group", t), n)
BY DEF Key, Drop

\* useradd (usr_update, grp_add and grp_update).
LEMMA UseraddAgrees ==
  ASSUME NEW job, job.tool = "useradd", NEW mem, Copies(mem), NEW new \in UseraddEdit(job, mem)
  PROVE  EditAgrees(new, mem, job)
<1> DEFINE own == "usergroup" \in job.flags
           gid == IF own THEN FindNewUserGid(mem["group"], job.uid, job) ELSE job.gid
           entry   == [gid |-> gid, members |-> {}]
           group   == IF own THEN Put(mem["group"], job.name, entry) ELSE mem["group"]
           gshadow == IF own THEN Put(mem["gshadow"], job.name, {}) ELSE mem["gshadow"]
           add(g)  == IF g \in job.groups THEN {job.name} ELSE {}
<1>1. PICK i :
        /\ new["passwd"] = Put(mem["passwd"], job.name, [uid |-> job.uid, gid |-> i])
        /\ new["shadow"] = mem["shadow"] \cup {job.name}
        /\ new["group"] = [g \in DOMAIN group |-> [group[g] EXCEPT !.members = @ \cup add(g)]]
        /\ new["gshadow"] = [g \in DOMAIN gshadow |->
                               IF g \in DOMAIN group THEN gshadow[g] \cup add(g) ELSE gshadow[g]]
  BY DEF UseraddEdit, Files
<1>2. ~Keeps(job, "passwd") /\ ~Keeps(job, "group")
  BY DEF Keeps
<1>3. mem["shadow"] = DOMAIN mem["passwd"] => new["shadow"] = DOMAIN new["passwd"]
  BY <1>1 DEF Put
<1> HIDE DEF gid, add
<1>4. ASSUME mem["group"] # Closed, mem["gshadow"] = Key("group", mem["group"])
      PROVE  new["gshadow"] = Key("group", new["group"])
  <2>1. gshadow = Key("group", group)
    <3>1. entry.members = {}
      OBVIOUS
    <3> HIDE DEF entry
    <3>2. Key("group", Put(mem["group"], job.name, entry)) =
            Put(Key("group", mem["group"]), job.name, {})
      <4>1. Key("group", Put(mem["group"], job.name, entry)) =
              Put(Key("group", mem["group"]), job.name, entry.members)
        BY MembersOfPut
      <4> QED BY <3>1, <4>1
    <3>3. CASE own
      BY <1>4, <3>2, <3>3
    <3>4. CASE ~own
      BY <1>4, <3>4
    <3> QED BY <3>3, <3>4
  <2>2. \A g \in DOMAIN group :
          [group[g] EXCEPT !.members = @ \cup add(g)].members = group[g].members \cup add(g)
    <3>1. \A g \in DOMAIN mem["group"] : mem["group"][g] \in Group
      BY <1>4, CopyKinds DEF Table
    <3>2. \A g \in DOMAIN group : \/ group[g] = entry
                                 \/ group[g] \in Group
      BY <3>1 DEF Put
    <3> HIDE DEF group
    <3> QED BY <3>2 DEF Group
  <2> HIDE DEF group, gshadow
  <2>3. gshadow = [g \in DOMAIN group |-> group[g].members]
    BY <2>1, Keys
  <2>4. new["gshadow"] = [g \in DOMAIN group |-> group[g].members \cup add(g)]
    BY <1>1, <2>3
  <2>5. Key("group", new["group"]) = [g \in DOMAIN group |-> group[g].members \cup add(g)]
    <3>1. /\ DOMAIN new["group"] = DOMAIN group
          /\ \A g \in DOMAIN group : new["group"][g] = [group[g] EXCEPT !.members = @ \cup add(g)]
      BY <1>1
    <3>2. \A g \in DOMAIN group : new["group"][g].members = group[g].members \cup add(g)
      BY <2>2, <3>1
    <3>3. Key("group", new["group"]) = [g \in DOMAIN group |-> new["group"][g].members]
      BY <3>1, Keys
    <3> QED BY <3>2, <3>3
  <2> QED BY <2>4, <2>5
<1> QED BY <1>2, <1>3, <1>4, PairByPair

\* usermod: the user goes and comes back, under the one name or the other.
LEMMA UsermodAgrees ==
  ASSUME NEW job, job.tool = "usermod", NEW mem, Copies(mem), NEW new \in UsermodEdit(job, mem)
  PROVE  EditAgrees(new, mem, job)
<1> DEFINE name == UsermodName(job)
           usr  == job.newName # Unset \/ job.uid # 0 \/ job.gid # 0
<1>1. PICK n \in {job.name} :
        /\ usr => n \in DOMAIN mem["passwd"]
        /\ mem["passwd"] # Closed => new["passwd"] =
             IF usr THEN Put(Drop(mem["passwd"], n), name, UsermodEntry(job, mem["passwd"][n]))
                    ELSE mem["passwd"]
        /\ mem["shadow"] # Closed => new["shadow"] =
             IF n \in mem["shadow"] THEN (mem["shadow"] \ {n}) \cup {name} ELSE mem["shadow"]
        /\ mem["group"] # Closed => new["group"] =
             [g \in DOMAIN mem["group"] |->
                [mem["group"][g] EXCEPT !.members = UsermodMembers(job, g, @)]]
        /\ mem["gshadow"] # Closed => new["gshadow"] =
             [g \in DOMAIN mem["gshadow"] |-> UsermodMembers(job, g, mem["gshadow"][g])]
  BY DEF UsermodEdit, Files
<1>2. job.newName = Unset => name = n
  BY DEF UsermodName
<1>3. ~usr => job.newName = Unset
  OBVIOUS
<1>4. ~Keeps(job, "group") /\ (Keeps(job, "passwd") => job.newName = Unset)
  BY DEF Keeps
<1> HIDE DEF name, usr
<1>5. mem["passwd"] # Closed =>
        DOMAIN new["passwd"] = IF usr THEN (DOMAIN mem["passwd"] \ {n}) \cup {name}
                               ELSE DOMAIN mem["passwd"]
  BY <1>1 DEF Put, Drop
<1>6. ASSUME mem["passwd"] # Closed, mem["shadow"] # Closed, mem["shadow"] = DOMAIN mem["passwd"]
      PROVE  new["shadow"] = DOMAIN new["passwd"]
  <2>1. CASE usr
    BY <1>1, <1>5, <1>6, <2>1
  <2>2. CASE ~usr
    <3>1. name = n
      BY <1>2, <1>3, <2>2
    <3>2. new["shadow"] = mem["shadow"]
      BY <1>1, <1>6, <3>1
    <3> QED BY <1>5, <1>6, <2>2, <3>2
  <2> QED BY <2>1, <2>2
<1>7. ASSUME Keeps(job, "passwd"), mem["passwd"] # Closed
      PROVE  DOMAIN new["passwd"] = DOMAIN mem["passwd"]
  BY <1>1, <1>2, <1>4, <1>5, <1>7
<1>8. ASSUME mem["group"] # Closed, mem["gshadow"] # Closed,
             mem["gshadow"] = Key("group", mem["group"])
      PROVE  new["gshadow"] = Key("group", new["group"])
  <2> DEFINE t == mem["group"]
  <2>1. \A g \in DOMAIN t : t[g] \in Group
    BY <1>8, CopyKinds DEF Table
  <2>2. new["group"] = [g \in DOMAIN t |->
                          [t[g] EXCEPT !.members = UsermodMembers(job, g, t[g].members)]]
    BY <1>1, <1>8
  <2>3. mem["gshadow"] = [g \in DOMAIN t |-> t[g].members]
    BY <1>8, Keys
  <2>4. new["gshadow"] = [g \in DOMAIN t |-> UsermodMembers(job, g, t[g].members)]
    BY <1>1, <1>8, <2>3
  <2> HIDE DEF t
  <2>5. Key("group", new["group"]) = [g \in DOMAIN t |-> UsermodMembers(job, g, t[g].members)]
    BY <2>1, <2>2, Keys DEF Group
  <2> QED BY <2>4, <2>5
<1> QED BY <1>4, <1>6, <1>7, <1>8, PairByPair

\* userdel (update_user, update_groups and remove_usergroup).
LEMMA UserdelAgrees ==
  ASSUME NEW job, job.tool = "userdel", NEW mem, Copies(mem), NEW new \in UserdelEdit(job, mem)
  PROVE  EditAgrees(new, mem, job)
<1> DEFINE group == [g \in DOMAIN mem["group"] |->
                       [mem["group"][g] EXCEPT !.members = @ \ {job.name}]]
<1> DEFINE remove  == /\ job.name \in DOMAIN group
                      /\ group[job.name] = [gid |-> job.gid, members |-> {}]
                      /\ \/ "f" \in job.flags
                         \/ PrimaryOf(job.gid, disk["passwd"]) \subseteq {job.name}
           gshadow == IF remove THEN Drop(mem["gshadow"], job.name) ELSE mem["gshadow"]
<1>1. PICK n : /\ n = job.name
               /\ new["passwd"] = Drop(mem["passwd"], n)
               /\ new["shadow"] = mem["shadow"] \ {n}
               /\ new["group"] = IF remove THEN Drop(group, n) ELSE group
               /\ new["gshadow"] = [g \in DOMAIN gshadow |-> gshadow[g] \ {n}]
  BY DEF UserdelEdit, Files
<1> HIDE DEF remove
<1>2. ~Keeps(job, "passwd") /\ ~Keeps(job, "group")
  BY DEF Keeps
<1>3. mem["shadow"] = DOMAIN mem["passwd"] => new["shadow"] = DOMAIN new["passwd"]
  BY <1>1 DEF Drop
<1>4. ASSUME mem["group"] # Closed, mem["gshadow"] = Key("group", mem["group"])
      PROVE  new["gshadow"] = Key("group", new["group"])
  <2> DEFINE t == mem["group"]
  <2>1. \A g \in DOMAIN t : t[g] \in Group
    BY <1>4, CopyKinds DEF Table
  <2>2. mem["gshadow"] = [g \in DOMAIN t |-> t[g].members]
    BY <1>4, Keys
  <2>3. group = [g \in DOMAIN t |-> [t[g] EXCEPT !.members = @ \ {job.name}]]
    OBVIOUS
  <2> HIDE DEF t, group
  <2>4. Key("group", group) = [g \in DOMAIN t |-> t[g].members \ {job.name}]
    <3>1. DOMAIN group = DOMAIN t /\ \A g \in DOMAIN t : group[g].members = t[g].members \ {job.name}
      BY <2>1, <2>3 DEF Group
    <3>2. Key("group", group) = [g \in DOMAIN t |-> group[g].members]
      BY <3>1, Keys
    <3> QED BY <3>1, <3>2
  <2>5. CASE remove
    <3>1. new["gshadow"] = [g \in DOMAIN t \ {job.name} |-> t[g].members \ {job.name}]
      BY <1>1, <2>2, <2>5 DEF Drop
    <3>2. Key("group", new["group"]) = Drop(Key("group", group), job.name)
      BY <1>1, <2>5, MembersOfDrop
    <3> QED BY <2>4, <3>1, <3>2 DEF Drop
  <2>6. CASE ~remove
    <3>1. new["gshadow"] = [g \in DOMAIN t |-> t[g].members \ {job.name}]
      BY <1>1, <2>2, <2>6
    <3> QED BY <1>1, <2>4, <2>6, <3>1
  <2> QED BY <2>5, <2>6
<1> QED BY <1>2, <1>3, <1>4, PairByPair

\* A group that is put or dropped in both files.
LEMMA GroupsPut ==
  ASSUME NEW g, NEW s, s = Key("group", g), NEW n, NEW e, NEW m, m = e.members
  PROVE  Put(s, n, m) = Key("group", Put(g, n, e)) /\ Drop(s, n) = Key("group", Drop(g, n))
<1>1. Key("group", Put(g, n, e)) = Put(Key("group", g), n, e.members)
  BY MembersOfPut
<1>2. Key("group", Drop(g, n)) = Drop(Key("group", g), n)
  BY MembersOfDrop
<1> QED BY <1>1, <1>2

\* groupadd (grp_update).
LEMMA GroupaddAgrees ==
  ASSUME NEW job, job.tool = "groupadd", NEW mem, mem = [f \in Files |-> mem[f]],
         NEW new \in GroupaddEdit(job, mem)
  PROVE  EditAgrees(new, mem, job)
<1> DEFINE users == IF job.users = Unset THEN {} ELSE job.users
<1>1. PICK i : new = [mem EXCEPT !["group"]   = Put(@, job.name, [gid |-> i, members |-> users]),
                                 !["gshadow"] = Put(@, job.name, users)]
  BY DEF GroupaddEdit
<1> DEFINE e == [gid |-> i, members |-> users]
<1>2. e.members = users
  OBVIOUS
<1> HIDE DEF users
<1>3. /\ new["passwd"] = mem["passwd"] /\ new["shadow"] = mem["shadow"]
      /\ new["group"] = Put(mem["group"], job.name, e)
      /\ new["gshadow"] = Put(mem["gshadow"], job.name, users)
  BY <1>1 DEF Files
<1> HIDE DEF e
<1>4. ~Keeps(job, "passwd") /\ ~Keeps(job, "group")
  BY DEF Keeps
<1>5. mem["gshadow"] = Key("group", mem["group"]) => new["gshadow"] = Key("group", new["group"])
  BY <1>2, <1>3, GroupsPut
<1> QED BY <1>3, <1>4, <1>5, PairByPair

\* groupdel (grp_update).
LEMMA GroupdelAgrees ==
  ASSUME NEW job, job.tool = "groupdel", NEW mem, mem = [f \in Files |-> mem[f]],
         NEW new \in GroupdelEdit(job, mem)
  PROVE  EditAgrees(new, mem, job)
<1>1. PICK n : new = [mem EXCEPT !["group"] = Drop(@, n), !["gshadow"] = Drop(@, n)]
  BY DEF GroupdelEdit
<1>2. /\ new["passwd"] = mem["passwd"] /\ new["shadow"] = mem["shadow"]
      /\ new["group"] = Drop(mem["group"], n) /\ new["gshadow"] = Drop(mem["gshadow"], n)
  BY <1>1 DEF Files
<1>3. ~Keeps(job, "passwd") /\ ~Keeps(job, "group")
  BY DEF Keeps
<1>4. mem["gshadow"] = Key("group", mem["group"]) => new["gshadow"] = Key("group", new["group"])
  BY <1>2, MembersOfDrop
<1> QED BY <1>2, <1>3, <1>4, PairByPair

\* groupmod: only a new name or new members are for gshadow too.
LEMMA GroupmodAgrees ==
  ASSUME NEW job, job.tool = "groupmod", NEW mem, NEW new \in GroupmodEdit(job, mem)
  PROVE  EditAgrees(new, mem, job)
<1> DEFINE g == mem["group"]
           old  == g[job.name]
           name == IF job.newName = Unset THEN job.name ELSE job.newName
           users(had) == IF job.users = Unset THEN had
                         ELSE (IF "a" \in job.flags THEN had ELSE {}) \cup job.users
           rest(table) == IF name = job.name THEN table ELSE Drop(table, job.name)
           moved == IF job.gid = 0 THEN {} ELSE PrimaryOf(old.gid, disk["passwd"])
           e == [gid |-> IF job.gid = 0 THEN old.gid ELSE job.gid, members |-> users(old.members)]
<1>1. job.name \in DOMAIN g
  BY DEF GroupmodEdit
<1>2. /\ new["shadow"] = mem["shadow"]
      /\ new["group"] = Put(rest(g), name, e)
      /\ mem["gshadow"] # Closed => new["gshadow"] =
           IF job.name \in DOMAIN mem["gshadow"]
           THEN Put(rest(mem["gshadow"]), name, users(mem["gshadow"][job.name]))
           ELSE mem["gshadow"]
      /\ mem["passwd"] # Closed => new["passwd"] =
           [u \in DOMAIN mem["passwd"] |-> IF u \in moved
                                          THEN [mem["passwd"][u] EXCEPT !.gid = job.gid]
                                          ELSE mem["passwd"][u]]
  BY DEF GroupmodEdit, Files
<1>3. e.members = users(old.members)
  OBVIOUS
<1>4. mem["passwd"] # Closed => DOMAIN new["passwd"] = DOMAIN mem["passwd"]
  <2> HIDE DEF moved
  <2> QED BY <1>2
<1>5. job.newName = Unset => name = job.name
  OBVIOUS
<1>6. job.users = Unset => users(old.members) = old.members
  OBVIOUS
<1> HIDE DEF e, moved, old, users, name
<1>7. ASSUME mem["gshadow"] # Closed, mem["gshadow"] = Key("group", g)
      PROVE  new["gshadow"] = Key("group", new["group"])
  <2> DEFINE s == mem["gshadow"]
  <2>1. DOMAIN s = DOMAIN g /\ s[job.name] = old.members
    BY <1>1, <1>7, Keys DEF old
  <2>2. rest(s) = Key("group", rest(g))
    BY <1>7, MembersOfDrop
  <2>3. new["gshadow"] = Put(rest(s), name, users(old.members))
    BY <1>1, <1>2, <1>7, <2>1
  <2> HIDE DEF s, rest
  <2>4. Put(rest(s), name, users(old.members)) = Key("group", Put(rest(g), name, e))
    BY <1>3, <2>2, GroupsPut
  <2> QED BY <1>2, <2>3, <2>4
<1>8. ASSUME Keeps(job, "group") PROVE Key("group", new["group"]) = Key("group", g)
  <2>1. name = job.name /\ users(old.members) = old.members
    BY <1>5, <1>6, <1>8 DEF Keeps
  <2>2. new["group"] = Put(g, job.name, e)
    BY <1>2, <2>1
  <2>3. Key("group", new["group"]) = Put(Key("group", g), job.name, old.members)
    BY <1>3, <2>1, <2>2, MembersOfPut
  <2>4. job.name \in DOMAIN Key("group", g) /\ Key("group", g)[job.name] = old.members
    BY <1>1, Keys DEF old
  <2>5. Key("group", g) = [n \in DOMAIN Key("group", g) |-> Key("group", g)[n]]
    BY Keys
  <2> DEFINE k == Key("group", g)
  <2> HIDE DEF k
  <2>6. Put(k, job.name, old.members) = k
    BY <2>4, <2>5 DEF Put, k
  <2> QED BY <2>3, <2>6 DEF k
<1> QED BY <1>2, <1>4, <1>7, <1>8, PairByPair

\* Every edit of a job.
LEMMA EditedAgrees ==
  ASSUME NEW job \in Job, NEW mem, mem = [f \in Files |-> mem[f]], Copies(mem),
         NEW new \in Edited(job, mem)
  PROVE  EditAgrees(new, mem, job)
<1>1. new \in EditsOf(job, mem)
  BY DEF Edited
<1>2. CASE job.tool = "useradd"
  BY <1>1, <1>2, UseraddAgrees DEF EditsOf
<1>3. CASE job.tool = "usermod"
  BY <1>1, <1>3, UsermodAgrees DEF EditsOf
<1>4. CASE job.tool = "userdel"
  BY <1>1, <1>4, UserdelAgrees DEF EditsOf
<1>5. CASE job.tool = "groupadd"
  BY <1>1, <1>5, GroupaddAgrees DEF EditsOf
<1>6. CASE job.tool = "groupdel"
  BY <1>1, <1>6, GroupdelAgrees DEF EditsOf
<1>7. CASE job.tool = "newusers"
  <2>1. new = mem
    BY <1>1, <1>7 DEF EditsOf
  <2> QED BY <2>1 DEF EditAgrees
<1>8. CASE job.tool = "groupmod"
  BY <1>1, <1>8, GroupmodAgrees DEF EditsOf
<1> QED BY <1>2, <1>3, <1>4, <1>5, <1>6, <1>7, <1>8 DEF Job

\* add_group of newusers makes a group in both files.
LEMMA AddGroupAgrees ==
  ASSUME NEW line, NEW uid, NEW mem, NEW job, mem = [f \in Files |-> mem[f]],
         NEW new \in AddGroup(line, uid, mem, job)
  PROVE  /\ new.mem["passwd"] = mem["passwd"] /\ new.mem["shadow"] = mem["shadow"]
         /\ mem["gshadow"] = Key("group", mem["group"]) =>
              new.mem["gshadow"] = Key("group", new.mem["group"])
<1> DEFINE group == mem["group"]
           name  == IF line.group = Unset THEN line.name ELSE line.group
           gid   == CASE line.group \in DOMAIN group -> group[line.group].gid
                      [] line.gid # 0 -> line.gid
                      [] OTHER -> FindNewUserGid(group, uid, job)
           found == line.group \in DOMAIN group \/ line.gid \in Gids(group)
           made(i) == [mem EXCEPT !["group"]   = Put(@, name, [gid |-> i, members |-> {}]),
                                  !["gshadow"] = Put(@, name, {})]
<1>0. PICK i \in {gid} \ {0} : new = [gid |-> i, mem |-> IF found THEN mem ELSE made(i)]
  BY DEF AddGroup
<1> HIDE DEF found, gid
<1>1. new.mem \in {mem, made(i)}
  BY <1>0
<1> DEFINE e == [gid |-> i, members |-> {}]
<1>2. e.members = {}
  OBVIOUS
<1>3. /\ made(i)["passwd"] = mem["passwd"] /\ made(i)["shadow"] = mem["shadow"]
      /\ made(i)["group"] = Put(mem["group"], name, e)
      /\ made(i)["gshadow"] = Put(mem["gshadow"], name, {})
  BY DEF Files
<1> HIDE DEF e, name
<1>4. mem["gshadow"] = Key("group", mem["group"]) =>
        Put(mem["gshadow"], name, {}) = Key("group", Put(mem["group"], name, e))
  <2> DEFINE none == {}
  <2>1. none = e.members
    BY <1>2
  <2> HIDE DEF none
  <2>2. mem["gshadow"] = Key("group", mem["group"]) =>
          Put(mem["gshadow"], name, none) = Key("group", Put(mem["group"], name, e))
    BY <2>1, GroupsPut
  <2> QED BY <2>2 DEF none
<1> HIDE DEF made
<1> QED BY <1>1, <1>3, <1>4

\* A line of newusers.
LEMMA AddLineAgrees ==
  ASSUME NEW line, NEW mem, NEW job, job.tool = "newusers", mem = [f \in Files |-> mem[f]],
         NEW new \in AddLine(line, mem, job)
  PROVE  EditAgrees(new, mem, job)
<1> DEFINE uid == LineUid(line, mem["passwd"], job)
<1>1. ~Keeps(job, "passwd") /\ ~Keeps(job, "group")
  BY DEF Keeps
<1>2. CASE line.name \in DOMAIN mem["passwd"]
  <2>1. new = [mem EXCEPT !["shadow"] = WithPassword(@, line.name)]
    BY <1>2 DEF AddLine
  <2>2. /\ new["passwd"] = mem["passwd"] /\ new["group"] = mem["group"]
        /\ new["gshadow"] = mem["gshadow"] /\ new["shadow"] = mem["shadow"] \cup {line.name}
    BY <2>1 DEF Files, WithPassword
  <2> QED BY <1>1, <1>2, <2>2, PairByPair
<1>3. CASE line.name \notin DOMAIN mem["passwd"]
  <2> DEFINE all == IF uid = 0 THEN {} ELSE AddGroup(line, uid, mem, job)
  <2>1. PICK m : /\ new = [m EXCEPT !["shadow"] = WithPassword(@, line.name)]
                 /\ m \in {[made.mem EXCEPT !["passwd"] =
                            Put(@, line.name, [uid |-> uid, gid |-> made.gid])] : made \in all}
    BY <1>3 DEF AddLine
  <2>2. PICK made \in AddGroup(line, uid, mem, job) :
          m = [made.mem EXCEPT !["passwd"] =
                 Put(@, line.name, [uid |-> uid, gid |-> made.gid])]
    BY <2>1
  <2> DEFINE e == [uid |-> uid, gid |-> made.gid]
  <2> HIDE DEF uid
  <2>3. made.mem = [f \in Files |-> made.mem[f]]
    BY <2>2, AddGroupKeepsFiles
  <2>4. /\ new["passwd"] = Put(made.mem["passwd"], line.name, e)
        /\ new["shadow"] = made.mem["shadow"] \cup {line.name}
        /\ new["group"] = made.mem["group"] /\ new["gshadow"] = made.mem["gshadow"]
    BY <2>1, <2>2, <2>3 DEF Files, WithPassword
  <2>5. /\ made.mem["passwd"] = mem["passwd"] /\ made.mem["shadow"] = mem["shadow"]
        /\ mem["gshadow"] = Key("group", mem["group"]) =>
             made.mem["gshadow"] = Key("group", made.mem["group"])
    BY <2>2, AddGroupAgrees
  <2>6. mem["shadow"] = DOMAIN mem["passwd"] => new["shadow"] = DOMAIN new["passwd"]
    BY <2>4, <2>5 DEF Put
  <2> QED BY <1>1, <2>4, <2>5, <2>6, PairByPair
<1> QED BY <1>2, <1>3

(***************************************************************************)
(* The steps that edit and write.                                          *)
(***************************************************************************)
\* At the edit all that will be written is open.
LEMMA AtEdit ==
  ASSUME Shape, LocksInv, FitsInv, AgreeInv, NEW p \in Procs, Doing(p, "edit")
  PROVE  LET s == work[p].script
         IN  /\ Final(Tail(s)) /\ ~Makes(Tail(s), {"edit"}) /\ ~Makes(s, {"open"})
             /\ Makes(s, {"edit"}) /\ Paired(work[p].job, s)
             /\ \A f : Writes(s, f) <=> Writes(Tail(s), f)
             /\ \A f \in Files : Writes(s, f) => work[p].mem[f] # Closed
<1> DEFINE s == work[p].script
<1>1. /\ WorkFits(work[p], Shared) /\ Head(s) = Call("edit", Now(p)) /\ s \in Seq(Calls)
      /\ s # <<>> /\ Makes(s, {"edit"})
  BY WorkNow
<1>2. InOrder(s) /\ Head(s).do = "edit" /\ \A f : Head(s) # Call("close", f)
  BY <1>1 DEF WorkFits, Orderly, Call
<1>3. Plan(work[p])
  BY DEF AgreeInv
<1>4. /\ Final(Tail(s)) /\ \A f : Writes(s, f) <=> Writes(Tail(s), f)
      /\ \A dos : Makes(s, dos) <=> Head(s).do \in dos \/ Makes(Tail(s), dos)
  BY <1>1, <1>2, Rest
<1>5. ~Makes(Tail(s), {"edit"}) /\ ~Makes(Tail(s), {"open"})
  BY <1>4 DEF Final, Makes, Finishing
<1>6. ~Makes(s, {"open"})
  BY <1>2, <1>4, <1>5
<1>7. \A f : ~Opens(s, f)
  BY <1>6 DEF Opens, Makes, Call
<1> QED BY <1>1, <1>3, <1>4, <1>5, <1>6, <1>7 DEF Plan

\* The edit of the copies.
LEMMA EditStepAgrees ==
  ASSUME ToolsAssumption, Shape, NoLostUpdate, LocksInv, FitsInv, AgreeInv,
         NEW p \in Procs, Edit(p)
  PROVE  AgreeInv'
<1> DEFINE w == work[p]
           s == w.script
<1>1. Doing(p, "edit") /\ UNCHANGED <<disk, torn>>
  BY DEF Edit
<1>2. w.written = {} /\ \A a : ~Half(w, a)
  BY <1>1, NotDoneYet DEF Finishing
<1>3. CASE FailExit(p)
  BY <1>1, <1>2, <1>3, FailAgrees
<1>4. CASE \E mem \in Edited(w.job, w.mem) : Proceed(p, [w EXCEPT !.mem = mem])
  <2>1. PICK mem \in Edited(w.job, w.mem) : Proceed(p, [w EXCEPT !.mem = mem])
    BY <1>4
  <2>2. IsWork(w)
    BY ProcWork
  <2>3. WorkFits(w, Shared)
    BY <1>1, WorkNow
  <2>4. /\ Final(Tail(s)) /\ ~Makes(Tail(s), {"edit"}) /\ Makes(s, {"edit"}) /\ Paired(w.job, s)
        /\ \A f : Writes(s, f) <=> Writes(Tail(s), f)
        /\ \A f \in Files : Writes(s, f) => w.mem[f] # Closed
    BY <1>1, AtEdit
  <2>5. \A f \in Files : w.mem[f] # Closed <=> mem[f] # Closed
    <3>1. EditFits(mem, w.mem, Shared)
      BY <1>1, <2>1, EditNow
    <3>2. \A f \in Files : w.mem[f] # Closed => mem[f] # Closed
      BY <3>1, NoTable DEF EditFits
    <3> QED BY <2>1, <3>2 DEF Edited
  <2>6. EditAgrees(mem, w.mem, w.job)
    <3>1. w.job \in Job /\ Copies(w.mem) /\ w.mem = [f \in Files |-> w.mem[f]]
      BY <2>2, <2>3 DEF WorkFits, JobFits, CopiesFit, IsWork
    <3>2. mem \in Edited(w.job, w.mem)
      BY <2>1
    <3> HIDE DEF w
    <3> QED BY <3>1, <3>2, EditedAgrees
  <2>7. mem = [f \in Files |-> mem[f]]
    BY <2>1, <2>2, EditsKeepFiles DEF Edited, IsWork
  <2> DEFINE v == [w EXCEPT !.mem = mem]
  <2>8. v = [job |-> w.job, script |-> w.script, mem |-> mem,
             base |-> w.base, written |-> w.written]
    BY <2>2 DEF IsWork
  <2>9. /\ IsWork(v) /\ v.script = s /\ v.mem = mem /\ v.written = w.written
    BY <2>2, <2>7, <2>8 DEF IsWork
  <2>10. Proceed(p, v)
    BY <2>1
  <2> HIDE DEF v
  <2>11. PICK u : /\ IsWork(u) /\ Becomes(p, u) /\ u.script = Tail(s)
                  /\ u.mem = mem /\ u.written = {}
    BY <1>2, <2>9, <2>10, Proceeded
  <2>12. \A f \in Files : Pending(u, f) <=> Writes(s, f)
    BY <2>4, <2>5, <2>11 DEF Pending
  <2>13. \A a \in Shadowed : /\ Pending(u, ShadowOf(a)) => Pending(u, a)
                             /\ Pending(u, a) => Pending(u, ShadowOf(a)) \/ Keeps(w.job, a)
    BY <2>4, <2>12, PairFiles DEF Paired
  <2>14. Plan(u)
    BY <2>4, <2>11, <2>13 DEF Plan
  <2>15. \A a : ~Half(u, a)
    BY <2>11 DEF Half
  <2>16. ASSUME NEW a \in Shadowed, ~torn PROVE Truth(u, a, disk)
    <3> DEFINE b == ShadowOf(a)
    <3>1. a \in Files /\ b \in Files
      BY PairFiles
    <3>2. Truth(w, a, disk)
      BY <2>16 DEF AgreeInv
    <3>3. ASSUME Pending(u, a), Pending(u, b) PROVE mem[b] = Key(a, mem[a])
      <4>1. w.mem[a] # Closed /\ w.mem[b] # Closed
        BY <2>4, <2>12, <3>1, <3>3
      <4>2. w.mem[b] = Key(a, w.mem[a])
        BY <2>4, <3>2, <4>1 DEF Truth
      <4> QED BY <2>6, <4>1, <4>2 DEF EditAgrees
    <3>4. ASSUME Pending(u, a), ~Pending(u, b) PROVE Key(a, mem[a]) = Key(a, disk[a])
      <4>1. Keeps(w.job, a)
        BY <2>13, <3>4
      <4>2. w.mem[a] # Closed
        BY <2>4, <2>12, <3>1, <3>4
      <4>3. Key(a, mem[a]) = Key(a, w.mem[a])
        BY <2>6, <4>1, <4>2 DEF EditAgrees
      <4>4. Makes(s, {"check", "pick", "edit"}) /\ w.job.tool # "newusers"
        BY <1>1, <4>1, WorkNow DEF Keeps
      <4>5. w.mem[a] = w.base[a]
        BY <2>3, <3>1, <4>2, <4>4 DEF WorkFits, Untouched
      <4> QED BY <3>1, <4>2, <4>3, <4>5 DEF NoLostUpdate
    <3> HIDE DEF b
    <3> QED BY <2>4, <2>11, <2>13, <3>3, <3>4 DEF Truth, b
  <2> QED BY <1>1, <1>2, <2>11, <2>14, <2>15, <2>16, LocalAgrees
<1> QED BY <1>3, <1>4 DEF Edit

\* A line of newusers, which has all files open.
LEMMA LineNow ==
  ASSUME ToolsAssumption, Shape, LocksInv, FitsInv, NEW p \in Procs, Doing(p, "edit"),
         HasLine(work[p].job), \A f \in Files : work[p].mem[f] # Closed,
         NEW mem \in AddLine(Head(work[p].job.lines), work[p].mem, work[p].job)
  PROVE  /\ EditAgrees(mem, work[p].mem, work[p].job) /\ mem = [f \in Files |-> mem[f]]
         /\ \A f \in Files : mem[f] # Closed
<1> DEFINE w == work[p]
           line == Head(w.job.lines)
<1>1. WorkFits(w, Shared) /\ IsWork(w)
  BY WorkNow, ProcWork
<1>2. /\ w.job \in Job /\ Range(w.job.lines) \subseteq Lines /\ Copies(w.mem)
      /\ w.job.tool = "newusers" /\ w.job.lines # <<>> /\ w.mem = [f \in Files |-> w.mem[f]]
  BY <1>1 DEF WorkFits, JobFits, CopiesFit, HasLine, IsWork
<1>3. line \in Line /\ line \in Lines
  BY <1>2, LinesLeft
<1>4. mem \in AddLine(line, w.mem, w.job) /\ \A f \in Files : w.mem[f] # Closed
  OBVIOUS
<1> HIDE DEF w, line
<1> DEFINE shared == SharedUids \cup CopiedUid(line, w.mem["passwd"])
<1>5. SharedUids \cup CopiedUid(line, w.mem["passwd"]) \subseteq shared
  OBVIOUS
<1> HIDE DEF shared
<1>6. EditFits(mem, w.mem, shared)
  BY <1>2, <1>3, <1>4, <1>5, AddLineFits
<1>7. \A f \in Files : mem[f] # Closed
  BY <1>4, <1>6, NoTable DEF EditFits
<1>8. EditAgrees(mem, w.mem, w.job)
  BY <1>2, <1>4, AddLineAgrees
<1>9. mem = [f \in Files |-> mem[f]]
  BY <1>2, <1>4, LinesKeepFiles
<1> QED BY <1>7, <1>8, <1>9 DEF w

\* A line of newusers keeps passwd with shadow, and group with gshadow.
LEMMA LineStepAgrees ==
  ASSUME ToolsAssumption, Shape, LocksInv, FitsInv, AgreeInv, NEW p \in Procs, EditLine(p)
  PROVE  AgreeInv'
<1> DEFINE w == work[p]
           s == w.script
           line == Head(w.job.lines)
           edited == {mem \in AddLine(line, w.mem, w.job) : \A f \in Files : w.mem[f] # Closed}
<1>1. Doing(p, "edit") /\ UNCHANGED <<disk, torn>> /\ HasLine(w.job)
  BY DEF EditLine
<1>2. w.written = {} /\ \A a : ~Half(w, a)
  BY <1>1, NotDoneYet DEF Finishing
<1>3. CASE FailExit(p)
  BY <1>1, <1>2, <1>3, FailAgrees
<1>4. CASE \E mem \in edited : Becomes(p, [w EXCEPT !.mem = mem, !.job = LineRead(@)])
  <2>1. PICK mem \in edited : Becomes(p, [w EXCEPT !.mem = mem, !.job = LineRead(@)])
    BY <1>4
  <2>2. IsWork(w)
    BY ProcWork
  <2>3. /\ Makes(s, {"edit"}) /\ ~Makes(s, {"open"}) /\ Paired(w.job, s)
    BY <1>1, AtEdit
  <2>4. PICK job : job = LineRead(w.job)
    OBVIOUS
  <2>5. EditAgrees(mem, w.mem, w.job) /\ \A f \in Files : mem[f] # Closed
    BY <1>1, <2>1, LineNow
  <2>6. mem = [f \in Files |-> mem[f]]
    BY <1>1, <2>1, LineNow
  <2> DEFINE v == [w EXCEPT !.mem = mem, !.job = job]
  <2>7. /\ IsWork(v) /\ v.script = s /\ v.job = job /\ v.mem = mem /\ v.written = w.written
    <3> HIDE DEF w
    <3> QED BY <2>2, <2>6 DEF IsWork
  <2>8. Becomes(p, v)
    BY <2>1, <2>4
  <2> HIDE DEF v
  <2>9. Paired(v.job, s)
    <3>1. w.job \in Job /\ w.job.tool = "newusers"
      BY <1>1, WorkNow DEF WorkFits, JobFits, HasLine
    <3>2. \A a : ~Keeps(w.job, a)
      BY <3>1 DEF Keeps
    <3> QED BY <2>3, <3>2 DEF Paired
  <2>10. ~Final(s)
    BY <2>3 DEF Final, Makes, Finishing
  <2>11. Plan(v)
    BY <1>2, <2>3, <2>5, <2>7, <2>9, <2>10 DEF Plan
  <2>12. \A a : ~Half(v, a)
    BY <1>2, <2>7 DEF Half
  <2>13. ASSUME NEW a \in Shadowed, ~torn PROVE Truth(v, a, disk)
    <3>1. a \in Files /\ ShadowOf(a) \in Files
      BY PairFiles
    <3>2. w.mem[a] # Closed /\ w.mem[ShadowOf(a)] # Closed
      BY <2>1, <3>1
    <3>3. w.mem[ShadowOf(a)] = Key(a, w.mem[a])
      BY <2>3, <2>13, <3>2 DEF AgreeInv, Truth
    <3>4. mem[ShadowOf(a)] = Key(a, mem[a])
      BY <2>5, <3>2, <3>3 DEF EditAgrees
    <3> QED BY <2>7, <2>10, <3>4 DEF Truth
  <2> QED BY <1>1, <1>2, <2>7, <2>8, <2>11, <2>12, <2>13, LocalAgrees
<1> QED BY <1>3, <1>4 DEF EditLine

\* A file that is written is no longer pending.
LEMMA CloseWork ==
  ASSUME NEW w, NEW u, NEW n \in Files, Plan(w), w.script \in Seq(Calls), w.script # <<>>,
         InOrder(w.script), Head(w.script) = Call("close", n), w.mem[n] # Closed,
         u.script = Tail(w.script), u.written = w.written \cup {n},
         \A f \in Files : u.mem[f] = IF f = n THEN Closed ELSE w.mem[f]
  PROVE  /\ Plan(u) /\ Final(w.script) /\ Final(u.script) /\ ~Makes(u.script, {"edit"})
         /\ Pending(w, n)
         /\ \A f \in Files : Pending(u, f) <=> Pending(w, f) /\ f # n
<1> DEFINE s == w.script
<1>1. Head(s).do = "close" /\ \A f : Head(s) = Call("close", f) <=> f = n
  BY DEF Call
<1>2. /\ \A f : Writes(s, f) <=> Head(s) = Call("close", f) \/ Writes(Tail(s), f)
      /\ Final(s) <=> Head(s).do \in Finishing /\ Final(Tail(s))
      /\ Head(s).do \in {"edit", "close"} => Final(Tail(s))
  BY Rest
<1>3. Final(s) /\ Final(Tail(s))
  BY <1>1, <1>2 DEF Finishing
<1>4. ~Makes(Tail(s), {"edit"})
  BY <1>3 DEF Final, Makes, Finishing
<1>5. Pending(w, n)
  BY <1>1, <1>2 DEF Pending
<1>6. \A f \in Files : Pending(u, f) <=> Pending(w, f) /\ f # n
  BY <1>1, <1>2 DEF Pending
<1>7. \A f \in Files : f \in u.written => u.mem[f] = Closed
  BY DEF Plan
<1>8. \A a \in Shadowed : Pending(u, ShadowOf(a)) => Pending(u, a) \/ a \in u.written
  BY <1>3, <1>6, PairFiles DEF Plan
<1>9. Plan(u)
  BY <1>3, <1>4, <1>7, <1>8 DEF Plan
<1> QED BY <1>3, <1>4, <1>5, <1>6, <1>9

\* Half, by the name of the shadow file.
LEMMA HalfWay ==
  ASSUME NEW w, NEW a, NEW b, b = ShadowOf(a)
  PROVE  Half(w, a) <=> \/ Pending(w, b) /\ a \in w.written
                        \/ Pending(w, a) /\ b \in w.written
BY DEF Half

\* passwd and group are written before or after their shadow file, or alone.
LEMMA CloseAgrees ==
  ASSUME Shape, NoLostUpdate, LocksInv, FitsInv, AgreeInv, NEW p \in Procs, Close(p)
  PROVE  AgreeInv'
<1> DEFINE w == work[p]
<1>1. PICK n : n = Now(p)
  OBVIOUS
<1> DEFINE v == [w EXCEPT !.mem[n] = Closed, !.written = @ \cup {n}]
<1>2. /\ Doing(p, "close") /\ torn' = torn /\ Proceed(p, v) /\ w.mem[n] # Closed
      /\ disk' = [disk EXCEPT ![n] = w.mem[n]]
  BY <1>1 DEF Close
<1>3. IsWork(w)
  BY ProcWork
<1>4. /\ IsWork(v) /\ v.mem = [w.mem EXCEPT ![n] = Closed]
      /\ v.script = w.script /\ v.written = w.written \cup {n}
  <2> HIDE DEF w
  <2> QED BY <1>3 DEF IsWork
<1> HIDE DEF v
<1>5. /\ WorkFits(w, Shared) /\ Head(w.script) = Call("close", n)
      /\ w.script \in Seq(Calls) /\ w.script # <<>>
  BY <1>1, <1>2, WorkNow
<1>6. InOrder(w.script) /\ n \in Files
  <2>1. Call("close", n) \in Calls
    BY <1>5, HeadTailProperties
  <2> QED BY <1>5, <2>1 DEF WorkFits, Orderly, Call, Calls
<1>7. PICK u : /\ IsWork(u) /\ Becomes(p, u) /\ u.script = Tail(w.script)
               /\ u.mem = v.mem /\ u.written = w.written \cup {n}
  BY <1>2, <1>4, Proceeded
<1>8. \A f \in Files : /\ u.mem[f] = IF f = n THEN Closed ELSE w.mem[f]
                       /\ disk'[f] = IF f = n THEN w.mem[f] ELSE disk[f]
  BY <1>2, <1>3, <1>4, <1>7 DEF IsWork, Shape
<1>9. /\ Plan(u) /\ Final(w.script) /\ Final(u.script) /\ ~Makes(u.script, {"edit"})
      /\ Pending(w, n)
      /\ \A f \in Files : Pending(u, f) <=> Pending(w, f) /\ f # n
  <2>1. Plan(w)
    BY DEF AgreeInv
  <2> QED BY <1>2, <1>5, <1>6, <1>7, <1>8, <2>1, CloseWork
<1>10. PICK x : /\ x = work'[p] /\ Plan(x)
                /\ \A a \in Shadowed : Half(x, a) <=> Half(u, a)
                /\ \A a \in Shadowed : \A d : Truth(u, a, d) => Truth(x, a, d)
  BY <1>7, <1>9, Ended
<1>11. \A q \in Procs \ {p} : work'[q] = work[q]
  BY <1>7, BecomesWork
<1>12. \A q \in Procs : Plan(work'[q])
  BY <1>10, <1>11 DEF AgreeInv
<1>13. ASSUME NEW a \in Shadowed
       PROVE  \A q, r \in Procs : Half(work'[q], a) /\ Half(work'[r], a) => q = r
  <2> DEFINE b == ShadowOf(a)
  <2>1. a \in Files /\ b \in Files /\ b # a
    BY PairFiles
  <2>2. ASSUME Half(u, a), ~Half(w, a), NEW q \in Procs, Half(work[q], a) PROVE q = p
    <3>1. Pending(w, a) /\ Pending(w, b)
      BY <1>7, <1>9, <2>1, <2>2 DEF Half
    <3>2. owner[a] = p /\ owner[b] = p
      BY <2>1, <3>1 DEF Pending, NoLostUpdate
    <3> QED BY <2>2, <3>2, HalfLocks
  <2> HIDE DEF b
  <2>3. CASE Half(u, a) /\ ~Half(w, a)
    BY <1>11, <2>2, <2>3
  <2>4. CASE Half(u, a) => Half(w, a)
    <3>1. \A q \in Procs : Half(work'[q], a) => Half(work[q], a)
      BY <1>10, <1>11, <2>4
    <3> QED BY <3>1 DEF AgreeInv
  <2> QED BY <2>3, <2>4
<1>14. ASSUME NEW a \in Shadowed, ~torn
       PROVE  /\ \A q \in Procs : Truth(work'[q], a, disk')
              /\ (\A q \in Procs : ~Half(work'[q], a)) => disk'[ShadowOf(a)] = Key(a, disk'[a])
  <2> DEFINE b == ShadowOf(a)
  <2>1. a \in Files /\ b \in Files /\ b # a
    BY PairFiles
  <2> HIDE DEF b
  <2>2. \A q \in Procs : Truth(work[q], a, disk)
    BY <1>14 DEF AgreeInv
  <2>3. (\A q \in Procs : ~Half(work[q], a)) => disk[b] = Key(a, disk[a])
    BY <1>14 DEF AgreeInv, b
  <2>4. \A q, r \in Procs : Half(work[q], a) /\ Half(work[r], a) => q = r
    BY DEF AgreeInv
  <2>5. \A q \in Procs : \A f \in {a, b} : Pending(work[q], f) => owner[f] = q
    BY <2>1 DEF Pending, NoLostUpdate
  <2>6. /\ Pending(w, a) /\ Pending(w, b) => w.mem[b] = Key(a, w.mem[a])
        /\ Pending(w, b) /\ ~Pending(w, a) => w.mem[b] = Key(a, disk[a])
        /\ Pending(w, a) /\ ~Pending(w, b) =>
             Key(a, w.mem[a]) = IF b \in w.written THEN disk[b] ELSE Key(a, disk[a])
    BY <1>9, <2>2 DEF Truth, b
  <2>7. \A q \in Procs : Final(work[q].script) /\ Pending(work[q], b) =>
                           Pending(work[q], a) \/ a \in work[q].written
    BY DEF AgreeInv, Plan, b
  <2>8. \A q \in Procs : Half(work[q], a) <=> \/ Pending(work[q], b) /\ a \in work[q].written
                                              \/ Pending(work[q], a) /\ b \in work[q].written
    <3>1. b = ShadowOf(a)
      BY DEF b
    <3> QED BY <3>1, HalfWay
  <2>9. Half(u, a) <=> \/ Pending(u, b) /\ a \in u.written
                       \/ Pending(u, a) /\ b \in u.written
    BY DEF Half, b
  <2>10. CASE n = a
    <3>1. /\ disk'[a] = w.mem[a] /\ disk'[b] = disk[b] /\ u.mem[b] = w.mem[b]
          /\ ~Pending(u, a) /\ (Pending(u, b) <=> Pending(w, b)) /\ Pending(w, a)
          /\ owner[a] = p
      BY <1>8, <1>9, <2>1, <2>5, <2>10
    <3>2. ASSUME NEW q \in Procs \ {p} PROVE Truth(work[q], a, disk')
      <4>1. ~Pending(work[q], a)
        BY <2>5, <3>1, <3>2
      <4>2. ASSUME Final(work[q].script), Pending(work[q], b)
            PROVE  work[q].mem[b] = Key(a, disk'[a])
        <5>1. Half(work[q], a)
          <6>1. a \in work[q].written
            BY <2>7, <3>2, <4>1, <4>2
          <6> QED BY <2>8, <3>2, <4>2, <6>1
        <5>2. ~Half(w, a)
          BY <2>4, <3>2, <5>1
        <5>3. ~Pending(w, b)
          BY <2>5, <3>2, <4>2
        <5>4. Key(a, w.mem[a]) = Key(a, disk[a])
          BY <2>6, <2>8, <3>1, <5>2, <5>3
        <5> QED BY <2>2, <3>1, <4>1, <4>2, <5>4 DEF Truth, b
      <4> QED BY <2>2, <4>1, <4>2 DEF Truth, b
    <3>3. Truth(u, a, disk')
      BY <1>9, <2>6, <3>1 DEF Truth, b
    <3>4. ASSUME \A q \in Procs : ~Half(work'[q], a) PROVE disk'[b] = Key(a, disk'[a])
      <4>1. ~Pending(w, b)
        BY <1>7, <1>10, <2>9, <2>10, <3>1, <3>4
      <4>2. CASE b \in w.written
        BY <2>6, <3>1, <4>1, <4>2
      <4>3. CASE b \notin w.written
        <5>1. ~Half(w, a)
          BY <2>8, <4>1, <4>3
        <5>2. disk[b] = Key(a, disk[a])
          BY <1>11, <2>3, <3>4, <5>1
        <5> QED BY <2>6, <3>1, <4>1, <4>3, <5>2
      <4> QED BY <4>2, <4>3
    <3> QED BY <1>10, <1>11, <3>2, <3>3, <3>4 DEF b
  <2>11. CASE n = b
    <3>1. /\ disk'[b] = w.mem[b] /\ disk'[a] = disk[a] /\ u.mem[a] = w.mem[a]
          /\ ~Pending(u, b) /\ (Pending(u, a) <=> Pending(w, a)) /\ Pending(w, b)
          /\ owner[b] = p /\ b \in u.written
      BY <1>7, <1>8, <1>9, <2>1, <2>5, <2>11
    <3>2. ASSUME NEW q \in Procs \ {p} PROVE Truth(work[q], a, disk')
      <4>1. ~Pending(work[q], b)
        BY <2>5, <3>1, <3>2
      <4>2. ASSUME Pending(work[q], a), b \in work[q].written PROVE FALSE
        <5>1. Half(work[q], a)
          BY <2>8, <4>2
        <5>2. ~Pending(w, a)
          BY <2>5, <3>2, <4>2
        <5>3. Half(w, a)
          <6>1. a \in w.written
            BY <1>9, <2>7, <3>1, <5>2
          <6> QED BY <2>8, <3>1, <6>1
        <5> QED BY <2>4, <3>2, <5>1, <5>3
      <4> QED BY <2>2, <3>1, <4>1, <4>2 DEF Truth, b
    <3>3. Truth(u, a, disk')
      BY <1>9, <2>6, <3>1 DEF Truth, b
    <3>4. ASSUME \A q \in Procs : ~Half(work'[q], a) PROVE disk'[b] = Key(a, disk'[a])
      <4>1. ~Pending(w, a)
        BY <1>10, <2>9, <3>1, <3>4
      <4> QED BY <2>6, <3>1, <4>1
    <3> QED BY <1>10, <1>11, <3>2, <3>3, <3>4 DEF b
  <2>12. CASE n \notin {a, b}
    <3>1. /\ disk'[a] = disk[a] /\ disk'[b] = disk[b]
          /\ u.mem[a] = w.mem[a] /\ u.mem[b] = w.mem[b]
          /\ (Pending(u, a) <=> Pending(w, a)) /\ (Pending(u, b) <=> Pending(w, b))
          /\ (a \in u.written <=> a \in w.written) /\ (b \in u.written <=> b \in w.written)
      BY <1>7, <1>8, <1>9, <2>1, <2>12
    <3>2. ASSUME NEW q \in Procs PROVE Truth(work[q], a, disk')
      BY <2>2, <3>1 DEF Truth, b
    <3>3. Truth(u, a, disk')
      BY <1>9, <2>6, <3>1 DEF Truth, b
    <3>4. \A q \in Procs : Half(work[q], a) <=> Half(work'[q], a)
      <4>1. Half(w, a) <=> Half(u, a)
        <5>1. Half(w, a) <=> \/ Pending(w, b) /\ a \in w.written
                             \/ Pending(w, a) /\ b \in w.written
          BY <2>8
        <5> QED BY <2>9, <3>1, <5>1
      <4>2. Half(w, a) <=> Half(work'[p], a)
        BY <1>10, <4>1
      <4> QED BY <1>11, <4>2
    <3> QED BY <1>10, <1>11, <2>3, <3>1, <3>2, <3>3, <3>4 DEF b
  <2> QED BY <2>10, <2>11, <2>12
<1> QED BY <1>2, <1>12, <1>13, <1>14 DEF AgreeInv

\* No step of a tool, nor its death, loses the invariant.
LEMMA AgreeStep ==
  ASSUME ToolsAssumption, ToolsInv, LocksInv, FitsInv, AgreeInv, [Next]_vars PROVE AgreeInv'
<1>0. Shape /\ NoLostUpdate
  BY DEF ToolsInv
<1>1. CASE UNCHANGED vars
  BY <1>1 DEF vars, AgreeInv
<1>2. CASE Next
  <2>1. PICK p \in Procs : Start(p) \/ Step(p) \/ Killed(p)
    BY <1>2, QuitIsDeath DEF Next
  <2>2. CASE Start(p)
    BY <1>0, <2>2, StartAgrees
  <2>3. CASE Lookup(p)
    BY <1>0, <2>3, LookupAgrees
  <2>4. CASE Check(p)
    BY <1>0, <2>4, CheckAgrees
  <2>5. CASE Lock(p)
    <3>1. Doing(p, "lock") /\ Proceed(p, work[p]) /\ UNCHANGED <<disk, torn>>
      BY <2>5 DEF Lock
    <3> QED BY <1>0, <3>1, ProcWork, QuietAgrees
  <2>6. CASE Open(p)
    BY <1>0, <2>6, OpenAgrees
  <2>7. CASE Pick(p)
    BY <1>0, <2>7, PickAgrees
  <2>8. CASE EditLine(p)
    BY <1>0, <2>8, LineStepAgrees
  <2>9. CASE Edit(p)
    BY <1>0, <2>9, EditStepAgrees
  <2>10. CASE Close(p)
    BY <1>0, <2>10, CloseAgrees
  <2>11. CASE Unlock(p)
    BY <1>0, <2>11, UnlockAgrees
  <2>12. CASE CallFails(p) \/ Killed(p)
    BY <1>0, <2>12, StopAgrees
  <2> QED BY <2>1, <2>2, <2>3, <2>4, <2>5, <2>6, <2>7, <2>8, <2>9, <2>10, <2>11, <2>12 DEF Step
<1> QED BY <1>1, <1>2

\* At first nobody is at work, and the shadow files are those of Init.
LEMMA AgreeInit == ASSUME Init PROVE AgreeInv
<1>1. /\ disk["passwd"] = Passwd0 /\ disk["shadow"] = DOMAIN Passwd0 /\ disk["group"] = Group0
      /\ disk["gshadow"] = [g \in DOMAIN Group0 |-> Group0[g].members]
  BY DEF Init, Files
<1>2. \A p \in Procs : work[p] = Idle
  BY DEF Init
<1>3. \A a \in Shadowed : disk[ShadowOf(a)] = Key(a, disk[a])
  BY <1>1, Keys DEF Shadowed
<1> QED BY <1>2, <1>3, IdleAgrees DEF AgreeInv

\* passwd and shadow name the same users, and group and gshadow the same groups
\* and members, when nobody is at work on the two and no tool was stopped half
\* way (grp_update and usr_update of the tools, add_group and close_files of
\* newusers).
THEOREM ToolsFilesAgree == ASSUME ToolsAssumption PROVE Spec => []FilesAgree
<1>1. Init => ToolsInv /\ LocksInv /\ FitsInv /\ AgreeInv
  BY ToolsAssumption, ToolsInit, LocksInit, FitsInit, AgreeInit
<1>2. ToolsInv /\ LocksInv /\ FitsInv /\ AgreeInv /\ [Next]_vars
        => ToolsInv' /\ LocksInv' /\ FitsInv' /\ AgreeInv'
  BY ToolsAssumption, ToolsStep, LocksStep, FitsStep, AgreeStep DEF ToolsInv
<1>3. ToolsInv /\ AgreeInv => FilesAgree
  <2> SUFFICES ASSUME ToolsInv, AgreeInv, ~torn PROVE FilesAgree
    BY DEF FilesAgree
  <2>1. ASSUME NEW a \in Shadowed, owner[a] = None, owner[ShadowOf(a)] = None
        PROVE  disk[ShadowOf(a)] = Key(a, disk[a])
    <3>1. \A q \in Procs : ~Half(work[q], a)
      BY <2>1, ToolsAssumption, HalfLocks DEF ToolsInv, ToolsAssumption
    <3> QED BY <3>1 DEF AgreeInv
  <2> QED BY <2>1, Keys DEF FilesAgree, Shadowed
<1> QED BY <1>1, <1>2, <1>3, PTL DEF Spec
=============================================================================
