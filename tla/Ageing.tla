------------------------------- MODULE Ageing -------------------------------
(***************************************************************************)
(* Passwords and their age.  A password is a hash, locked or not by a "!"  *)
(* in front of it; the hash may be empty, or "x", which stands for the     *)
(* one of the shadow file.  An age is counted in days, -1 for a field that *)
(* is not set.                                                             *)
(***************************************************************************)
EXTENDS Integers

CONSTANTS
  Today,
  LongMax   \* the largest long

AgeFields == {"lstchg", "max", "warn", "inact", "expire"}

NoAge  == [f \in AgeFields |-> -1]
NewAge == [NoAge EXCEPT !["lstchg"] = Today]

Hashed(h) == [locked |-> FALSE, hash |-> h]
Shadow     == Hashed("x")
NoPassword == Hashed("")

Lock(pw)   == [pw EXCEPT !.locked = TRUE]
Unlock(pw) == [pw EXCEPT !.locked = FALSE]

\* Unlocking would leave an account without a password.
UnlocksNothing(pw) == pw = Lock(NoPassword)

\* addsl: a sum that stops at the largest long.
AddSl(a, b) == IF a > 0 /\ b > LongMax - a THEN LongMax ELSE a + b

AccountExpired(age, now) == age["expire"] > 0 /\ now >= age["expire"]

MustChange(pw, age) == age["lstchg"] = 0 /\ pw = Shadow

PasswordInactive(age, now) ==
  /\ age["lstchg"] > 0 /\ age["max"] >= 0 /\ age["inact"] >= 0
  /\ now >= AddSl(AddSl(age["lstchg"], age["max"]), age["inact"])

PasswordOld(age, now) ==
  -1 \notin {age["lstchg"], age["max"]} /\ now >= AddSl(age["lstchg"], age["max"])

\* isexpired: 0, or 1 when the password must be changed, 2 when it is too
\* late for that, 3 when the account has expired.
IsExpired(pw, age, now) ==
  IF AccountExpired(age, now) THEN 3
  ELSE IF MustChange(pw, age) THEN 1
  ELSE IF PasswordInactive(age, now) THEN 2
  ELSE IF PasswordOld(age, now) THEN 1 ELSE 0

\* agecheck: the days left of which a user is told, none when there is
\* nothing to tell.
DaysLeftTold(age, now) ==
  {left \in {AddSl(age["lstchg"] - now, age["max"])} :
     /\ -1 \notin {age["lstchg"], age["max"], age["warn"]}
     /\ age["lstchg"] # 0
     /\ left <= age["warn"] /\ left >= 0}
=============================================================================
