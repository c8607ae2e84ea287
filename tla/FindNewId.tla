----------------------------- MODULE FindNewId -----------------------------
(***************************************************************************)
(* How an account tool picks an identifier (lib/find_new_uid.c and         *)
(* lib/find_new_gid.c, which differ in the file they read): above all      *)
(* those in use for a user, below all those in use for a system account,   *)
(* and only when that side of the range is full any that is free.          *)
(*                                                                         *)
(* The tool holds the lock of the file, so what gr_next() walks and what   *)
(* getgrgid() answers is the same set, "used"; identifiers known only to a *)
(* network service are left out.  0 is the answer "no identifier".         *)
(***************************************************************************)
EXTENDS Naturals, FiniteSetsExt

CONSTANT Reserved    \* UINT16_MAX and UINT32_MAX, which stand for errors

Free(used, lo, hi) == (lo .. hi) \ (used \cup Reserved)

\* Variant: the last identifier of the range is not looked at.
NewIdPastLast(used, lo, hi) ==
  LET local == used \cap (lo .. hi)
  IN  IF local = {} THEN lo ELSE Max(local) + 1

\* Upwards from the first identifier above those in use, then from lo.
NewId(used, lo, hi) ==
  LET free  == Free(used, lo, hi)
      local == used \cap (lo .. hi)
      above == {id \in free : local # {} => id > Max(local)}
  IN  IF above # {} THEN Min(above)
      ELSE IF free # {} THEN Min(free) ELSE 0

\* Downwards from the first identifier below those in use, then from hi.
NewSystemId(used, lo, hi) ==
  LET free  == Free(used, lo, hi)
      local == used \cap (lo .. hi)
      below == {id \in free : local # {} => id < Min(local)}
  IN  IF below # {} THEN Max(below)
      ELSE IF free # {} THEN Max(free) ELSE 0

\* The preferred identifier when nobody has it and it is at least least.
PreferredOr(id, least, hi, used, other) ==
  IF id \in Free(used, least, hi) THEN id ELSE other
=============================================================================
