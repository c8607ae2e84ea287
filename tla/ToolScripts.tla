----------------------------- MODULE ToolScripts -----------------------------
(***************************************************************************)
(* What the models of the tools share: tables with an entry for each name, *)
(* and the calls that a tool makes on its files, written as a sequence.    *)
(***************************************************************************)
EXTENDS Naturals, Sequences, FiniteSets, SequencesExt

Put(table, name, entry) ==
  [n \in DOMAIN table \cup {name} |-> IF n = name THEN entry ELSE table[n]]

Drop(table, name) == [n \in DOMAIN table \ {name} |-> table[n]]

Call(do, f) == [do |-> do, file |-> f]
Each(do, files) == [i \in DOMAIN files |-> Call(do, files[i])]

\* One call and another on each file, before the next file.
EachTwo(one, other, files) ==
  [i \in 1 .. 2 * Len(files) |->
     IF i % 2 = 1 THEN Call(one, files[(i + 1) \div 2]) ELSE Call(other, files[i \div 2])]

LockAndOpen(files)    == EachTwo("lock", "open", files)
CloseAndUnlock(files) == EachTwo("close", "unlock", files)

\* The entries of a sequence at some of its positions, in their order.
EntriesAt(s, at) ==
  [k \in 1 .. Cardinality(at) |-> s[CHOOSE i \in at : Cardinality(at \cap 1 .. i) = k]]

\* The calls that are not on a file.
Without(calls, f) == EntriesAt(calls, {i \in DOMAIN calls : calls[i].file # f})

\* The unlocks, in this order, of the files that p has locked.
UnlockHeld(order, owner, p) ==
  Each("unlock", EntriesAt(order, {i \in DOMAIN order : owner[order[i]] = p}))
=============================================================================
