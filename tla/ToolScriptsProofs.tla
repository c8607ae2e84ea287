------------------------- MODULE ToolScriptsProofs -------------------------
(***************************************************************************)
(* Lemmas about the scripts of the tools: which calls they make, in what   *)
(* order, and that a lock in a script is followed by its unlock.           *)
(***************************************************************************)
EXTENDS ToolScripts, FiniteSetTheorems, SequenceTheorems, TLAPS

\* From its position i on, the script s unlocks f before any call after which
\* the tool may end at once (quits), and before it looks whether f is there.
Covers(s, i, f, quits) ==
  \E j \in i .. Len(s) :
    /\ s[j] = Call("unlock", f)
    /\ \A k \in i .. j : s[k].do \notin quits /\ s[k] # Call("test", f)

\* Every lock that is still to be taken is given back later.
Balanced(s, quits) ==
  \A i \in 1 .. Len(s) : s[i].do = "lock" => Covers(s, i, s[i].file, quits)

-----------------------------------------------------------------------------
(* The entries at some positions *)

\* The rank of a position among those of a set: the order is that of the
\* sequence s, and t has the entry of rank k at its position k.
Ranks(rank, s, at, t) ==
  \E m \in Nat :
    /\ t = [k \in 1 .. m |-> t[k]]
    /\ rank \in [at -> 1 .. m]
    /\ \A i, j \in at : i < j => rank[i] < rank[j]
    /\ \A k \in 1 .. m : \E i \in at : rank[i] = k
    /\ \A i \in at : t[rank[i]] = s[i]

LEMMA EntriesAtFact ==
  ASSUME NEW n \in Nat, NEW at \in SUBSET (1 .. n), NEW s
  PROVE  \E rank : Ranks(rank, s, at, EntriesAt(s, at))
<1> DEFINE upto(i) == at \cap 1 .. i
           m == Cardinality(at)
           rank == [i \in at |-> Cardinality(upto(i))]
<1>1. IsFiniteSet(at) /\ m \in Nat
  <2>1. IsFiniteSet(1 .. n)
    BY FS_Interval
  <2>2. IsFiniteSet(at)
    BY <2>1, FS_Subset
  <2> QED
    BY <2>2, FS_CardinalityType
<1>2. \A i \in at : IsFiniteSet(upto(i)) /\ upto(i) \in SUBSET at
  BY <1>1, FS_Subset
<1>3. \A i \in at : Cardinality(upto(i)) \in 1 .. m
  <2> SUFFICES ASSUME NEW i \in at PROVE Cardinality(upto(i)) \in 1 .. m
    OBVIOUS
  <2>1. Cardinality(upto(i)) \in Nat /\ Cardinality(upto(i)) <= m
    BY <1>1, <1>2, FS_CardinalityType, FS_Subset
  <2>2. i \in upto(i)
    OBVIOUS
  <2>3. Cardinality(upto(i)) # 0
    BY <1>2, <2>2, FS_EmptySet
  <2> QED
    BY <1>1, <2>1, <2>3
<1>4. \A i, j \in at : i < j => Cardinality(upto(i)) < Cardinality(upto(j))
  <2> SUFFICES ASSUME NEW i \in at, NEW j \in at, i < j
               PROVE  Cardinality(upto(i)) < Cardinality(upto(j))
    OBVIOUS
  <2>1. upto(i) \in SUBSET upto(j) /\ j \in upto(j) /\ j \notin upto(i)
    OBVIOUS
  <2>2. /\ Cardinality(upto(i)) <= Cardinality(upto(j))
        /\ Cardinality(upto(i)) # Cardinality(upto(j))
    BY <1>2, <2>1, FS_Subset
  <2> QED
    BY <1>3, <2>2
<1>5. rank \in [at -> 1 .. m]
  BY <1>3
<1>6. \A k \in 1 .. m : \E i \in at : rank[i] = k
  <2>1. rank \in Injection(at, 1 .. m)
    <3>1. ASSUME NEW i \in at, NEW j \in at, rank[i] = rank[j] PROVE i = j
      <4>1. ~ (i < j) /\ ~ (j < i)
        BY <1>3, <1>4, <3>1
      <4> QED
        BY <4>1
    <3> HIDE DEF rank
    <3>2. DOMAIN rank = at
      BY <1>5
    <3> QED
      BY <1>5, <3>1, <3>2 DEF Injection, IsInjective
  <2>2. IsFiniteSet(1 .. m) /\ Cardinality(1 .. m) = m
    BY <1>1, FS_Interval
  <2>3. rank \in Surjection(at, 1 .. m)
    BY <2>1, <2>2, FS_Injection
  <2> QED
    BY <2>3 DEF Surjection
<1>7. \A i \in at : EntriesAt(s, at)[rank[i]] = s[i]
  <2> SUFFICES ASSUME NEW i \in at PROVE EntriesAt(s, at)[rank[i]] = s[i]
    OBVIOUS
  <2>1. \A j \in at : Cardinality(upto(j)) = Cardinality(upto(i)) => j = i
    <3> SUFFICES ASSUME NEW j \in at, Cardinality(upto(j)) = Cardinality(upto(i))
                 PROVE  j = i
      OBVIOUS
    <3>1. ~ (i < j) /\ ~ (j < i)
      BY <1>3, <1>4
    <3> QED
      BY <3>1
  <2>2. (CHOOSE j \in at : Cardinality(at \cap 1 .. j) = rank[i]) = i
    BY <2>1
  <2> QED
    BY <1>5, <2>2 DEF EntriesAt
<1>8. EntriesAt(s, at) = [k \in 1 .. m |-> EntriesAt(s, at)[k]]
  BY DEF EntriesAt
<1>9. \A i, j \in at : i < j => rank[i] < rank[j]
  BY <1>4
<1> DEFINE t == EntriesAt(s, at)
<1> HIDE DEF rank, m, t
<1>10. Ranks(rank, s, at, t)
  BY <1>1, <1>5, <1>6, <1>7, <1>8, <1>9 DEF Ranks, t
<1> QED
  BY <1>10 DEF t

\* The entries are those of the sequence at these positions.
LEMMA EntriesAtRange ==
  ASSUME NEW S, NEW s \in Seq(S), NEW at \in SUBSET DOMAIN s
  PROVE  EntriesAt(s, at) \in Seq(S) /\ Range(EntriesAt(s, at)) = {s[i] : i \in at}
<1>1. Len(s) \in Nat /\ DOMAIN s = 1 .. Len(s) /\ s \in [1 .. Len(s) -> S]
  BY LenProperties
<1>2. PICK n \in Nat : at \in SUBSET (1 .. n)
  BY <1>1
<1> DEFINE t == EntriesAt(s, at)
<1>0. PICK rank : Ranks(rank, s, at, t)
  BY <1>2, EntriesAtFact
<1> HIDE DEF t
<1>3. PICK m \in Nat :
        /\ t = [k \in 1 .. m |-> t[k]]
        /\ rank \in [at -> 1 .. m]
        /\ \A k \in 1 .. m : \E i \in at : rank[i] = k
        /\ \A i \in at : t[rank[i]] = s[i]
  BY <1>0 DEF Ranks
<1>4. \A k \in 1 .. m : \E i \in at : t[k] = s[i]
  <2> TAKE k \in 1 .. m
  <2>1. PICK i \in at : rank[i] = k
    BY <1>3
  <2>2. t[rank[i]] = s[i]
    BY <1>3
  <2> QED BY <2>1, <2>2
<1>5. \A k \in 1 .. m : t[k] \in S
  BY <1>1, <1>4
<1>6. t \in [1 .. m -> S]
  BY <1>3, <1>5
<1>7. t \in Seq(S) /\ DOMAIN t = 1 .. m
  BY <1>3, <1>6
<1>8. \A i \in at : s[i] \in {t[k] : k \in 1 .. m}
  <2> SUFFICES ASSUME NEW i \in at PROVE \E k \in 1 .. m : t[k] = s[i]
    OBVIOUS
  <2> QED
    BY <1>3
<1>9. Range(t) = {s[i] : i \in at}
  <2>1. Range(t) = {t[k] : k \in 1 .. m}
    BY <1>7 DEF Range
  <2>2. \A x \in Range(t) : x \in {s[i] : i \in at}
    BY <1>4, <2>1
  <2>3. \A x \in {s[i] : i \in at} : x \in Range(t)
    BY <1>8, <2>1
  <2> QED
    BY <2>2, <2>3
<1> QED
  BY <1>7, <1>9 DEF t

-----------------------------------------------------------------------------
(* Which calls a script makes *)

\* One call on each of some files.
LEMMA EachCalls ==
  ASSUME NEW F, NEW files \in Seq(F), NEW do, NEW S, \A f \in F : Call(do, f) \in S
  PROVE  /\ Each(do, files) \in Seq(S)
         /\ Range(Each(do, files)) = {Call(do, f) : f \in Range(files)}
<1>1. Len(files) \in Nat /\ DOMAIN files = 1 .. Len(files) /\ files \in [1 .. Len(files) -> F]
  BY LenProperties
<1>2. Each(do, files) = [i \in 1 .. Len(files) |-> Call(do, files[i])]
  BY <1>1 DEF Each
<1>3. \A i \in 1 .. Len(files) : Call(do, files[i]) \in S
  BY <1>1
<1>4. Each(do, files) \in [1 .. Len(files) -> S]
  BY <1>2, <1>3
<1>5. Each(do, files) \in Seq(S)
  BY <1>1, <1>4
<1>6. Range(Each(do, files)) = {Call(do, f) : f \in Range(files)}
  BY <1>1, <1>2 DEF Range
<1> QED
  BY <1>5, <1>6

\* Two calls on each of some files.
LEMMA EachTwoCalls ==
  ASSUME NEW F, NEW files \in Seq(F), NEW one, NEW other, NEW S,
         \A f \in F : Call(one, f) \in S /\ Call(other, f) \in S
  PROVE  /\ EachTwo(one, other, files) \in Seq(S)
         /\ \A c : c \in Range(EachTwo(one, other, files)) <=>
                  \E f \in Range(files) : c = Call(one, f) \/ c = Call(other, f)
<1> DEFINE n == Len(files)
           t == EachTwo(one, other, files)
<1>1. n \in Nat /\ DOMAIN files = 1 .. n /\ files \in [1 .. n -> F]
  BY LenProperties
<1> HIDE DEF n
<1>2. t = [i \in 1 .. 2 * n |-> IF i % 2 = 1 THEN Call(one, files[(i + 1) \div 2])
                                               ELSE Call(other, files[i \div 2])]
  BY DEF EachTwo, n
<1>3. \A i \in 1 .. 2 * n : /\ i % 2 = 1 => (i + 1) \div 2 \in 1 .. n
                            /\ i % 2 # 1 => i \div 2 \in 1 .. n
  BY <1>1
<1> HIDE DEF t
<1>4. \A i \in 1 .. 2 * n : \E k \in 1 .. n : t[i] \in {Call(one, files[k]), Call(other, files[k])}
  BY <1>2, <1>3
<1>5. \A k \in 1 .. n : /\ 2 * k - 1 \in 1 .. 2 * n /\ (2 * k - 1) % 2 = 1
                        /\ ((2 * k - 1) + 1) \div 2 = k
                        /\ 2 * k \in 1 .. 2 * n /\ (2 * k) % 2 # 1 /\ (2 * k) \div 2 = k
  BY <1>1
<1>6. \A k \in 1 .. n : t[2 * k - 1] = Call(one, files[k]) /\ t[2 * k] = Call(other, files[k])
  BY <1>2, <1>5
<1>7. \A i \in 1 .. 2 * n : t[i] \in S
  BY <1>1, <1>4
<1>8. t \in [1 .. 2 * n -> S] /\ 2 * n \in Nat
  BY <1>1, <1>2, <1>7
<1>9. t \in Seq(S) /\ DOMAIN t = 1 .. 2 * n
  BY <1>8
<1>10. Range(t) = {t[i] : i \in 1 .. 2 * n} /\ Range(files) = {files[k] : k \in 1 .. n}
  BY <1>1, <1>9 DEF Range
<1>11. ASSUME NEW c \in Range(t)
       PROVE  \E f \in Range(files) : c = Call(one, f) \/ c = Call(other, f)
  BY <1>4, <1>10
<1>12. ASSUME NEW f \in Range(files) PROVE Call(one, f) \in Range(t) /\ Call(other, f) \in Range(t)
  BY <1>5, <1>6, <1>10
<1> QED
  BY <1>9, <1>11, <1>12 DEF t

\* The files in the other order are the same.
LEMMA ReverseCalls ==
  ASSUME NEW F, NEW files \in Seq(F)
  PROVE  Reverse(files) \in Seq(F) /\ Range(Reverse(files)) = Range(files)
<1> DEFINE n == Len(files)
<1>1. n \in Nat /\ DOMAIN files = 1 .. n /\ files \in [1 .. n -> F]
  BY LenProperties
<1>2. Reverse(files) = [i \in 1 .. n |-> files[(n - i) + 1]]
  BY DEF Reverse
<1> HIDE DEF n
<1>3. \A i \in 1 .. n : (n - i) + 1 \in 1 .. n /\ (n - ((n - i) + 1)) + 1 = i
  BY <1>1
<1>4. Reverse(files) \in [1 .. n -> F]
  BY <1>1, <1>2, <1>3
<1>5. Reverse(files) \in Seq(F)
  BY <1>1, <1>4
<1>6. Range(Reverse(files)) = {files[(n - i) + 1] : i \in 1 .. n} /\ Range(files) = {files[i] : i \in 1 .. n}
  BY <1>1, <1>2 DEF Range
<1>7. \A i \in 1 .. n : \E k \in 1 .. n : files[i] = files[(n - k) + 1]
  BY <1>3
<1>8. Range(files) \subseteq Range(Reverse(files))
  BY <1>6, <1>7
<1>9. Range(Reverse(files)) \subseteq Range(files)
  BY <1>3, <1>6
<1> QED
  BY <1>5, <1>8, <1>9

\* Lists of one and of two.
LEMMA Single == ASSUME NEW S, NEW x \in S PROVE <<x>> \in Seq(S) /\ Range(<<x>>) = {x}
<1>1. <<x>> = [i \in 1 .. 1 |-> x]
  OBVIOUS
<1> QED
  BY <1>1 DEF Range

LEMMA Pair ==
  ASSUME NEW S, NEW x \in S, NEW y \in S PROVE <<x, y>> \in Seq(S) /\ Range(<<x, y>>) = {x, y}
<1>1. <<x, y>> = [i \in 1 .. 2 |-> IF i = 1 THEN x ELSE y]
  OBVIOUS
<1> QED
  BY <1>1 DEF Range

-----------------------------------------------------------------------------
(* Locks that are given back *)

\* A script whose calls all keep the tool going, with an unlock of f.
LEMMA CoversAll ==
  ASSUME NEW S, NEW s \in Seq(S), NEW f, NEW quits, Call("unlock", f) \in Range(s),
         \A c \in Range(s) : c.do \notin quits /\ c # Call("test", f)
  PROVE  Covers(s, 1, f, quits)
<1>1. Len(s) \in Nat /\ DOMAIN s = 1 .. Len(s)
  BY LenProperties
<1>2. PICK j \in 1 .. Len(s) : s[j] = Call("unlock", f)
  BY <1>1 DEF Range
<1>3. \A k \in 1 .. j : s[k] \in Range(s)
  BY <1>1, <1>2 DEF Range
<1> QED
  BY <1>2, <1>3 DEF Covers

\* A script that takes no lock gives all of them back.
LEMMA NoLocksBalanced ==
  ASSUME NEW S, NEW s \in Seq(S), NEW quits, \A c \in Range(s) : c.do # "lock"
  PROVE  Balanced(s, quits)
BY LenProperties DEF Balanced, Range

\* A part of a script after whose locks nothing ends the tool, or looks whether
\* the file is there.
Clear(s, quits) ==
  \A i \in 1 .. Len(s) : s[i].do = "lock" =>
    \A k \in i .. Len(s) : s[k].do \notin quits /\ s[k] # Call("test", s[i].file)

LEMMA ClearAll ==
  ASSUME NEW S, NEW s \in Seq(S), NEW quits,
         \A c, d \in Range(s) : c.do = "lock" => d.do \notin quits /\ d # Call("test", c.file)
  PROVE  Clear(s, quits)
<1>1. DOMAIN s = 1 .. Len(s) /\ Len(s) \in Nat
  BY LenProperties
<1>2. \A i \in 1 .. Len(s) : s[i] \in Range(s) /\ \A k \in i .. Len(s) : s[k] \in Range(s)
  BY <1>1 DEF Range
<1> QED
  BY <1>2 DEF Clear

LEMMA ClearThen ==
  ASSUME NEW S, NEW s \in Seq(S), NEW t \in Seq(S), NEW quits, Clear(s, quits), Clear(t, quits),
         \A c \in Range(s), d \in Range(t) : c.do = "lock" =>
           d.do \notin quits /\ d # Call("test", c.file)
  PROVE  Clear(s \o t, quits)
<1> SUFFICES ASSUME NEW i \in 1 .. Len(s \o t), (s \o t)[i].do = "lock",
                    NEW k \in i .. Len(s \o t)
             PROVE  /\ (s \o t)[k].do \notin quits
                    /\ (s \o t)[k] # Call("test", (s \o t)[i].file)
  BY DEF Clear
<1>1. /\ Len(s) \in Nat /\ DOMAIN s = 1 .. Len(s)
      /\ Len(t) \in Nat /\ DOMAIN t = 1 .. Len(t)
  BY LenProperties
<1>2. /\ Len(s \o t) = Len(s) + Len(t)
      /\ \A n \in 1 .. Len(s) + Len(t) : (s \o t)[n] = IF n <= Len(s) THEN s[n] ELSE t[n - Len(s)]
  BY ConcatProperties
<1>3. CASE k <= Len(s)
  <2>1. i \in 1 .. Len(s) /\ k \in i .. Len(s) /\ (s \o t)[i] = s[i] /\ (s \o t)[k] = s[k]
    BY <1>1, <1>2, <1>3
  <2> QED
    BY <2>1 DEF Clear
<1>4. CASE i <= Len(s) /\ ~ (k <= Len(s))
  <2>1. /\ i \in 1 .. Len(s) /\ k - Len(s) \in 1 .. Len(t)
        /\ (s \o t)[i] = s[i] /\ (s \o t)[k] = t[k - Len(s)]
    BY <1>1, <1>2, <1>4
  <2>2. s[i] \in Range(s) /\ t[k - Len(s)] \in Range(t)
    BY <1>1, <2>1 DEF Range
  <2> QED
    BY <2>1, <2>2
<1>5. CASE ~ (i <= Len(s))
  <2>1. /\ i - Len(s) \in 1 .. Len(t) /\ k - Len(s) \in i - Len(s) .. Len(t)
        /\ (s \o t)[i] = t[i - Len(s)] /\ (s \o t)[k] = t[k - Len(s)]
    BY <1>1, <1>2, <1>5
  <2> QED
    BY <2>1 DEF Clear
<1> QED
  BY <1>1, <1>3, <1>4, <1>5

\* Before a script that gives back the locks that it takes.
LEMMA ClearBalanced ==
  ASSUME NEW S, NEW s \in Seq(S), NEW t \in Seq(S), NEW quits,
         Clear(s, quits), Balanced(t, quits),
         \A c \in Range(s) : c.do = "lock" => Covers(t, 1, c.file, quits)
  PROVE  Balanced(s \o t, quits)
<1> SUFFICES ASSUME NEW i \in 1 .. Len(s \o t), (s \o t)[i].do = "lock"
             PROVE  Covers(s \o t, i, (s \o t)[i].file, quits)
  BY DEF Balanced
<1>1. Len(s) \in Nat /\ Len(t) \in Nat /\ DOMAIN s = 1 .. Len(s)
  BY LenProperties
<1>2. /\ Len(s \o t) = Len(s) + Len(t)
      /\ \A k \in 1 .. Len(s) + Len(t) : (s \o t)[k] = IF k <= Len(s) THEN s[k] ELSE t[k - Len(s)]
  BY ConcatProperties
<1>3. CASE i <= Len(s)
  <2>1. i \in 1 .. Len(s) /\ (s \o t)[i] = s[i] /\ s[i] \in Range(s)
    BY <1>1, <1>2, <1>3 DEF Range
  <2> DEFINE f == s[i].file
             n == Len(s)
  <2>2. \A k \in i .. n : s[k].do \notin quits /\ s[k] # Call("test", f)
    BY <2>1 DEF Clear
  <2>3. PICK j \in 1 .. Len(t) :
          /\ t[j] = Call("unlock", f)
          /\ \A k \in 1 .. j : t[k].do \notin quits /\ t[k] # Call("test", f)
    BY <2>1 DEF Covers
  <2> HIDE DEF f
  <2>4. n + j \in i .. Len(s \o t) /\ (s \o t)[n + j] = Call("unlock", f)
    BY <1>1, <1>2, <2>1, <2>3
  <2>5. ASSUME NEW k \in i .. n + j
        PROVE  (s \o t)[k].do \notin quits /\ (s \o t)[k] # Call("test", f)
    <3>1. CASE k <= n
      <4>1. k \in i .. n /\ (s \o t)[k] = s[k]
        BY <1>1, <1>2, <2>1, <3>1
      <4> QED
        BY <2>2, <4>1
    <3>2. CASE ~ (k <= n)
      <4>1. k - n \in 1 .. j /\ (s \o t)[k] = t[k - n]
        BY <1>1, <1>2, <2>3, <3>2
      <4> QED
        BY <2>3, <4>1
    <3> QED
      BY <1>1, <3>1, <3>2
  <2> HIDE DEF n
  <2>6. Covers(s \o t, i, f, quits)
    BY <2>4, <2>5 DEF Covers
  <2> QED
    BY <2>1, <2>6 DEF f
<1>4. CASE ~ (i <= Len(s))
  <2> DEFINE n == Len(s)
             f == t[i - n].file
  <2>1. i - n \in 1 .. Len(t) /\ (s \o t)[i] = t[i - n]
    BY <1>1, <1>2, <1>4
  <2>2. PICK j \in i - n .. Len(t) :
          /\ t[j] = Call("unlock", f)
          /\ \A k \in i - n .. j : t[k].do \notin quits /\ t[k] # Call("test", f)
    BY <2>1 DEF Balanced, Covers
  <2> HIDE DEF f
  <2>3. n + j \in i .. Len(s \o t) /\ (s \o t)[n + j] = Call("unlock", f)
    BY <1>1, <1>2, <2>1, <2>2
  <2>4. ASSUME NEW k \in i .. n + j
        PROVE  (s \o t)[k].do \notin quits /\ (s \o t)[k] # Call("test", f)
    <3>1. k - n \in i - n .. j /\ (s \o t)[k] = t[k - n]
      BY <1>1, <1>2, <1>4, <2>1, <2>2
    <3> QED
      BY <2>2, <3>1
  <2> HIDE DEF n
  <2>5. Covers(s \o t, i, f, quits)
    BY <2>3, <2>4 DEF Covers
  <2> QED
    BY <2>1, <2>5 DEF f
<1> QED
  BY <1>3, <1>4

\* Calls before a script that gives back the locks that they take.
LEMMA BalancedAfter ==
  ASSUME NEW S, NEW s \in Seq(S), NEW t \in Seq(S), NEW quits, Balanced(t, quits),
         \A c \in Range(s) : c.do = "lock" =>
           /\ Covers(t, 1, c.file, quits)
           /\ \A d \in Range(s) : d.do \notin quits /\ d # Call("test", c.file)
  PROVE  Balanced(s \o t, quits)
<1>1. Clear(s, quits)
  BY ClearAll
<1> QED
  BY <1>1, ClearBalanced

\* Calls after a script that gives back its locks, when they take none.
LEMMA BalancedThen ==
  ASSUME NEW S, NEW s \in Seq(S), NEW t \in Seq(S), NEW quits, Balanced(s, quits),
         \A c \in Range(t) : c.do # "lock"
  PROVE  Balanced(s \o t, quits)
<1> SUFFICES ASSUME NEW i \in 1 .. Len(s \o t), (s \o t)[i].do = "lock"
             PROVE  Covers(s \o t, i, (s \o t)[i].file, quits)
  BY DEF Balanced
<1>1. Len(s) \in Nat /\ Len(t) \in Nat /\ DOMAIN t = 1 .. Len(t)
  BY LenProperties
<1>2. /\ Len(s \o t) = Len(s) + Len(t)
      /\ \A k \in 1 .. Len(s) + Len(t) : (s \o t)[k] = IF k <= Len(s) THEN s[k] ELSE t[k - Len(s)]
  BY ConcatProperties
<1>3. i <= Len(s)
  <2> SUFFICES ASSUME ~ (i <= Len(s)) PROVE FALSE
    OBVIOUS
  <2>1. i - Len(s) \in 1 .. Len(t) /\ (s \o t)[i] = t[i - Len(s)]
    BY <1>1, <1>2
  <2>2. t[i - Len(s)] \in Range(t)
    BY <1>1, <2>1 DEF Range
  <2> QED
    BY <2>1, <2>2
<1> DEFINE f == s[i].file
<1>4. i \in 1 .. Len(s) /\ (s \o t)[i] = s[i]
  BY <1>1, <1>2, <1>3
<1>5. PICK j \in i .. Len(s) :
        /\ s[j] = Call("unlock", f)
        /\ \A k \in i .. j : s[k].do \notin quits /\ s[k] # Call("test", f)
  BY <1>4 DEF Balanced, Covers
<1> HIDE DEF f
<1>6. j \in i .. Len(s \o t) /\ \A k \in i .. j : (s \o t)[k] = s[k]
  BY <1>1, <1>2, <1>5
<1>7. Covers(s \o t, i, f, quits)
  BY <1>5, <1>6 DEF Covers
<1> QED
  BY <1>4, <1>7 DEF f

\* After the first call, unless that gave back the lock itself.
LEMMA CoversTail ==
  ASSUME NEW S, NEW s \in Seq(S), NEW f, NEW quits, Covers(s, 1, f, quits)
  PROVE  /\ s # <<>>
         /\ Head(s).do \notin quits /\ Head(s) # Call("test", f)
         /\ Head(s) # Call("unlock", f) => Covers(Tail(s), 1, f, quits)
<1>1. Len(s) \in Nat
  BY LenProperties
<1>2. PICK j \in 1 .. Len(s) :
        /\ s[j] = Call("unlock", f)
        /\ \A k \in 1 .. j : s[k].do \notin quits /\ s[k] # Call("test", f)
  BY DEF Covers
<1>3. s # <<>> /\ Head(s) = s[1] /\ 1 \in 1 .. j
  BY <1>1, <1>2
<1>4. ASSUME Head(s) # Call("unlock", f) PROVE Covers(Tail(s), 1, f, quits)
  <2>1. Len(Tail(s)) = Len(s) - 1 /\ \A i \in 1 .. Len(Tail(s)) : Tail(s)[i] = s[i + 1]
    BY <1>3, HeadTailProperties
  <2>2. j # 1 /\ j - 1 \in 1 .. Len(Tail(s))
    BY <1>1, <1>2, <1>3, <1>4, <2>1
  <2>3. Tail(s)[j - 1] = Call("unlock", f)
    BY <1>2, <2>1, <2>2
  <2>4. \A k \in 1 .. j - 1 : k + 1 \in 1 .. j /\ Tail(s)[k] = s[k + 1]
    BY <1>1, <2>1, <2>2
  <2> QED
    BY <1>2, <2>2, <2>3, <2>4 DEF Covers
<1> QED
  BY <1>2, <1>3, <1>4

\* A balanced script stays so, and gives back what its first call locks.
LEMMA BalancedTail ==
  ASSUME NEW S, NEW s \in Seq(S), NEW quits, s # <<>>, Balanced(s, quits)
  PROVE  /\ Balanced(Tail(s), quits)
         /\ Head(s).do = "lock" => Covers(Tail(s), 1, Head(s).file, quits)
<1>1. Len(s) \in Nat /\ Len(s) # 0 /\ Head(s) = s[1]
  BY LenProperties
<1>2. Len(Tail(s)) = Len(s) - 1 /\ \A i \in 1 .. Len(Tail(s)) : Tail(s)[i] = s[i + 1]
  BY HeadTailProperties
<1>3. ASSUME NEW i \in 1 .. Len(Tail(s)), Tail(s)[i].do = "lock"
      PROVE  Covers(Tail(s), i, Tail(s)[i].file, quits)
  <2> DEFINE f == s[i + 1].file
  <2>1. i + 1 \in 1 .. Len(s) /\ s[i + 1].do = "lock" /\ Tail(s)[i].file = f
    BY <1>1, <1>2, <1>3
  <2>2. PICK j \in i + 1 .. Len(s) :
          /\ s[j] = Call("unlock", f)
          /\ \A k \in i + 1 .. j : s[k].do \notin quits /\ s[k] # Call("test", f)
    BY <2>1 DEF Balanced, Covers
  <2> HIDE DEF f
  <2>3. j - 1 \in i .. Len(Tail(s)) /\ Tail(s)[j - 1] = Call("unlock", f)
    BY <1>1, <1>2, <2>1, <2>2
  <2>4. \A k \in i .. j - 1 : k + 1 \in i + 1 .. j /\ Tail(s)[k] = s[k + 1]
    BY <1>1, <1>2, <2>1, <2>3
  <2>5. Covers(Tail(s), i, f, quits)
    BY <2>2, <2>3, <2>4 DEF Covers
  <2> QED
    BY <2>1, <2>5
<1>4. Balanced(Tail(s), quits)
  BY <1>3 DEF Balanced
<1>5. ASSUME Head(s).do = "lock" PROVE Covers(Tail(s), 1, Head(s).file, quits)
  <2> DEFINE f == Head(s).file
  <2>1. Covers(s, 1, f, quits)
    BY <1>1, <1>5 DEF Balanced
  <2>2. Head(s) # Call("unlock", f)
    BY <1>5 DEF Call
  <2> HIDE DEF f
  <2>3. Covers(Tail(s), 1, f, quits)
    BY <2>1, <2>2, CoversTail
  <2> QED
    BY <2>3 DEF f
<1> QED
  BY <1>4, <1>5

-----------------------------------------------------------------------------
(* The calls on the other files, and the unlocks of fail_exit *)

\* Ranks are positions of the sequence of entries.
LEMMA RankFacts ==
  ASSUME NEW S, NEW t \in Seq(S), NEW s, NEW at, NEW rank, Ranks(rank, s, at, t)
  PROVE  /\ rank \in [at -> 1 .. Len(t)]
         /\ \A i, j \in at : i < j => rank[i] < rank[j]
         /\ \A k \in 1 .. Len(t) : \E i \in at : rank[i] = k
         /\ \A i \in at : t[rank[i]] = s[i]
<1>1. PICK m \in Nat :
        /\ t = [k \in 1 .. m |-> t[k]]
        /\ rank \in [at -> 1 .. m]
        /\ \A i, j \in at : i < j => rank[i] < rank[j]
        /\ \A k \in 1 .. m : \E i \in at : rank[i] = k
        /\ \A i \in at : t[rank[i]] = s[i]
  BY DEF Ranks
<1>2. Len(t) = m
  BY <1>1, LenProperties
<1> QED
  BY <1>1, <1>2

\* The calls that are kept.
LEMMA WithoutCalls ==
  ASSUME NEW S, NEW s \in Seq(S), NEW f
  PROVE  /\ Without(s, f) \in Seq(S)
         /\ Range(Without(s, f)) \subseteq Range(s)
         /\ \E rank : Ranks(rank, s, {i \in 1 .. Len(s) : s[i].file # f}, Without(s, f))
<1> DEFINE at == {i \in 1 .. Len(s) : s[i].file # f}
<1>1. Len(s) \in Nat /\ DOMAIN s = 1 .. Len(s)
  BY LenProperties
<1>2. Without(s, f) = EntriesAt(s, at)
  BY <1>1 DEF Without
<1>3. at \in SUBSET (1 .. Len(s)) /\ at \in SUBSET DOMAIN s
  BY <1>1
<1> HIDE DEF at
<1>4. Without(s, f) \in Seq(S) /\ Range(Without(s, f)) = {s[i] : i \in at}
  BY <1>2, <1>3, EntriesAtRange
<1>5. Range(Without(s, f)) \subseteq Range(s)
  BY <1>3, <1>4 DEF Range
<1>6. PICK n \in Nat : at \in SUBSET (1 .. n)
  BY <1>1, <1>3
<1>7. \E rank : Ranks(rank, s, at, Without(s, f))
  BY <1>2, <1>6, EntriesAtFact
<1> QED
  BY <1>4, <1>5, <1>7 DEF at

\* Without the calls on a file, what locks of the others were given back is
\* still given back.
LEMMA CoversWithout ==
  ASSUME NEW S, NEW s \in Seq(S), NEW f, NEW g, g # f, NEW quits, Covers(s, 1, g, quits)
  PROVE  Covers(Without(s, f), 1, g, quits)
<1> DEFINE at == {i \in 1 .. Len(s) : s[i].file # f}
           t  == Without(s, f)
<1>0. PICK rank : Ranks(rank, s, at, t)
  BY WithoutCalls
<1>2. t \in Seq(S)
  BY WithoutCalls
<1> HIDE DEF t, at
<1>1. /\ rank \in [at -> 1 .. Len(t)]
      /\ \A i, j \in at : i < j => rank[i] < rank[j]
      /\ \A k \in 1 .. Len(t) : \E i \in at : rank[i] = k
      /\ \A i \in at : t[rank[i]] = s[i]
  BY <1>0, <1>2, RankFacts
<1>3. Len(s) \in Nat /\ Len(t) \in Nat
  BY <1>2, LenProperties
<1>4. PICK j \in 1 .. Len(s) :
        /\ s[j] = Call("unlock", g)
        /\ \A k \in 1 .. j : s[k].do \notin quits /\ s[k] # Call("test", g)
  BY DEF Covers
<1>5. j \in at
  BY <1>4 DEF Call, at
<1>9. at \subseteq 1 .. Len(s)
  BY DEF at
<1>6. ASSUME NEW k \in 1 .. rank[j]
      PROVE  t[k].do \notin quits /\ t[k] # Call("test", g)
  <2>1. PICK i \in at : rank[i] = k
    BY <1>1, <1>3, <1>5
  <2>2. ~ (j < i)
    BY <1>1, <1>3, <1>5, <1>9, <2>1
  <2>3. i \in 1 .. j /\ t[k] = s[i]
    BY <1>1, <1>3, <1>9, <2>1, <2>2
  <2> QED
    BY <1>4, <2>3
<1>7. rank[j] \in 1 .. Len(t) /\ t[rank[j]] = Call("unlock", g)
  BY <1>1, <1>4, <1>5
<1>8. Covers(t, 1, g, quits)
  BY <1>6, <1>7 DEF Covers
<1> QED
  BY <1>8 DEF t

\* And a balanced script stays so.
LEMMA BalancedWithout ==
  ASSUME NEW S, NEW s \in Seq(S), NEW f, NEW quits, Balanced(s, quits)
  PROVE  Balanced(Without(s, f), quits)
<1> DEFINE at == {i \in 1 .. Len(s) : s[i].file # f}
           t  == Without(s, f)
<1>0. PICK rank : Ranks(rank, s, at, t)
  BY WithoutCalls
<1>2. t \in Seq(S)
  BY WithoutCalls
<1> HIDE DEF t, at
<1>1. /\ rank \in [at -> 1 .. Len(t)]
      /\ \A i, j \in at : i < j => rank[i] < rank[j]
      /\ \A k \in 1 .. Len(t) : \E i \in at : rank[i] = k
      /\ \A i \in at : t[rank[i]] = s[i]
  BY <1>0, <1>2, RankFacts
<1>3. Len(s) \in Nat /\ Len(t) \in Nat
  BY <1>2, LenProperties
<1> HIDE DEF t
<1>4. ASSUME NEW r \in 1 .. Len(t), t[r].do = "lock"
      PROVE  Covers(t, r, t[r].file, quits)
  <2>1. PICK i \in at : rank[i] = r
    BY <1>1
  <2> DEFINE g == s[i].file
  <2>2. t[r] = s[i] /\ s[i].do = "lock" /\ i \in 1 .. Len(s) /\ g # f
    BY <1>1, <1>4, <2>1 DEF at
  <2>3. PICK j \in i .. Len(s) :
          /\ s[j] = Call("unlock", g)
          /\ \A k \in i .. j : s[k].do \notin quits /\ s[k] # Call("test", g)
    BY <2>2 DEF Balanced, Covers
  <2> HIDE DEF g
  <2>4. j \in at
    BY <2>2, <2>3 DEF Call, at
  <2>9. at \subseteq 1 .. Len(s) /\ i \in at
    BY <2>1 DEF at
  <2>5. rank[j] \in r .. Len(t)
    <3>1. j = i \/ i < j
      BY <2>3, <2>9
    <3> QED
      BY <1>1, <1>3, <2>1, <2>4, <2>9, <3>1
  <2>6. ASSUME NEW k \in r .. rank[j]
        PROVE  t[k].do \notin quits /\ t[k] # Call("test", g)
    <3>1. PICK l \in at : rank[l] = k
      BY <1>1, <1>3, <2>5
    <3>2. ~ (j < l) /\ ~ (l < i)
      BY <1>1, <1>3, <2>1, <2>4, <2>5, <2>9, <3>1
    <3>3. l \in i .. j /\ t[k] = s[l]
      BY <1>1, <1>3, <2>2, <2>3, <2>9, <3>1, <3>2
    <3> QED
      BY <2>3, <3>3
  <2>7. t[rank[j]] = Call("unlock", g)
    BY <1>1, <2>3, <2>4
  <2>8. Covers(t, r, g, quits)
    BY <2>5, <2>6, <2>7 DEF Covers
  <2> QED
    BY <2>2, <2>8 DEF g
<1>5. Balanced(t, quits)
  BY <1>4 DEF Balanced
<1> QED
  BY <1>5 DEF t

\* fail_exit unlocks all that is held of the files in its order, and nothing
\* else.
LEMMA UnlockHeldCalls ==
  ASSUME NEW F, NEW order \in Seq(F), NEW owner, NEW p, NEW quits, "unlock" \notin quits,
         NEW S, \A f \in F : Call("unlock", f) \in S
  PROVE  LET s == UnlockHeld(order, owner, p)
         IN  /\ s \in Seq(S)
             /\ \A c \in Range(s) : c.do = "unlock"
             /\ Balanced(s, quits)
             /\ \A f \in Range(order) : owner[f] = p => Covers(s, 1, f, quits)
<1> DEFINE at == {i \in DOMAIN order : owner[order[i]] = p}
           files == EntriesAt(order, at)
           s == UnlockHeld(order, owner, p)
<1>1. files \in Seq(F) /\ Range(files) = {order[i] : i \in at}
  BY EntriesAtRange
<1>2. s = Each("unlock", files)
  BY DEF UnlockHeld
<1>3. \A f \in Range(order) : owner[f] = p => f \in Range(files)
  BY <1>1 DEF Range
<1> HIDE DEF files, s
<1>4. s \in Seq(S) /\ Range(s) = {Call("unlock", f) : f \in Range(files)}
  BY <1>1, <1>2, EachCalls
<1>5. \A c \in Range(s) : c.do = "unlock"
  BY <1>4 DEF Call
<1>6. Balanced(s, quits)
  BY <1>4, <1>5, NoLocksBalanced
<1>7. ASSUME NEW f \in Range(files) PROVE Covers(s, 1, f, quits)
  <2>1. Call("unlock", f) \in Range(s)
    BY <1>4
  <2>2. \A c \in Range(s) : c.do \notin quits /\ c # Call("test", f)
    BY <1>5 DEF Call
  <2> QED
    BY <1>4, <2>1, <2>2, CoversAll
<1> QED
  BY <1>3, <1>4, <1>5, <1>6, <1>7 DEF s

-----------------------------------------------------------------------------
(* What never comes after what *)

\* In the script s no call of B comes after one of A.
Never(s, A, B) == \A i, j \in DOMAIN s : i < j /\ s[i] \in A => s[j] \notin B

\* The calls of a script are the first and those of the rest.
LEMMA HeadAndTail ==
  ASSUME NEW S, NEW s \in Seq(S), s # <<>>
  PROVE  Tail(s) \in Seq(S) /\ Head(s) \in S /\ Range(s) = {Head(s)} \cup Range(Tail(s))
<1> DEFINE t == Tail(s)
<1>1. /\ t \in Seq(S) /\ Head(s) \in S /\ Head(s) = s[1]
      /\ DOMAIN s = 1 .. Len(s) /\ DOMAIN t = 1 .. Len(s) - 1
      /\ Len(s) \in Nat /\ Len(s) # 0
      /\ \A i \in 1 .. Len(s) - 1 : t[i] = s[i + 1]
  BY HeadTailProperties, LenProperties, EmptySeq
<1> HIDE DEF t
<1>2. ASSUME NEW c \in Range(s) PROVE c = Head(s) \/ c \in Range(t)
  <2>1. PICK i \in 1 .. Len(s) : c = s[i]
    BY <1>1 DEF Range
  <2>2. CASE i = 1
    BY <1>1, <2>1, <2>2
  <2>3. CASE i # 1
    <3>1. i - 1 \in DOMAIN t /\ t[i - 1] = s[i]
      BY <1>1, <2>3
    <3> QED BY <2>1, <3>1 DEF Range
  <2> QED BY <2>2, <2>3
<1>3. \A c \in Range(t) : c \in Range(s)
  <2>1. \A i \in DOMAIN t : i + 1 \in DOMAIN s /\ t[i] = s[i + 1]
    BY <1>1
  <2> QED BY <2>1 DEF Range
<1>4. Head(s) \in Range(s)
  BY <1>1 DEF Range
<1>5. Range(s) = {Head(s)} \cup Range(t)
  BY <1>2, <1>3, <1>4
<1> QED BY <1>1, <1>5 DEF t

LEMMA NeverTail ==
  ASSUME NEW S, NEW s \in Seq(S), s # <<>>, NEW A, NEW B, Never(s, A, B)
  PROVE  /\ Never(Tail(s), A, B)
         /\ Head(s) \in A => \A c \in Range(Tail(s)) : c \notin B
<1> DEFINE t == Tail(s)
<1>1. /\ DOMAIN s = 1 .. Len(s) /\ DOMAIN t = 1 .. Len(s) - 1 /\ Head(s) = s[1]
      /\ Len(s) \in Nat /\ Len(s) # 0
      /\ \A i \in 1 .. Len(s) - 1 : t[i] = s[i + 1]
  BY HeadTailProperties, LenProperties, EmptySeq
<1> HIDE DEF t
<1>2. \A i \in DOMAIN t : i \in Nat /\ i >= 1 /\ i + 1 \in DOMAIN s /\ t[i] = s[i + 1]
  BY <1>1
<1>3. Never(t, A, B)
  <2> SUFFICES ASSUME NEW i \in DOMAIN t, NEW j \in DOMAIN t, i < j, t[i] \in A
               PROVE  t[j] \notin B
    BY DEF Never
  <2>1. i + 1 < j + 1
    BY <1>2
  <2> QED BY <1>2, <2>1 DEF Never
<1>4. ASSUME Head(s) \in A, NEW c \in Range(t) PROVE c \notin B
  <2>1. PICK j \in DOMAIN t : c = t[j]
    BY <1>4 DEF Range
  <2>2. 1 \in DOMAIN s /\ 1 < j + 1 /\ s[1] \in A /\ c = s[j + 1] /\ j + 1 \in DOMAIN s
    BY <1>1, <1>2, <1>4, <2>1
  <2> QED BY <2>2 DEF Never
<1> QED BY <1>3, <1>4 DEF t

\* Where there is no call of A, or none of B.
LEMMA NeverNone ==
  ASSUME NEW s, NEW A, NEW B, (\A c \in Range(s) : c \notin A) \/ (\A c \in Range(s) : c \notin B)
  PROVE  Never(s, A, B)
BY DEF Never, Range

\* One script and then another.
LEMMA NeverThen ==
  ASSUME NEW S, NEW s \in Seq(S), NEW t \in Seq(S), NEW A, NEW B, Never(s, A, B), Never(t, A, B),
         (\A c \in Range(s) : c \notin A) \/ (\A c \in Range(t) : c \notin B)
  PROVE  Never(s \o t, A, B)
<1> DEFINE u == s \o t
<1>1. /\ Len(s) \in Nat /\ Len(t) \in Nat /\ DOMAIN s = 1 .. Len(s) /\ DOMAIN t = 1 .. Len(t)
      /\ DOMAIN u = 1 .. Len(s) + Len(t)
      /\ \A i \in 1 .. Len(s) + Len(t) : u[i] = IF i <= Len(s) THEN s[i] ELSE t[i - Len(s)]
  BY ConcatProperties, LenProperties
<1> HIDE DEF u
<1>2. ASSUME NEW i \in DOMAIN u
      PROVE  \/ i \in DOMAIN s /\ u[i] = s[i]
             \/ i - Len(s) \in DOMAIN t /\ u[i] = t[i - Len(s)] /\ i > Len(s)
  BY <1>1
<1>3. ASSUME NEW i \in DOMAIN u, NEW j \in DOMAIN u, i < j, u[i] \in A PROVE u[j] \notin B
  <2>0. i \in Nat /\ j \in Nat
    BY <1>1
  <2>1. CASE j \in DOMAIN s /\ u[j] = s[j]
    <3>1. i \in DOMAIN s /\ u[i] = s[i]
      BY <1>1, <1>3, <2>0, <2>1
    <3> QED BY <1>3, <2>1, <3>1 DEF Never
  <2>2. CASE j - Len(s) \in DOMAIN t /\ u[j] = t[j - Len(s)]
    <3>1. CASE i \in DOMAIN s /\ u[i] = s[i]
      <4>1. u[i] \in Range(s) /\ u[j] \in Range(t)
        BY <2>2, <3>1 DEF Range
      <4> QED BY <1>3, <4>1
    <3>2. CASE i - Len(s) \in DOMAIN t /\ u[i] = t[i - Len(s)]
      <4>1. i - Len(s) < j - Len(s)
        BY <1>1, <1>3, <2>0
      <4> QED BY <1>3, <2>2, <3>2, <4>1 DEF Never
    <3> QED BY <1>2, <3>1, <3>2
  <2> QED BY <1>2, <2>1, <2>2
<1> QED BY <1>3 DEF Never, u

LEMMA NeverOne == ASSUME NEW c, NEW A, NEW B PROVE Never(<<c>>, A, B)
BY DEF Never

\* The calls that are left when those on a file are taken away.
LEMMA WithoutRange ==
  ASSUME NEW S, NEW s \in Seq(S), NEW f
  PROVE  Range(Without(s, f)) = {c \in Range(s) : c.file # f}
<1> DEFINE at == {i \in DOMAIN s : s[i].file # f}
<1>1. at \in SUBSET DOMAIN s
  OBVIOUS
<1>2. Range(EntriesAt(s, at)) = {s[i] : i \in at}
  <2> HIDE DEF at
  <2> QED BY <1>1, EntriesAtRange
<1> QED BY <1>2 DEF Without, Range

LEMMA NeverWithout ==
  ASSUME NEW S, NEW s \in Seq(S), NEW f, NEW A, NEW B, Never(s, A, B)
  PROVE  Never(Without(s, f), A, B)
<1> DEFINE at == {i \in 1 .. Len(s) : s[i].file # f}
           t  == Without(s, f)
<1>0. PICK rank : Ranks(rank, s, at, t)
  BY WithoutCalls
<1>1. t \in Seq(S)
  BY WithoutCalls
<1>2. at \subseteq 1 .. Len(s)
  OBVIOUS
<1> HIDE DEF t, at
<1>3. /\ rank \in [at -> 1 .. Len(t)]
      /\ \A i, j \in at : i < j => rank[i] < rank[j]
      /\ \A k \in 1 .. Len(t) : \E i \in at : rank[i] = k
      /\ \A i \in at : t[rank[i]] = s[i]
  BY <1>0, <1>1, RankFacts
<1>4. Len(s) \in Nat /\ Len(t) \in Nat /\ DOMAIN s = 1 .. Len(s) /\ DOMAIN t = 1 .. Len(t)
  BY <1>1, LenProperties
<1>5. ASSUME NEW k \in DOMAIN t, NEW l \in DOMAIN t, k < l, t[k] \in A PROVE t[l] \notin B
  <2>1. PICK i \in at : rank[i] = k /\ t[k] = s[i]
    BY <1>3, <1>4
  <2>2. PICK j \in at : rank[j] = l /\ t[l] = s[j]
    BY <1>3, <1>4
  <2>3. i \in 1 .. Len(s) /\ j \in 1 .. Len(s) /\ k \in 1 .. Len(t) /\ l \in 1 .. Len(t)
    BY <1>2, <1>4
  <2>4. i < j
    <3> SUFFICES ASSUME ~(i < j) PROVE FALSE
      OBVIOUS
    <3>1. j = i \/ j < i
      BY <1>4, <2>3
    <3>2. j < i => rank[j] < rank[i]
      BY <1>3
    <3> QED BY <1>4, <1>5, <2>1, <2>2, <2>3, <3>1, <3>2
  <2> QED BY <1>4, <1>5, <2>1, <2>2, <2>3, <2>4 DEF Never
<1> QED BY <1>5 DEF Never, t

\* The calls on the files of a short list.
LEMMA ShortEach ==
  ASSUME NEW do, NEW f, NEW g
  PROVE  /\ Each(do, <<f>>) = <<Call(do, f)>>
         /\ Each(do, <<f, g>>) = <<Call(do, f), Call(do, g)>>
<1>1. DOMAIN <<f>> = 1 .. 1 /\ DOMAIN <<f, g>> = 1 .. 2
  OBVIOUS
<1> QED BY <1>1 DEF Each

LEMMA ShortEachTwo ==
  ASSUME NEW one, NEW other, NEW files
  PROVE  LET t == EachTwo(one, other, files)
         IN  /\ Len(files) = 1 => /\ DOMAIN t = 1 .. 2
                                  /\ t[1] = Call(one, files[1]) /\ t[2] = Call(other, files[1])
             /\ Len(files) = 2 => /\ DOMAIN t = 1 .. 4
                                  /\ t[1] = Call(one, files[1]) /\ t[2] = Call(other, files[1])
                                  /\ t[3] = Call(one, files[2]) /\ t[4] = Call(other, files[2])
<1>1. ASSUME NEW n \in {1, 2}, Len(files) = n
      PROVE  EachTwo(one, other, files) =
               [i \in 1 .. 2 * n |-> IF i % 2 = 1 THEN Call(one, files[(i + 1) \div 2])
                                     ELSE Call(other, files[i \div 2])]
  BY <1>1 DEF EachTwo
<1> QED BY <1>1
=============================================================================
